---------------------------- MODULE DomainProofs ----------------------------
(***************************************************************************)
(* What the algebra of Domain amounts to, for any domain and any field     *)
(* that has one: the laws of the field, the tables of roots, bit reversal, *)
(* and two things the kernels rely on. A butterfly makes of two halves of  *)
(* a transform the transform of both. And the polynomial that is           *)
(* multiplied up from the list of missing cells is zero on the elements of *)
(* those cells and nowhere else on the domain.                             *)
(*                                                                         *)
(* The field is where every sum and product is taken: its laws are proved  *)
(* first, from the arithmetic of residues, and used from then on without   *)
(* looking at what FrAdd and FrMul are.                                    *)
(***************************************************************************)
EXTENDS Domain, Arithmetic

-----------------------------------------------------------------------------
(* Residues *)

\* The modulus is a number above 2.
LEMMA PrimeIs == P \in Nat /\ P > 2
  BY DomainAssumption

\* What is left of an integer.
LEMMA Remainder ==
  ASSUME NEW a \in Int
  PROVE  a % P \in Field /\ \E k \in Int : a = (a % P) + k * P
  <1>1. P \in Nat /\ P > 0
    BY PrimeIs
  <1>2. a % P \in 0..(P - 1) /\ a \div P \in Int /\ a = (a % P) + (a \div P) * P
    BY <1>1
  <1> QED BY <1>2 DEF Field

\* There is one such residue.
LEMMA RemainderIs ==
  ASSUME NEW a \in Int, NEW k \in Int, NEW r \in Field, a = r + k * P
  PROVE  a % P = r
  <1>1. P \in Nat /\ P > 2 /\ r \in Int /\ 0 <= r /\ r < P
    BY PrimeIs DEF Field
  <1>2. PICK s \in Field, j \in Int : s = a % P /\ a = s + j * P
    BY Remainder
  <1>3. s \in Int /\ 0 <= s /\ s < P
    BY <1>1, <1>2 DEF Field
  <1>4. r - s = (j - k) * P
    BY <1>1, <1>2, <1>3
  <1> DEFINE d == j - k
  <1>5. d \in Int /\ r - s = d * P
    BY <1>4
  <1> HIDE DEF d
  <1>6. d >= 1 => d * P >= P
    BY <1>1, <1>5
  <1>7. d <= -1 => d * P <= -P
    BY <1>1, <1>5
  <1>8. d * P \in Int
    BY <1>1, <1>5
  <1> DEFINE m == d * P
  <1>9. d = 0
    <2>1. r - s = m /\ m \in Int /\ (d >= 1 => m >= P) /\ (d <= -1 => m <= -P)
      BY <1>5, <1>6, <1>7, <1>8
    <2> HIDE DEF m
    <2> QED BY <1>1, <1>3, <1>5, <2>1
  <1>10. m = 0
    BY <1>1, <1>9
  <1> QED BY <1>1, <1>2, <1>3, <1>5, <1>10

\* Integers that differ by a multiple of P leave the same.
LEMMA SameRemainder ==
  ASSUME NEW a \in Int, NEW b \in Int, NEW k \in Int, a = b + k * P
  PROVE  a % P = b % P
  <1>1. PICK j \in Int : b = (b % P) + j * P
    BY Remainder
  <1> DEFINE r == b % P
  <1>2. r \in Field /\ r \in Int
    BY Remainder, PrimeIs DEF Field
  <1>3. b = r + j * P
    BY <1>1
  <1> HIDE DEF r
  <1>4. a = r + (k + j) * P
    BY <1>2, <1>3, PrimeIs
  <1>5. a % P = r
    BY <1>2, <1>4, RemainderIs
  <1> QED BY <1>5 DEF r

\* A field element is what it leaves.
LEMMA ResidueIsItself == ASSUME NEW a \in Field PROVE a \in Int /\ a % P = a
  <1>1. a \in Int /\ a = a + 0 * P
    BY PrimeIs DEF Field
  <1> QED BY <1>1, RemainderIs

-----------------------------------------------------------------------------
(* The laws of the field *)

\* The field is closed under its operations.
LEMMA Closed ==
  /\ 0 \in Field /\ 1 \in Field
  /\ \A a, b \in Field : FrAdd(a, b) \in Field /\ FrMul(a, b) \in Field /\ FrNeg(a) \in Field
  <1>1. Field \subseteq Int /\ 0 \in Field /\ 1 \in Field
    BY PrimeIs DEF Field
  <1>2. ASSUME NEW a \in Field, NEW b \in Field
        PROVE  FrAdd(a, b) \in Field /\ FrMul(a, b) \in Field /\ FrNeg(a) \in Field
    <2>1. a + b \in Int /\ a * b \in Int /\ 0 - a \in Int
      BY <1>1
    <2> QED BY <2>1, Remainder DEF FrAdd, FrMul, FrNeg, FrSub
  <1> QED BY <1>1, <1>2

\* The order of two operands does not matter.
LEMMA Commutes ==
  ASSUME NEW a \in Field, NEW b \in Field
  PROVE  FrAdd(a, b) = FrAdd(b, a) /\ FrMul(a, b) = FrMul(b, a)
  <1>1. a \in Int /\ b \in Int
    BY ResidueIsItself
  <1>2. a + b = b + a /\ a * b = b * a
    BY <1>1
  <1> QED BY <1>2 DEF FrAdd, FrMul

\* Adding zero, multiplying by one and by zero.
LEMMA Neutral ==
  ASSUME NEW a \in Field
  PROVE  /\ FrAdd(a, 0) = a /\ FrAdd(0, a) = a
         /\ FrMul(a, 1) = a /\ FrMul(1, a) = a
         /\ FrMul(a, 0) = 0 /\ FrMul(0, a) = 0
  <1>1. a \in Int /\ a % P = a
    BY ResidueIsItself
  <1>2. a + 0 = a /\ 0 + a = a /\ a * 1 = a /\ 1 * a = a /\ a * 0 = 0 /\ 0 * a = 0
    BY <1>1
  <1>3. 0 % P = 0
    BY Closed, ResidueIsItself
  <1> QED BY <1>1, <1>2, <1>3 DEF FrAdd, FrMul

\* The parentheses of a sum do not matter.
LEMMA AddAssociates ==
  ASSUME NEW a \in Field, NEW b \in Field, NEW c \in Field
  PROVE  FrAdd(FrAdd(a, b), c) = FrAdd(a, FrAdd(b, c))
  <1>1. a \in Int /\ b \in Int /\ c \in Int /\ P \in Int
    BY ResidueIsItself, PrimeIs
  <1> DEFINE u == (a + b) % P
             v == (b + c) % P
  <1>2. a + b \in Int /\ b + c \in Int
    BY <1>1
  <1>3. PICK j \in Int : a + b = u + j * P
    BY <1>2, Remainder
  <1>4. PICK k \in Int : b + c = v + k * P
    BY <1>2, Remainder
  <1>5. u \in Int /\ v \in Int
    BY <1>2, Remainder, ResidueIsItself
  <1> HIDE DEF u, v
  <1>6. (a + b) + c = (u + c) + j * P /\ (a + b) + c = (a + v) + k * P
    BY <1>1, <1>3, <1>4, <1>5
  <1>7. ((a + b) + c) % P = (u + c) % P /\ ((a + b) + c) % P = (a + v) % P
    <2>1. (a + b) + c \in Int /\ u + c \in Int /\ a + v \in Int
      BY <1>1, <1>5
    <2> QED BY <1>6, <2>1, SameRemainder
  <1> QED BY <1>7 DEF FrAdd, u, v

\* Nor do those of a product.
LEMMA MulAssociates ==
  ASSUME NEW a \in Field, NEW b \in Field, NEW c \in Field
  PROVE  FrMul(FrMul(a, b), c) = FrMul(a, FrMul(b, c))
  <1>1. a \in Int /\ b \in Int /\ c \in Int /\ P \in Int
    BY ResidueIsItself, PrimeIs
  <1>2. a * b \in Int /\ b * c \in Int
    BY <1>1
  <1> DEFINE u == (a * b) % P
             v == (b * c) % P
  <1>3. PICK j \in Int : a * b = u + j * P
    BY <1>2, Remainder
  <1>4. PICK k \in Int : b * c = v + k * P
    BY <1>2, Remainder
  <1>5. u \in Int /\ v \in Int
    BY <1>2, Remainder, ResidueIsItself
  <1> HIDE DEF u, v
  <1>6. (a * b) * c = u * c + (j * c) * P
    BY <1>1, <1>3, <1>5
  <1>7. (a * b) * c = a * v + (a * k) * P
    <2>1. (a * b) * c = a * (b * c)
      BY <1>1
    <2>2. a * (v + k * P) = a * v + (a * k) * P
      BY <1>1, <1>5
    <2> QED BY <1>4, <2>1, <2>2
  <1>8. /\ (a * b) * c \in Int /\ u * c \in Int /\ a * v \in Int
        /\ j * c \in Int /\ a * k \in Int
    BY <1>1, <1>2, <1>5
  <1>9. ((a * b) * c) % P = (u * c) % P
    BY <1>6, <1>8, SameRemainder
  <1>10. ((a * b) * c) % P = (a * v) % P
    BY <1>7, <1>8, SameRemainder
  <1> QED BY <1>9, <1>10 DEF FrMul, u, v

\* Products distribute over sums.
LEMMA FieldDistributes ==
  ASSUME NEW a \in Field, NEW b \in Field, NEW c \in Field
  PROVE  FrMul(a, FrAdd(b, c)) = FrAdd(FrMul(a, b), FrMul(a, c))
  <1>1. a \in Int /\ b \in Int /\ c \in Int /\ P \in Int
    BY ResidueIsItself, PrimeIs
  <1>2. a * b \in Int /\ a * c \in Int /\ b + c \in Int
    BY <1>1
  <1> DEFINE u == (a * b) % P
             v == (a * c) % P
             w == (b + c) % P
  <1>3. PICK j \in Int : a * b = u + j * P
    BY <1>2, Remainder
  <1>4. PICK k \in Int : a * c = v + k * P
    BY <1>2, Remainder
  <1>5. PICK m \in Int : b + c = w + m * P
    BY <1>2, Remainder
  <1>6. u \in Int /\ v \in Int /\ w \in Int
    BY <1>2, Remainder, ResidueIsItself
  <1> DEFINE x == a * b
             y == a * c
  <1>7. x + y = a * (b + c) /\ x \in Int /\ y \in Int
    BY <1>1
  <1> HIDE DEF u, v, w
  <1>8. x + y = (u + v) + (j + k) * P
    <2>1. x = u + j * P /\ y = v + k * P
      BY <1>3, <1>4
    <2> HIDE DEF x, y
    <2> QED BY <1>1, <1>6, <1>7, <2>1
  <1>9. x + y = a * w + (a * m) * P
    <2>1. a * (w + m * P) = a * w + (a * m) * P
      BY <1>1, <1>6
    <2> HIDE DEF x, y
    <2> QED BY <1>5, <1>7, <2>1
  <1>10. x + y \in Int /\ u + v \in Int /\ a * w \in Int /\ a * m \in Int /\ j + k \in Int
    BY <1>1, <1>6, <1>7
  <1> HIDE DEF x, y
  <1>11. (x + y) % P = (u + v) % P
    BY <1>8, <1>10, SameRemainder
  <1>12. (x + y) % P = (a * w) % P
    BY <1>9, <1>10, SameRemainder
  <1> QED BY <1>11, <1>12 DEF FrMul, FrAdd, u, v, w

\* a + (-b) is zero when, and only when, b is a.
LEMMA Opposite ==
  ASSUME NEW a \in Field, NEW b \in Field
  PROVE  FrAdd(a, FrNeg(b)) = 0 <=> a = b
  <1>1. a \in Int /\ b \in Int /\ P \in Int
    BY ResidueIsItself, PrimeIs
  <1> DEFINE n == (0 - b) % P
  <1>2. 0 - b \in Int
    BY <1>1
  <1>3. PICK j \in Int : 0 - b = n + j * P
    BY <1>2, Remainder
  <1>4. n \in Int
    BY <1>2, Remainder, ResidueIsItself
  <1>5. FrAdd(a, FrNeg(b)) = (a + n) % P
    BY DEF FrAdd, FrNeg, FrSub
  <1> HIDE DEF n
  <1>6. a - b = (a + n) + j * P /\ a - b \in Int /\ a + n \in Int
    BY <1>1, <1>3, <1>4
  <1>7. (a - b) % P = (a + n) % P
    BY <1>6, SameRemainder
  <1>8. ASSUME (a - b) % P = 0 PROVE a = b
    <2>1. PICK k \in Int : a - b = 0 + k * P
      BY <1>6, <1>8, Remainder
    <2>2. a = b + k * P
      BY <1>1, <2>1
    <2>3. a % P = b % P
      BY <1>1, <2>2, SameRemainder
    <2> QED BY <2>3, ResidueIsItself
  <1>9. a = b => (a - b) % P = 0
    <2>1. 0 % P = 0
      BY Closed, ResidueIsItself
    <2> QED BY <1>1, <2>1
  <1> QED BY <1>5, <1>7, <1>8, <1>9

-----------------------------------------------------------------------------
(* Powers *)

\* g has the powers of a up to the n-th, each from the one before.
PowersOf(g, a, n) ==
  /\ g \in [0..n -> Field]
  /\ g[0] = 1
  /\ \A m \in 1..n : g[m] = FrMul(g[m - 1], a)

\* There are such powers.
LEMMA PowersExist ==
  ASSUME NEW a \in Field, NEW n \in Nat PROVE \E g : PowersOf(g, a, n)
  <1> DEFINE one == 1
             G == [x \in (1..n) \X Field |-> FrMul(x[2], a)]
  <1>1. one \in Field /\ G \in [(1..n) \X Field -> Field]
    BY Closed
  <1>2. PICK g \in [0..n -> Field] : Follows(g, n, one, G)
    <2> HIDE DEF one, G
    <2> QED BY <1>1, Recursion, Zenon
  <1>3. \A m \in 1..n : g[m] = FrMul(g[m - 1], a)
    <2> SUFFICES ASSUME NEW m \in 1..n PROVE g[m] = FrMul(g[m - 1], a)
      OBVIOUS
    <2>1. g[m - 1] \in Field /\ <<m, g[m - 1]>> \in (1..n) \X Field
      OBVIOUS
    <2>2. G[<<m, g[m - 1]>>] = FrMul(g[m - 1], a)
      BY <2>1
    <2> QED BY <1>2, <2>2 DEF Follows
  <1>4. g[0] = 1
    BY <1>2 DEF Follows
  <1> HIDE DEF G, one
  <1>5. PowersOf(g, a, n)
    BY <1>3, <1>4 DEF PowersOf
  <1> QED BY <1>5

\* The exponents of a product add up.
LEMMA PowersAdd ==
  ASSUME NEW a \in Field, NEW n \in Nat, NEW g, PowersOf(g, a, n),
         NEW i \in Nat, NEW j \in Nat, i + j <= n
  PROVE  g[i + j] = FrMul(g[i], g[j])
  <1> DEFINE T == {k \in Nat : i + k <= n => g[i + k] = FrMul(g[i], g[k])}
  <1>1. 0 \in T
    <2>1. i \in 0..n /\ i + 0 = i
      OBVIOUS
    <2>2. g[i] \in Field /\ g[0] = 1
      BY <2>1 DEF PowersOf
    <2> QED BY <2>1, <2>2, Neutral
  <1>2. ASSUME NEW k \in Nat, k \in T PROVE k + 1 \in T
    <2> SUFFICES ASSUME i + (k + 1) <= n PROVE g[i + (k + 1)] = FrMul(g[i], g[k + 1])
      OBVIOUS
    <2>1. /\ i \in 0..n /\ k \in 0..n /\ i + k \in 0..n /\ i + k <= n
          /\ k + 1 \in 1..n /\ i + (k + 1) \in 1..n
          /\ (k + 1) - 1 = k /\ (i + (k + 1)) - 1 = i + k
      OBVIOUS
    <2>2. g[i] \in Field /\ g[k] \in Field
      BY <2>1 DEF PowersOf
    <2>3. g[k + 1] = FrMul(g[k], a) /\ g[i + (k + 1)] = FrMul(g[i + k], a)
      BY <2>1 DEF PowersOf
    <2>4. g[i + k] = FrMul(g[i], g[k])
      BY <1>2, <2>1
    <2>5. FrMul(FrMul(g[i], g[k]), a) = FrMul(g[i], FrMul(g[k], a))
      BY <2>2, MulAssociates
    <2> QED BY <2>3, <2>4, <2>5
  <1>3. Nat \subseteq T
    <2> HIDE DEF T
    <2> QED BY <1>1, <1>2, Induction
  <1> QED BY <1>3

\* What squaring and multiplying computes.
LEMMA PowIs ==
  ASSUME NEW a \in Field, NEW n \in Nat, NEW g, PowersOf(g, a, n) PROVE FrPow(a, n) = g[n]
  <1> DEFINE Squared(h, m) == FrMul(h[m \div 2], h[m \div 2])
             Step(h) == [m \in 0..n |->
               IF m = 0 THEN 1 ELSE IF m % 2 = 0 THEN Squared(h, m) ELSE FrMul(Squared(h, m), a)]
             r == CHOOSE h : h = Step(h)
  <1>1. g = Step(g)
    <2>1. ASSUME NEW m \in 0..n, m # 0
          PROVE  g[m] = IF m % 2 = 0 THEN Squared(g, m) ELSE FrMul(Squared(g, m), a)
      <3> DEFINE k == m \div 2
      <3>1. m \in Nat /\ m <= n /\ m \in 1..n
        BY <2>1
      <3>2. /\ k \in Nat /\ k + k <= n
            /\ m % 2 = 0 => m = k + k
            /\ m % 2 # 0 => k + k = m - 1
        BY <3>1
      <3> HIDE DEF k
      <3>3. g[k + k] = FrMul(g[k], g[k])
        BY <3>2, PowersAdd, ZenonT(60)
      <3>4. m % 2 # 0 => g[m] = FrMul(g[k + k], a)
        BY <3>1, <3>2 DEF PowersOf
      <3>5. Squared(g, m) = FrMul(g[k], g[k])
        BY DEF k
      <3> HIDE DEF Squared
      <3> QED BY <3>2, <3>3, <3>4, <3>5
    <2> HIDE DEF Squared
    <2> QED BY <2>1 DEF PowersOf
  <1>2. r = Step(r)
    <2> HIDE DEF Step
    <2> QED BY <1>1
  <1>3. FrPow(a, n) = r[n]
    BY DEF FrPow
  <1> HIDE DEF r
  <1> DEFINE T == {m \in 0..n : r[m] # g[m]}
  <1>4. SUFFICES ASSUME T # {} PROVE FALSE
    <2>1. n \in 0..n /\ (T = {} => r[n] = g[n])
      OBVIOUS
    <2> HIDE DEF T
    <2> QED BY <1>3, <2>1
  <1>5. PICK m \in T : \A k \in T : m <= k
    <2>1. T \subseteq Nat
      OBVIOUS
    <2> HIDE DEF T
    <2> QED BY <1>4, <2>1, Least
  <1>6. m \in 0..n /\ r[m] # g[m]
    OBVIOUS
  <1>7. m # 0
    <2>1. r[0] = 1
      BY <1>2
    <2> QED BY <1>6, <2>1 DEF PowersOf
  <1>8. m \div 2 \in 0..n /\ m \div 2 < m
    BY <1>6, <1>7
  <1>9. r[m \div 2] = g[m \div 2]
    <2>1. m \div 2 \notin T
      <3> HIDE DEF T
      <3> QED BY <1>5, <1>6, <1>8
    <2> QED BY <1>8, <2>1
  <1>10. Squared(r, m) = Squared(g, m)
    BY <1>9
  <1>11. r[m] = g[m]
    <2>1. /\ r[m] = IF m % 2 = 0 THEN Squared(r, m) ELSE FrMul(Squared(r, m), a)
          /\ g[m] = IF m % 2 = 0 THEN Squared(g, m) ELSE FrMul(Squared(g, m), a)
      <3> HIDE DEF Squared
      <3> QED BY <1>1, <1>2, <1>6, <1>7
    <2> HIDE DEF Squared
    <2> QED BY <1>10, <2>1
  <1> QED BY <1>6, <1>11

\* One power more.
LEMMA PowNext ==
  ASSUME NEW a \in Field, NEW n \in Nat
  PROVE  /\ FrPow(a, n) \in Field
         /\ FrPow(a, n + 1) = FrMul(FrPow(a, n), a)
         /\ FrPow(a, 0) = 1
  <1> DEFINE m == n + 1
             zero == 0
  <1>1. m \in Nat /\ m \in 1..m /\ m - 1 = n /\ n \in 0..m /\ 0..n \subseteq 0..m /\ zero \in Nat
    OBVIOUS
  <1>2. PICK g : PowersOf(g, a, m)
    <2> HIDE DEF m
    <2> QED BY <1>1, PowersExist, Zenon
  <1> DEFINE h == [i \in 0..n |-> g[i]]
             one == [i \in 0..zero |-> 1]
  <1>3. PowersOf(h, a, n) /\ h[n] = g[n]
    BY <1>2 DEF PowersOf
  <1>4. PowersOf(one, a, zero) /\ one[zero] = 1
    BY Closed DEF PowersOf
  <1>5. FrPow(a, n) = h[n]
    <2> HIDE DEF h
    <2> QED BY <1>3, PowIs, Zenon
  <1>6. FrPow(a, m) = g[m]
    <2> HIDE DEF m
    <2> QED BY <1>1, <1>2, PowIs, Zenon
  <1>7. FrPow(a, zero) = one[zero]
    <2> HIDE DEF one, zero
    <2> QED BY <1>1, <1>4, PowIs, Zenon
  <1>8. FrPow(a, zero) = 1
    <2> HIDE DEF one, zero
    <2> QED BY <1>4, <1>7
  <1> HIDE DEF h, m, one
  <1>9. g[m] = FrMul(g[n], a) /\ g[n] \in Field
    BY <1>1, <1>2 DEF PowersOf
  <1> QED BY <1>3, <1>5, <1>6, <1>8, <1>9 DEF m, zero

\* The exponents of a product of powers add up.
LEMMA PowAdds ==
  ASSUME NEW a \in Field, NEW m \in Nat, NEW n \in Nat
  PROVE  FrPow(a, m + n) = FrMul(FrPow(a, m), FrPow(a, n))
  <1> DEFINE T == {k \in Nat : FrPow(a, m + k) = FrMul(FrPow(a, m), FrPow(a, k))}
  <1>1. 0 \in T
    <2>1. m + 0 = m
      OBVIOUS
    <2> QED BY <2>1, PowNext, Neutral
  <1>2. ASSUME NEW k \in Nat, k \in T PROVE k + 1 \in T
    <2>1. m + (k + 1) = (m + k) + 1 /\ m + k \in Nat
      OBVIOUS
    <2>2. /\ FrPow(a, k + 1) = FrMul(FrPow(a, k), a)
          /\ FrPow(a, (m + k) + 1) = FrMul(FrPow(a, m + k), a)
          /\ FrPow(a, k) \in Field /\ FrPow(a, m) \in Field
      BY <2>1, PowNext
    <2>3. FrMul(FrMul(FrPow(a, m), FrPow(a, k)), a) = FrMul(FrPow(a, m), FrMul(FrPow(a, k), a))
      BY <2>2, MulAssociates
    <2> QED BY <1>2, <2>1, <2>2, <2>3
  <1>3. Nat \subseteq T
    <2> HIDE DEF T
    <2> QED BY <1>1, <1>2, Induction
  <1> QED BY <1>3

\* A function from 1..n is a sequence, and so is the tuple made of it.
LEMMA Tuple ==
  ASSUME NEW n \in Nat, NEW S, NEW f \in [1..n -> S]
  PROVE  f \in Seq(S) /\ <<>> \o f = f
  <1>1. f \in Seq(S) /\ Len(f) = n
    OBVIOUS
  <1>2. \A i \in 1..n : (<<>> \o f)[i] = f[i]
    BY <1>1
  <1>3. <<>> \o f \in Seq(S) /\ Len(<<>> \o f) = n
    BY <1>1
  <1> QED BY <1>1, <1>2, <1>3

\* The field has no divisors of zero.
LEMMA NoZeroDivisors ==
  ASSUME NEW a \in Field, NEW b \in Field, FrMul(a, b) = 0 PROVE a = 0 \/ b = 0
  <1> SUFFICES ASSUME a # 0 PROVE b = 0
    OBVIOUS
  <1> DEFINE n == P - 1
             f == [x \in 1..n |-> FrPow(x, P - 2)]
             c == FrInv(a)
  <1>1. n \in Nat /\ P - 2 \in Nat /\ a \in 1..n /\ 1..n \subseteq Field
    BY PrimeIs DEF Field
  <1>2. f \in [1..n -> Field]
    <2> SUFFICES ASSUME NEW x \in 1..n PROVE FrPow(x, P - 2) \in Field
      OBVIOUS
    <2>1. x \in Field
      BY <1>1
    <2> QED BY <1>1, <2>1, PowNext
  <1>3. Inverses = f
    <2>1. Inverses = <<>> \o f
      BY DEF Inverses
    <2> HIDE DEF f, n
    <2> QED BY <1>1, <1>2, <2>1, Tuple
  <1>4. c = f[a]
    BY <1>3 DEF FrInv
  <1>5. FrMul(a, c) = 1
    <2>1. \A x \in 1..(P - 1) : FrMul(x, FrInv(x)) = 1
      BY DomainAssumption
    <2> HIDE DEF c
    <2> QED BY <1>1, <2>1 DEF c
  <1> HIDE DEF f, n, c
  <1>6. c \in Field
    BY <1>1, <1>2, <1>4
  <1>7. FrMul(FrMul(a, c), b) = FrMul(FrMul(a, b), c)
    <2>1. FrMul(FrMul(a, c), b) = FrMul(a, FrMul(c, b)) /\ FrMul(FrMul(a, b), c) = FrMul(a, FrMul(b, c))
      BY <1>6, MulAssociates
    <2>2. FrMul(c, b) = FrMul(b, c)
      BY <1>6, Commutes
    <2> QED BY <2>1, <2>2
  <1>8. FrMul(1, b) = b /\ FrMul(0, c) = 0
    BY <1>6, Neutral
  <1> QED BY <1>5, <1>7, <1>8

-----------------------------------------------------------------------------
(* The roots of unity *)

\* The sizes of the domain.
LEMMA Sizes ==
  /\ LogCells \in Nat \ {0} /\ LogCellSize \in Nat /\ LogDomain \in Nat
  /\ Cells \in Nat \ {0} /\ CellSize \in Nat \ {0}
  /\ DomainSize \in Nat \ {0} /\ DomainSize = Cells * CellSize
  <1>1. LogCells \in Nat \ {0} /\ LogCellSize \in Nat
    BY DomainAssumption
  <1>2. Cells \in Nat \ {0} /\ CellSize \in Nat \ {0}
    BY <1>1, PowersOfTwo DEF Cells, CellSize
  <1>3. Cells * CellSize \in Nat \ {0}
    BY <1>2
  <1> QED BY <1>1, <1>2, <1>3 DEF DomainSize, LogDomain

\* The k-th power of the root.
Pw(k) == FrPow(Root, k)

\* Powers of Root, which is one again at DomainSize.
LEMMA PwAdds ==
  /\ \A k \in Nat : Pw(k) \in Field
  /\ \A m, n \in Nat : Pw(m + n) = FrMul(Pw(m), Pw(n))
  /\ Pw(0) = 1 /\ Pw(DomainSize) = 1
  <1>1. Root \in Field
    BY DomainAssumption
  <1>2. FrPow(Root, DomainSize) = 1
    <2>1. DomainSize \in 1..DomainSize
      BY Sizes
    <2> QED BY <2>1, DomainAssumption
  <1> QED BY <1>1, <1>2, PowNext, PowAdds DEF Pw

\* They come round.
LEMMA PwPeriod ==
  ASSUME NEW k \in Nat, NEW j \in Nat PROVE Pw(k + DomainSize * j) = Pw(k)
  <1> DEFINE T == {i \in Nat : Pw(k + DomainSize * i) = Pw(k)}
  <1>1. 0 \in T
    <2>1. k + DomainSize * 0 = k
      BY Sizes
    <2> QED BY <2>1
  <1>2. ASSUME NEW i \in Nat, i \in T PROVE i + 1 \in T
    <2>1. /\ k + DomainSize * (i + 1) = (k + DomainSize * i) + DomainSize
          /\ k + DomainSize * i \in Nat
      BY Sizes
    <2>2. Pw((k + DomainSize * i) + DomainSize) = FrMul(Pw(k + DomainSize * i), Pw(DomainSize))
      BY <2>1, PwAdds, Sizes
    <2>3. Pw(k + DomainSize * i) = Pw(k) /\ Pw(k) \in Field
      BY <1>2, PwAdds
    <2> QED BY <2>1, <2>2, <2>3, PwAdds, Neutral
  <1>3. Nat \subseteq T
    <2> HIDE DEF T
    <2> QED BY <1>1, <1>2, Induction
  <1> QED BY <1>3

\* An exponent counts modulo DomainSize.
LEMMA PwReduced == ASSUME NEW k \in Nat PROVE k % DomainSize \in Exponents /\ Pw(k % DomainSize) = Pw(k)
  <1> DEFINE r == k % DomainSize
             j == k \div DomainSize
  <1>1. r \in 0..(DomainSize - 1) /\ j \in Nat /\ k = r + DomainSize * j
    BY Sizes, Division
  <1> HIDE DEF r, j
  <1>2. Pw(r + DomainSize * j) = Pw(r)
    BY <1>1, PwPeriod
  <1> QED BY <1>1, <1>2 DEF r, Exponents

\* And not before.
LEMMA PwDistinct ==
  ASSUME NEW i \in Exponents, NEW j \in Exponents, Pw(i) = Pw(j) PROVE i = j
  <1>1. ASSUME NEW m \in Exponents, NEW n \in Exponents, m < n, Pw(m) = Pw(n) PROVE FALSE
    <2> DEFINE d == n - m
               e == DomainSize - m
    <2>1. /\ d \in 1..DomainSize /\ d # DomainSize /\ d \in Nat /\ e \in Nat /\ m \in Nat /\ n \in Nat
          /\ e + m = DomainSize /\ e + n = DomainSize + d
      BY <1>1, Sizes DEF Exponents
    <2> HIDE DEF d, e
    <2>2. Pw(e + m) = FrMul(Pw(e), Pw(m)) /\ Pw(e + n) = FrMul(Pw(e), Pw(n))
      BY <2>1, PwAdds
    <2>3. Pw(DomainSize + d) = 1
      BY <1>1, <2>1, <2>2, PwAdds
    <2>4. Pw(DomainSize + d) = FrMul(1, Pw(d)) /\ Pw(d) \in Field
      <3>1. DomainSize \in Nat
        BY Sizes
      <3>2. Pw(DomainSize + d) = FrMul(Pw(DomainSize), Pw(d)) /\ Pw(d) \in Field
        BY <2>1, <3>1, PwAdds, Zenon
      <3> QED BY <3>2, PwAdds, Zenon
    <2>5. Pw(d) = 1
      BY <2>3, <2>4, Neutral
    <2>6. FrPow(Root, d) = 1
      BY <2>5 DEF Pw
    <2> QED BY <2>1, <2>6, DomainAssumption
  <1>2. i < j \/ j < i \/ i = j
    BY Sizes DEF Exponents
  <1> QED BY <1>1, <1>2

\* The tables have them.
LEMMA RootEntries ==
  \A e \in Exponents : RootPowers[e + 1] = Pw(e) /\ RootsFwd[e] = Pw(e) /\ Pw(e) \in Field
  <1> DEFINE n == DomainSize
             f == [x \in 1..n |-> FrPow(Root, x - 1)]
  <1>1. n \in Nat
    BY Sizes
  <1>2. f \in [1..n -> Field]
    <2> SUFFICES ASSUME NEW x \in 1..n PROVE FrPow(Root, x - 1) \in Field
      OBVIOUS
    <2>1. x - 1 \in Nat
      BY <1>1
    <2> QED BY <2>1, PwAdds DEF Pw
  <1>3. RootPowers = f
    <2>1. RootPowers = <<>> \o f
      BY DEF RootPowers
    <2> HIDE DEF f, n
    <2> QED BY <1>1, <1>2, <2>1, Tuple
  <1>4. ASSUME NEW e \in Exponents PROVE RootPowers[e + 1] = Pw(e) /\ RootsFwd[e] = Pw(e) /\ Pw(e) \in Field
    <2>1. e \in Nat /\ e + 1 \in 1..n /\ (e + 1) - 1 = e
      BY <1>1 DEF Exponents
    <2>2. f[e + 1] = FrPow(Root, e)
      BY <2>1
    <2> HIDE DEF f
    <2> QED BY <1>3, <2>1, <2>2, PwAdds DEF Pw, RootsFwd
  <1> QED BY <1>4

\* Powers of a power.
LEMMA PowPow ==
  ASSUME NEW m \in Nat, NEW n \in Nat PROVE FrPow(Pw(m), n) = Pw(m * n)
  <1> DEFINE T == {k \in Nat : FrPow(Pw(m), k) = Pw(m * k)}
  <1>1. 0 \in T
    <2>1. m * 0 = 0 /\ Pw(m) \in Field
      BY PwAdds
    <2> QED BY <2>1, PwAdds, PowNext
  <1>2. ASSUME NEW k \in Nat, k \in T PROVE k + 1 \in T
    <2>1. m * (k + 1) = m * k + m /\ m * k \in Nat /\ Pw(m) \in Field
      BY PwAdds
    <2>2. FrPow(Pw(m), k + 1) = FrMul(FrPow(Pw(m), k), Pw(m))
      BY <2>1, PowNext
    <2>3. Pw(m * k + m) = FrMul(Pw(m * k), Pw(m))
      BY <2>1, PwAdds
    <2> QED BY <1>2, <2>1, <2>2, <2>3
  <1>3. Nat \subseteq T
    <2> HIDE DEF T
    <2> QED BY <1>1, <1>2, Induction
  <1> QED BY <1>3

-----------------------------------------------------------------------------
(* Sums over the field *)

\* f has elements of the field below n, and g adds them up.
Terms(f, n) == \A i \in 0..(n - 1) : f[i] \in Field
Accumulates(g, f, n) ==
  /\ g \in [0..n -> Field]
  /\ g[0] = 0
  /\ \A i \in 1..n : g[i] = FrAdd(g[i - 1], f[i - 1])

\* There are such partial sums.
LEMMA TotalExists ==
  ASSUME NEW n \in Nat, NEW f, Terms(f, n) PROVE \E g : Accumulates(g, f, n)
  <1> DEFINE zero == 0
             G == [x \in (1..n) \X Field |-> FrAdd(x[2], f[x[1] - 1])]
  <1>1. zero \in Field /\ G \in [(1..n) \X Field -> Field]
    <2>1. \A i \in 1..n : f[i - 1] \in Field
      BY DEF Terms
    <2> QED BY <2>1, Closed
  <1>2. PICK g \in [0..n -> Field] : Follows(g, n, zero, G)
    <2> HIDE DEF zero, G
    <2> QED BY <1>1, Recursion, Zenon
  <1>3. \A i \in 1..n : g[i] = FrAdd(g[i - 1], f[i - 1])
    <2> SUFFICES ASSUME NEW i \in 1..n PROVE g[i] = FrAdd(g[i - 1], f[i - 1])
      OBVIOUS
    <2>1. g[i - 1] \in Field /\ <<i, g[i - 1]>> \in (1..n) \X Field
      OBVIOUS
    <2>2. G[<<i, g[i - 1]>>] = FrAdd(g[i - 1], f[i - 1])
      BY <2>1
    <2> QED BY <1>2, <2>2 DEF Follows
  <1>4. g[0] = 0
    BY <1>2 DEF Follows
  <1> HIDE DEF G, zero
  <1>5. Accumulates(g, f, n)
    BY <1>3, <1>4 DEF Accumulates
  <1> QED BY <1>5

\* They end at FrSum.
LEMMA TotalIs ==
  ASSUME NEW n \in Nat, NEW f, NEW g, Accumulates(g, f, n) PROVE FrSum(f, n) = g[n]
  <1> DEFINE Step(h) == [i \in 0..n |-> IF i = 0 THEN 0 ELSE FrAdd(h[i - 1], f[i - 1])]
             r == CHOOSE h : h = Step(h)
  <1>1. g = Step(g)
    <2>1. ASSUME NEW i \in 0..n PROVE g[i] = IF i = 0 THEN 0 ELSE FrAdd(g[i - 1], f[i - 1])
      <3>1. i # 0 => i \in 1..n
        OBVIOUS
      <3> QED BY <3>1 DEF Accumulates
    <2> QED BY <2>1 DEF Accumulates
  <1>2. r = Step(r)
    <2> HIDE DEF Step
    <2> QED BY <1>1
  <1>3. FrSum(f, n) = r[n]
    BY DEF FrSum
  <1> HIDE DEF r
  <1>4. \A i \in 0..n : r[i] = IF i = 0 THEN 0 ELSE FrAdd(r[i - 1], f[i - 1])
    BY <1>2
  <1> HIDE DEF Step
  <1>5. r[0] = g[0]
    BY <1>4 DEF Accumulates
  <1>6. \A i \in 1..n : r[i - 1] = g[i - 1] => r[i] = g[i]
    <2> SUFFICES ASSUME NEW i \in 1..n, r[i - 1] = g[i - 1] PROVE r[i] = g[i]
      OBVIOUS
    <2>1. r[i] = FrAdd(r[i - 1], f[i - 1])
      BY <1>4
    <2> QED BY <2>1 DEF Accumulates
  <1>7. GoesOnAs(r, g, n)
    BY <1>5, <1>6 DEF GoesOnAs
  <1>8. \A i \in 0..n : r[i] = g[i]
    BY <1>7, Agree, Zenon
  <1> QED BY <1>3, <1>8

\* The sum of no terms.
LEMMA TotalNone == ASSUME NEW f PROVE FrSum(f, 0) = 0
  <1> DEFINE none == 0
             g == [i \in 0..0 |-> 0]
  <1>1. g \in [0..0 -> Field] /\ g[0] = 0 /\ 1..0 = {} /\ none \in Nat
    BY Closed
  <1>2. Accumulates(g, f, none) /\ g[none] = 0
    BY <1>1 DEF Accumulates
  <1>3. FrSum(f, none) = g[none]
    <2> HIDE DEF none, g
    <2> QED BY <1>1, <1>2, TotalIs, Zenon
  <1> HIDE DEF g
  <1>4. FrSum(f, none) = 0
    BY <1>2, <1>3, Zenon
  <1> QED BY <1>4 DEF none

\* A sum with a term more.
LEMMA TotalNext ==
  ASSUME NEW n \in Nat, NEW f, Terms(f, n + 1)
  PROVE  /\ FrSum(f, n) \in Field /\ f[n] \in Field /\ FrSum(f, n + 1) \in Field
         /\ FrSum(f, n + 1) = FrAdd(FrSum(f, n), f[n])
  <1> DEFINE m == n + 1
  <1>1. m \in Nat /\ m \in 1..m /\ m - 1 = n /\ n \in 0..m /\ n \in 0..(m - 1) /\ Terms(f, m)
    OBVIOUS
  <1>2. PICK g : Accumulates(g, f, m)
    <2> HIDE DEF m
    <2> QED BY <1>1, TotalExists, Zenon
  <1> DEFINE h == [i \in 0..n |-> g[i]]
  <1>3. Accumulates(h, f, n) /\ h[n] = g[n]
    BY <1>2 DEF Accumulates
  <1>4. FrSum(f, n) = h[n]
    <2> HIDE DEF h
    <2> QED BY <1>3, TotalIs, Zenon
  <1>5. FrSum(f, m) = g[m]
    <2> HIDE DEF m
    <2> QED BY <1>1, <1>2, TotalIs, Zenon
  <1> HIDE DEF h, m
  <1>6. g[m] = FrAdd(g[n], f[n]) /\ g[m] \in Field /\ g[n] \in Field /\ f[n] \in Field
    BY <1>1, <1>2 DEF Accumulates, Terms
  <1>7. FrSum(f, n) = g[n]
    BY <1>3, <1>4
  <1> QED BY <1>5, <1>6, <1>7 DEF m

\* Terms that are zero do not count.
LEMMA TotalGap ==
  ASSUME NEW m \in Nat, NEW n \in Nat, m <= n, NEW f, Terms(f, n),
         \A i \in m..(n - 1) : f[i] = 0
  PROVE  FrSum(f, n) = FrSum(f, m)
  <1> DEFINE T == {k \in Nat : m + k <= n => FrSum(f, m + k) = FrSum(f, m)}
  <1>1. 0 \in T
    <2>1. m + 0 = m
      OBVIOUS
    <2> QED BY <2>1
  <1>2. ASSUME NEW k \in Nat, k \in T PROVE k + 1 \in T
    <2> SUFFICES ASSUME m + (k + 1) <= n PROVE FrSum(f, m + (k + 1)) = FrSum(f, m)
      OBVIOUS
    <2> DEFINE j == m + k
    <2>1. /\ j \in Nat /\ m + (k + 1) = j + 1 /\ j \in m..(n - 1) /\ m + k <= n
          /\ 0..((j + 1) - 1) \subseteq 0..(n - 1)
      OBVIOUS
    <2>2. f[j] = 0 /\ FrSum(f, j) = FrSum(f, m)
      BY <1>2, <2>1
    <2> HIDE DEF j
    <2>3. Terms(f, j + 1)
      BY <2>1 DEF Terms
    <2>4. FrSum(f, j) \in Field /\ FrSum(f, j + 1) = FrAdd(FrSum(f, j), f[j])
      BY <2>1, <2>3, TotalNext, Zenon
    <2> QED BY <2>1, <2>2, <2>4, Neutral
  <1>3. Nat \subseteq T
    <2> HIDE DEF T
    <2> QED BY <1>1, <1>2, Induction
  <1>4. n - m \in Nat /\ m + (n - m) = n /\ n <= n
    OBVIOUS
  <1>5. n - m \in T
    <2> HIDE DEF T
    <2> QED BY <1>3, <1>4
  <1> QED BY <1>4, <1>5

-----------------------------------------------------------------------------
(* Bit reversal *)

\* Bit k of i, and what reversing its low bits one by one makes.
Bit(i, k) == (i \div 2 ^ k) % 2
Reverses(g, i, n) ==
  /\ g \in [0..n -> Nat]
  /\ g[0] = 0
  /\ \A k \in 1..n : g[k] = 2 * g[k - 1] + Bit(i, k - 1)

\* A bit is 0 or 1.
LEMMA BitIs == ASSUME NEW i \in Nat, NEW k \in Nat PROVE Bit(i, k) \in {0, 1}
  <1> DEFINE p == 2 ^ k
             q == i \div p
  <1>1. p \in Nat \ {0}
    BY PowersOfTwo
  <1> HIDE DEF p
  <1>2. q \in Nat
    BY <1>1, Division
  <1> HIDE DEF q
  <1>3. q % 2 \in {0, 1}
    BY <1>2
  <1> QED BY <1>3 DEF Bit, p, q

\* What the reversal of bit after bit computes.
LEMMA BrevIs ==
  ASSUME NEW i \in Nat, NEW n \in Nat, NEW g, Reverses(g, i, n) PROVE Brev(i, n) = g[n]
  <1> DEFINE Step(h) == [b \in 0..n |->
               IF b = 0 THEN 0 ELSE 2 * h[b - 1] + ((i \div 2 ^ (b - 1)) % 2)]
             r == CHOOSE h : h = Step(h)
  <1>1. g = Step(g)
    <2>1. ASSUME NEW b \in 0..n
          PROVE  g[b] = IF b = 0 THEN 0 ELSE 2 * g[b - 1] + ((i \div 2 ^ (b - 1)) % 2)
      <3>1. b # 0 => b \in 1..n
        OBVIOUS
      <3> QED BY <3>1 DEF Reverses, Bit
    <2>2. g = [b \in 0..n |-> g[b]]
      BY DEF Reverses
    <2> QED BY <2>1, <2>2
  <1>2. r = Step(r)
    <2> HIDE DEF Step
    <2> QED BY <1>1
  <1>3. Brev(i, n) = r[n]
    BY DEF Brev
  <1> HIDE DEF r
  <1>4. GoesOnAs(r, g, n)
    <2>1. r[0] = 0 /\ g[0] = 0
      BY <1>2 DEF Reverses
    <2>2. ASSUME NEW k \in 1..n, r[k - 1] = g[k - 1] PROVE r[k] = g[k]
      <3>1. k # 0 /\ k \in 0..n
        OBVIOUS
      <3>2. r[k] = 2 * r[k - 1] + ((i \div 2 ^ (k - 1)) % 2)
        BY <1>2, <3>1
      <3>3. g[k] = 2 * g[k - 1] + ((i \div 2 ^ (k - 1)) % 2)
        BY DEF Reverses, Bit
      <3> QED BY <2>2, <3>2, <3>3
    <2> QED BY <2>1, <2>2 DEF GoesOnAs
  <1> HIDE DEF Step
  <1>5. n \in 0..n /\ \A k \in 0..n : r[k] = g[k]
    BY <1>4, Agree
  <1> QED BY <1>3, <1>5

\* One bit more.
LEMMA BrevNext ==
  ASSUME NEW i \in Nat, NEW n \in Nat
  PROVE  /\ Brev(i, 0) = 0 /\ Brev(i, n) \in Nat /\ Brev(i, n + 1) \in Nat
         /\ Brev(i, n + 1) = 2 * Brev(i, n) + Bit(i, n)
  <1> DEFINE m == n + 1
             zero == 0
             G == [x \in (1..m) \X Nat |-> 2 * x[2] + Bit(i, x[1] - 1)]
  <1>1. m \in Nat /\ m \in 1..m /\ m - 1 = n /\ n \in 0..m /\ 0..n \subseteq 0..m /\ zero \in Nat
    OBVIOUS
  <1>2. G \in [(1..m) \X Nat -> Nat]
    <2> SUFFICES ASSUME NEW k \in 1..m, NEW y \in Nat PROVE 2 * y + Bit(i, k - 1) \in Nat
      OBVIOUS
    <2>1. k - 1 \in Nat
      OBVIOUS
    <2>2. Bit(i, k - 1) \in {0, 1}
      BY <2>1, BitIs, Zenon
    <2> QED BY <2>2
  <1>3. PICK g \in [0..m -> Nat] : Follows(g, m, zero, G)
    <2> HIDE DEF m, zero, G
    <2> QED BY <1>1, <1>2, Recursion, Zenon
  <1>4. Reverses(g, i, m)
    <2>1. ASSUME NEW k \in 1..m PROVE g[k] = 2 * g[k - 1] + Bit(i, k - 1)
      <3>1. g[k - 1] \in Nat /\ <<k, g[k - 1]>> \in (1..m) \X Nat
        OBVIOUS
      <3>2. G[<<k, g[k - 1]>>] = 2 * g[k - 1] + Bit(i, k - 1)
        BY <3>1
      <3> QED BY <1>3, <3>2 DEF Follows
    <2>2. g[0] = 0
      BY <1>3 DEF Follows
    <2> HIDE DEF m, G
    <2> QED BY <2>1, <2>2 DEF Reverses
  <1> HIDE DEF G
  <1> DEFINE h == [k \in 0..n |-> g[k]]
             none == [k \in 0..zero |-> 0]
  <1>5. Reverses(h, i, n) /\ h[n] = g[n]
    BY <1>4 DEF Reverses
  <1>6. Reverses(none, i, zero) /\ none[zero] = 0
    BY DEF Reverses
  <1>7. Brev(i, n) = h[n]
    <2> HIDE DEF h
    <2> QED BY <1>5, BrevIs, Zenon
  <1>8. Brev(i, m) = g[m]
    <2> HIDE DEF m
    <2> QED BY <1>1, <1>4, BrevIs, Zenon
  <1>9. Brev(i, zero) = none[zero]
    <2> HIDE DEF none, zero
    <2> QED BY <1>1, <1>6, BrevIs, Zenon
  <1>10. Brev(i, zero) = 0
    <2> HIDE DEF none, zero
    <2> QED BY <1>6, <1>9
  <1> HIDE DEF h, m, none
  <1>11. g[m] = 2 * g[n] + Bit(i, n) /\ g[m] \in Nat /\ g[n] \in Nat
    BY <1>1, <1>4 DEF Reverses
  <1>12. Brev(i, n) = g[n]
    BY <1>5, <1>7
  <1> QED BY <1>8, <1>10, <1>11, <1>12 DEF m, zero

\* The first bits reversed are the high ones.
LEMMA BrevHigh ==
  ASSUME NEW i \in Nat, NEW m \in Nat, NEW k \in Nat
  PROVE  Brev(i, m + k) \div 2 ^ k = Brev(i, m)
  <1> DEFINE b == Brev(i, m)
             T == {j \in Nat : \E x \in 0..(2 ^ j - 1) : Brev(i, m + j) = x + 2 ^ j * b}
  <1>1. b \in Nat
    BY BrevNext
  <1>2. 0 \in T
    <2>1. 2 ^ 0 = 1 /\ m + 0 = m
      BY PowersOfTwo
    <2> HIDE DEF b
    <2>2. 0 \in 0..(1 - 1) /\ 0 + 1 * b = b
      BY <1>1
    <2>3. \E x \in 0..(2 ^ 0 - 1) : Brev(i, m + 0) = x + 2 ^ 0 * b
      BY <2>1, <2>2 DEF b
    <2> QED BY <2>3
  <1>3. ASSUME NEW j \in Nat, j \in T PROVE j + 1 \in T
    <2> DEFINE p == 2 ^ j
               q == 2 ^ (j + 1)
    <2>1. p \in Nat \ {0} /\ q = 2 * p
      BY PowersOfTwo
    <2>2. PICK x \in 0..(p - 1) : Brev(i, m + j) = x + p * b
      BY <1>3
    <2>3. m + (j + 1) = (m + j) + 1 /\ m + j \in Nat
      OBVIOUS
    <2>4. Brev(i, m + (j + 1)) = 2 * Brev(i, m + j) + Bit(i, m + j) /\ Bit(i, m + j) \in {0, 1}
      BY <2>3, BrevNext, BitIs
    <2> HIDE DEF b, p, q
    <2> DEFINE pb == p * b
               y == 2 * x + Bit(i, m + j)
    <2>5. q * b = 2 * pb /\ pb \in Nat
      BY <1>1, <2>1
    <2>6. y \in 0..(q - 1) /\ Brev(i, m + (j + 1)) = y + q * b
      <3>1. Brev(i, m + j) = x + pb
        BY <2>2
      <3> HIDE DEF pb
      <3> QED BY <2>1, <2>2, <2>4, <2>5, <3>1
    <2> HIDE DEF y
    <2>7. \E z \in 0..(2 ^ (j + 1) - 1) : Brev(i, m + (j + 1)) = z + 2 ^ (j + 1) * b
      BY <2>6 DEF q
    <2> QED BY <2>7
  <1>4. k \in T
    <2> HIDE DEF T
    <2> QED BY <1>2, <1>3, Induction
  <1> DEFINE p == 2 ^ k
  <1>5. PICK x \in 0..(p - 1) : Brev(i, m + k) = x + p * b
    BY <1>4
  <1>6. p \in Nat \ {0}
    BY PowersOfTwo
  <1> HIDE DEF p, T
  <1>7. (x + p * b) \div p = b
    <2> HIDE DEF b
    <2>1. b \in Int
      BY <1>1
    <2> QED BY <1>6, <2>1, DivisionIs
  <1> QED BY <1>5, <1>7 DEF p

\* The high bits of a half.
LEMMA HalfDivided ==
  ASSUME NEW i \in Nat, NEW k \in Nat
  PROVE  i \div 2 \in Nat /\ (i \div 2) \div 2 ^ k = i \div 2 ^ (k + 1)
  <1> DEFINE p == 2 ^ k
             q == 2 ^ (k + 1)
             h == i \div 2
             b == i % 2
             t == h \div p
             r == h % p
  <1>1. p \in Nat \ {0} /\ q = 2 * p /\ q \in Nat \ {0}
    BY PowersOfTwo
  <1>2. h \in Nat /\ b \in 0..1 /\ i = b + 2 * h
    OBVIOUS
  <1> HIDE DEF h, b, p, q
  <1>3. t \in Nat /\ r \in 0..(p - 1) /\ h = r + p * t
    BY <1>1, <1>2, Division
  <1> HIDE DEF t, r
  <1> DEFINE x == b + 2 * r
             pt == p * t
  <1>4. q * t = 2 * pt /\ pt \in Nat /\ h = r + pt
    BY <1>1, <1>3
  <1> HIDE DEF pt
  <1>5. x \in 0..(q - 1) /\ i = x + q * t
    BY <1>1, <1>2, <1>3, <1>4
  <1> HIDE DEF x
  <1>6. t \in Int /\ (x + q * t) \div q = t
    BY <1>1, <1>3, <1>5, DivisionIs
  <1> QED BY <1>2, <1>5, <1>6 DEF t, h, p, q

\* The lowest bit becomes the highest.
LEMMA BrevLow ==
  ASSUME NEW i \in Nat, NEW n \in Nat
  PROVE  Brev(i, n + 1) = (i % 2) * 2 ^ n + Brev(i \div 2, n)
  <1> DEFINE h == i \div 2
             b == i % 2
             T == {m \in Nat : Brev(i, m + 1) = b * 2 ^ m + Brev(h, m)}
  <1>1. h \in Nat /\ b \in 0..1
    OBVIOUS
  <1>2. 0 \in T
    <2>1. 2 ^ 0 = 1 /\ i \div 1 = i
      BY PowersOfTwo
    <2>2. Bit(i, 0) = b
      BY <2>1 DEF Bit
    <2> HIDE DEF h, b
    <2>3. Brev(i, 0 + 1) = 2 * 0 + b /\ Brev(h, 0) = 0
      BY <1>1, <2>2, BrevNext
    <2>4. Brev(i, 0 + 1) = b * 2 ^ 0 + Brev(h, 0)
      BY <1>1, <2>1, <2>3
    <2> QED BY <2>4
  <1>3. ASSUME NEW m \in Nat, m \in T PROVE m + 1 \in T
    <2> DEFINE k == m + 1
               p == 2 ^ m
               q == 2 ^ k
    <2>1. p \in Nat \ {0} /\ q = 2 * p
      BY PowersOfTwo
    <2>2. Bit(i, k) = Bit(h, m)
      BY HalfDivided DEF Bit
    <2>3. Brev(i, k) = b * p + Brev(h, m)
      BY <1>3
    <2> HIDE DEF h, b, p
    <2>4. Brev(i, k + 1) = 2 * Brev(i, k) + Bit(i, k) /\ Bit(i, k) \in {0, 1}
      <3>1. k \in Nat
        OBVIOUS
      <3> HIDE DEF k
      <3> QED BY <3>1, BrevNext, BitIs
    <2>5. Brev(h, k) = 2 * Brev(h, m) + Bit(h, m) /\ Brev(h, m) \in Nat
      BY <1>1, BrevNext
    <2> HIDE DEF k, q
    <2> DEFINE x == b * p
    <2>6. b * q = 2 * x /\ x \in Nat /\ Brev(i, k) = x + Brev(h, m)
      BY <1>1, <2>1, <2>3
    <2> HIDE DEF x
    <2>7. Brev(i, k + 1) = b * q + Brev(h, k)
      BY <2>2, <2>4, <2>5, <2>6
    <2> QED BY <2>7 DEF k, q
  <1>4. n \in T
    <2> HIDE DEF T
    <2> QED BY <1>2, <1>3, Induction
  <1> QED BY <1>4

\* What is left below a power of two is what is left below the one before, and a bit.
LEMMA LeftBelow ==
  ASSUME NEW i \in Nat, NEW n \in Nat
  PROVE  i % 2 ^ (n + 1) = Bit(i, n) * 2 ^ n + (i % 2 ^ n)
  <1> DEFINE p == 2 ^ n
             q == 2 ^ (n + 1)
             t == i \div p
             r == i % p
             b == t % 2
             s == t \div 2
  <1>1. p \in Nat \ {0} /\ q = 2 * p /\ q \in Nat \ {0}
    BY PowersOfTwo
  <1> HIDE DEF p, q
  <1>2. t \in Nat /\ r \in 0..(p - 1) /\ i = r + p * t
    BY <1>1, Division
  <1> HIDE DEF t, r
  <1>3. b \in 0..1 /\ s \in Nat /\ t = b + 2 * s
    BY <1>2
  <1> HIDE DEF b, s
  <1> DEFINE x == b * p + r
             ps == p * s
  <1>4. p * t = b * p + 2 * ps /\ q * s = 2 * ps /\ ps \in Nat
    <2>1. p * (b + 2 * s) = b * p + 2 * (p * s)
      BY <1>1, <1>3
    <2>2. (2 * p) * s = 2 * (p * s)
      BY <1>1, <1>3
    <2> QED BY <1>1, <1>3, <2>1, <2>2
  <1>5. x \in 0..(q - 1)
    <2>1. b = 0 \/ b = 1
      BY <1>3
    <2>2. b * p = 0 \/ b * p = p
      BY <1>1, <2>1
    <2> QED BY <1>1, <1>2, <2>2
  <1>6. i = x + q * s
    <2> DEFINE bp == b * p
    <2>1. bp \in Int /\ i = r + (bp + 2 * ps) /\ x = bp + r
      BY <1>1, <1>2, <1>3, <1>4
    <2> HIDE DEF bp, ps, x
    <2> QED BY <1>2, <1>4, <2>1
  <1> HIDE DEF x, ps
  <1>7. s \in Int /\ (x + q * s) % q = x
    BY <1>1, <1>3, <1>5, DivisionIs
  <1>8. Bit(i, n) = b
    BY DEF Bit, b, t, p
  <1> QED BY <1>6, <1>7, <1>8 DEF x, q, p, r

\* Reversed twice, the low bits are as they were.
LEMMA BrevTwice ==
  ASSUME NEW i \in Nat, NEW n \in Nat PROVE Brev(Brev(i, n), n) = i % 2 ^ n
  <1> DEFINE T == {m \in Nat : Brev(Brev(i, m), m) = i % 2 ^ m}
  <1>1. 0 \in T
    <2>1. 2 ^ 0 = 1 /\ i % 1 = 0
      BY PowersOfTwo
    <2>2. Brev(i, 0) = 0 /\ 0 \in Nat /\ Brev(0, 0) = 0
      BY BrevNext
    <2> QED BY <2>1, <2>2
  <1>2. ASSUME NEW m \in Nat, m \in T PROVE m + 1 \in T
    <2> DEFINE b == Bit(i, m)
               v == Brev(i, m)
               j == Brev(i, m + 1)
    <2>1. b \in {0, 1} /\ v \in Nat /\ j = 2 * v + b /\ j \in Nat
      BY BitIs, BrevNext
    <2>2. Brev(v, m) = i % 2 ^ m
      BY <1>2
    <2> HIDE DEF b, v, j
    <2>3. j % 2 = b /\ j \div 2 = v
      BY <2>1
    <2>4. Brev(j, m + 1) = (j % 2) * 2 ^ m + Brev(j \div 2, m)
      BY <2>1, BrevLow
    <2>5. i % 2 ^ (m + 1) = b * 2 ^ m + (i % 2 ^ m)
      BY LeftBelow DEF b
    <2>6. Brev(j, m + 1) = i % 2 ^ (m + 1)
      BY <2>2, <2>3, <2>4, <2>5
    <2> QED BY <2>6 DEF j
  <1>3. n \in T
    <2> HIDE DEF T
    <2> QED BY <1>1, <1>2, Induction
  <1> QED BY <1>3

\* A reversal of n bits has n bits.
LEMMA BrevBelow == ASSUME NEW i \in Nat, NEW n \in Nat PROVE Brev(i, n) \in 0..(2 ^ n - 1)
  <1> DEFINE T == {m \in Nat : Brev(i, m) \in 0..(2 ^ m - 1)}
  <1>1. 0 \in T
    <2>1. 2 ^ 0 = 1 /\ Brev(i, 0) = 0 /\ 0 \in 0..(1 - 1)
      BY PowersOfTwo, BrevNext
    <2> QED BY <2>1
  <1>2. ASSUME NEW m \in Nat, m \in T PROVE m + 1 \in T
    <2> DEFINE p == 2 ^ m
               q == 2 ^ (m + 1)
    <2>1. p \in Nat \ {0} /\ q = 2 * p /\ Brev(i, m) \in 0..(p - 1)
      BY <1>2, PowersOfTwo
    <2>2. Brev(i, m + 1) = 2 * Brev(i, m) + Bit(i, m) /\ Bit(i, m) \in {0, 1}
      BY BrevNext, BitIs
    <2> HIDE DEF p, q
    <2>3. Brev(i, m + 1) \in 0..(q - 1)
      BY <2>1, <2>2
    <2> QED BY <2>3 DEF q
  <1>3. n \in T
    <2> HIDE DEF T
    <2> QED BY <1>1, <1>2, Induction
  <1> QED BY <1>3

-----------------------------------------------------------------------------
(* More on sums *)

\* One term more of a sum of n.
LEMMA TotalStep ==
  ASSUME NEW n \in Nat, NEW f, Terms(f, n), NEW k \in Nat, k < n
  PROVE  /\ FrSum(f, k) \in Field /\ f[k] \in Field /\ FrSum(f, k + 1) \in Field
         /\ FrSum(f, k + 1) = FrAdd(FrSum(f, k), f[k])
  <1>1. Terms(f, k + 1)
    BY DEF Terms
  <1> QED BY <1>1, TotalNext

\* A sum of field elements is one.
LEMMA TotalIn ==
  ASSUME NEW n \in Nat, NEW f, Terms(f, n) PROVE FrSum(f, n) \in Field
  <1>1. CASE n = 0
    BY <1>1, TotalNone, Closed
  <1>2. CASE n # 0
    <2>1. n - 1 \in Nat /\ n - 1 < n /\ (n - 1) + 1 = n
      BY <1>2
    <2> DEFINE k == n - 1
    <2>2. FrSum(f, k + 1) \in Field
      <3> HIDE DEF k
      <3> QED BY <2>1, TotalStep DEF k
    <2> QED BY <2>1, <2>2
  <1> QED BY <1>1, <1>2

\* A sum depends on its terms alone.
LEMMA TotalSame ==
  ASSUME NEW n \in Nat, NEW f, NEW g, Terms(f, n), \A i \in 0..(n - 1) : g[i] = f[i]
  PROVE  Terms(g, n) /\ FrSum(g, n) = FrSum(f, n)
  <1> DEFINE T == {k \in Nat : k <= n => FrSum(g, k) = FrSum(f, k)}
  <1>1. Terms(g, n)
    BY DEF Terms
  <1>2. 0 \in T
    BY TotalNone
  <1>3. ASSUME NEW k \in Nat, k \in T PROVE k + 1 \in T
    <2> SUFFICES ASSUME k + 1 <= n PROVE FrSum(g, k + 1) = FrSum(f, k + 1)
      OBVIOUS
    <2>1. k < n /\ k \in 0..(n - 1) /\ FrSum(g, k) = FrSum(f, k)
      BY <1>3
    <2> HIDE DEF T
    <2>2. FrSum(f, k + 1) = FrAdd(FrSum(f, k), f[k])
      BY <2>1, TotalStep
    <2>3. FrSum(g, k + 1) = FrAdd(FrSum(g, k), g[k])
      BY <1>1, <2>1, TotalStep
    <2> QED BY <2>1, <2>2, <2>3
  <1>4. n \in T
    <2> HIDE DEF T
    <2> QED BY <1>2, <1>3, Induction
  <1> QED BY <1>1, <1>4

\* (a + b) + (c + d) = (a + c) + (b + d).
LEMMA AddPairs ==
  ASSUME NEW a \in Field, NEW b \in Field, NEW c \in Field, NEW d \in Field
  PROVE  FrAdd(FrAdd(a, b), FrAdd(c, d)) = FrAdd(FrAdd(a, c), FrAdd(b, d))
  <1>1. FrAdd(c, d) \in Field /\ FrAdd(b, d) \in Field /\ FrAdd(b, c) \in Field
    BY Closed
  <1>2. FrAdd(FrAdd(a, b), FrAdd(c, d)) = FrAdd(a, FrAdd(b, FrAdd(c, d)))
    BY <1>1, AddAssociates
  <1>3. FrAdd(b, FrAdd(c, d)) = FrAdd(FrAdd(b, c), d) /\ FrAdd(c, FrAdd(b, d)) = FrAdd(FrAdd(c, b), d)
    BY AddAssociates
  <1>4. FrAdd(b, c) = FrAdd(c, b)
    BY Commutes
  <1>5. FrAdd(FrAdd(a, c), FrAdd(b, d)) = FrAdd(a, FrAdd(c, FrAdd(b, d)))
    BY <1>1, AddAssociates
  <1> QED BY <1>2, <1>3, <1>4, <1>5

\* The sum of termwise sums.
LEMMA TotalAdds ==
  ASSUME NEW n \in Nat, NEW f, NEW g, NEW h, Terms(f, n), Terms(g, n),
         \A i \in 0..(n - 1) : h[i] = FrAdd(f[i], g[i])
  PROVE  Terms(h, n) /\ FrSum(h, n) = FrAdd(FrSum(f, n), FrSum(g, n))
  <1> DEFINE T == {k \in Nat : k <= n => FrSum(h, k) = FrAdd(FrSum(f, k), FrSum(g, k))}
  <1>1. Terms(h, n)
    BY Closed DEF Terms
  <1>2. 0 \in T
    BY TotalNone, Closed, Neutral
  <1>3. ASSUME NEW k \in Nat, k \in T PROVE k + 1 \in T
    <2> SUFFICES ASSUME k + 1 <= n PROVE FrSum(h, k + 1) = FrAdd(FrSum(f, k + 1), FrSum(g, k + 1))
      OBVIOUS
    <2>1. k < n /\ k \in 0..(n - 1) /\ FrSum(h, k) = FrAdd(FrSum(f, k), FrSum(g, k))
      BY <1>3
    <2> HIDE DEF T
    <2>2. FrSum(f, k + 1) = FrAdd(FrSum(f, k), f[k]) /\ FrSum(f, k) \in Field /\ f[k] \in Field
      BY <2>1, TotalStep
    <2>3. FrSum(g, k + 1) = FrAdd(FrSum(g, k), g[k]) /\ FrSum(g, k) \in Field /\ g[k] \in Field
      BY <2>1, TotalStep
    <2>4. FrSum(h, k + 1) = FrAdd(FrSum(h, k), h[k]) /\ h[k] = FrAdd(f[k], g[k])
      BY <1>1, <2>1, TotalStep
    <2> QED BY <2>1, <2>2, <2>3, <2>4, AddPairs
  <1>4. n \in T
    <2> HIDE DEF T
    <2> QED BY <1>2, <1>3, Induction
  <1> QED BY <1>1, <1>4

\* A factor of every term is one of the sum.
LEMMA TotalScales ==
  ASSUME NEW n \in Nat, NEW c \in Field, NEW f, NEW h, Terms(f, n),
         \A i \in 0..(n - 1) : h[i] = FrMul(c, f[i])
  PROVE  Terms(h, n) /\ FrSum(h, n) = FrMul(c, FrSum(f, n))
  <1> DEFINE T == {k \in Nat : k <= n => FrSum(h, k) = FrMul(c, FrSum(f, k))}
  <1>1. Terms(h, n)
    BY Closed DEF Terms
  <1>2. 0 \in T
    BY TotalNone, Neutral
  <1>3. ASSUME NEW k \in Nat, k \in T PROVE k + 1 \in T
    <2> SUFFICES ASSUME k + 1 <= n PROVE FrSum(h, k + 1) = FrMul(c, FrSum(f, k + 1))
      OBVIOUS
    <2>1. k < n /\ k \in 0..(n - 1) /\ FrSum(h, k) = FrMul(c, FrSum(f, k))
      BY <1>3
    <2> HIDE DEF T
    <2>2. FrSum(f, k + 1) = FrAdd(FrSum(f, k), f[k]) /\ FrSum(f, k) \in Field /\ f[k] \in Field
      BY <2>1, TotalStep
    <2>4. FrSum(h, k + 1) = FrAdd(FrSum(h, k), h[k]) /\ h[k] = FrMul(c, f[k])
      BY <1>1, <2>1, TotalStep
    <2>5. FrMul(c, FrAdd(FrSum(f, k), f[k])) = FrAdd(FrMul(c, FrSum(f, k)), FrMul(c, f[k]))
      BY <2>2, FieldDistributes
    <2> QED BY <2>1, <2>2, <2>4, <2>5
  <1>4. n \in T
    <2> HIDE DEF T
    <2> QED BY <1>2, <1>3, Induction
  <1> QED BY <1>1, <1>4

\* The first a terms and the b that follow.
LEMMA TotalSplit ==
  ASSUME NEW a \in Nat, NEW b \in Nat, NEW f, NEW h, Terms(f, a + b),
         \A i \in 0..(b - 1) : h[i] = f[a + i]
  PROVE  /\ Terms(f, a) /\ Terms(h, b)
         /\ FrSum(f, a + b) = FrAdd(FrSum(f, a), FrSum(h, b))
  <1> DEFINE T == {k \in Nat : k <= b => FrSum(f, a + k) = FrAdd(FrSum(f, a), FrSum(h, k))}
  <1>1. Terms(f, a) /\ Terms(h, b)
    <2>1. 0..(a - 1) \subseteq 0..((a + b) - 1) /\ \A i \in 0..(b - 1) : a + i \in 0..((a + b) - 1)
      OBVIOUS
    <2> QED BY <2>1 DEF Terms
  <1>2. 0 \in T
    <2>1. FrSum(f, a) \in Field /\ a + 0 = a
      BY <1>1, TotalIn
    <2> QED BY <2>1, TotalNone, Neutral
  <1>3. ASSUME NEW k \in Nat, k \in T PROVE k + 1 \in T
    <2> SUFFICES ASSUME k + 1 <= b PROVE FrSum(f, a + (k + 1)) = FrAdd(FrSum(f, a), FrSum(h, k + 1))
      OBVIOUS
    <2> DEFINE m == a + k
               n == a + b
    <2>1. k < b /\ k \in 0..(b - 1) /\ m \in Nat /\ n \in Nat /\ m < n /\ a + (k + 1) = m + 1
      OBVIOUS
    <2>2. FrSum(f, m) = FrAdd(FrSum(f, a), FrSum(h, k)) /\ Terms(f, n) /\ h[k] = f[m]
      BY <1>3, <2>1
    <2> HIDE DEF T, m, n
    <2>3. FrSum(f, m + 1) = FrAdd(FrSum(f, m), f[m]) /\ f[m] \in Field
      BY <2>1, <2>2, TotalStep
    <2>4. FrSum(h, k + 1) = FrAdd(FrSum(h, k), h[k]) /\ FrSum(h, k) \in Field
      BY <1>1, <2>1, TotalStep
    <2>5. FrSum(f, a) \in Field
      BY <1>1, TotalIn
    <2> QED BY <2>1, <2>2, <2>3, <2>4, <2>5, AddAssociates
  <1>4. b \in T
    <2> HIDE DEF T
    <2> QED BY <1>2, <1>3, Induction
  <1> QED BY <1>1, <1>4

\* In the other order.
LEMMA TotalReversed ==
  ASSUME NEW n \in Nat, NEW f, NEW h, Terms(f, n), \A i \in 0..(n - 1) : h[i] = f[(n - 1) - i]
  PROVE  Terms(h, n) /\ FrSum(h, n) = FrSum(f, n)
  <1> DEFINE T == {k \in Nat : k <= n => FrAdd(FrSum(h, k), FrSum(f, n - k)) = FrSum(f, n)}
  <1>1. Terms(h, n)
    <2>1. \A i \in 0..(n - 1) : (n - 1) - i \in 0..(n - 1)
      OBVIOUS
    <2> QED BY <2>1 DEF Terms
  <1>2. 0 \in T
    <2>1. FrSum(f, n) \in Field /\ n - 0 = n
      BY TotalIn
    <2> QED BY <2>1, TotalNone, Neutral
  <1>3. ASSUME NEW k \in Nat, k \in T PROVE k + 1 \in T
    <2> SUFFICES ASSUME k + 1 <= n
                 PROVE  FrAdd(FrSum(h, k + 1), FrSum(f, n - (k + 1))) = FrSum(f, n)
      OBVIOUS
    <2> DEFINE m == n - (k + 1)
    <2>1. k < n /\ k \in 0..(n - 1) /\ m \in Nat /\ m < n /\ n - k = m + 1 /\ (n - 1) - k = m
      OBVIOUS
    <2>2. FrAdd(FrSum(h, k), FrSum(f, m + 1)) = FrSum(f, n) /\ h[k] = f[m]
      BY <1>3, <2>1
    <2> HIDE DEF T, m
    <2>3. FrSum(f, m + 1) = FrAdd(FrSum(f, m), f[m]) /\ f[m] \in Field /\ FrSum(f, m) \in Field
      BY <2>1, TotalStep
    <2>4. FrSum(h, k + 1) = FrAdd(FrSum(h, k), h[k]) /\ FrSum(h, k) \in Field
      BY <1>1, <2>1, TotalStep
    <2>5. FrAdd(FrAdd(FrSum(h, k), f[m]), FrSum(f, m)) = FrAdd(FrSum(h, k), FrAdd(f[m], FrSum(f, m)))
      BY <2>3, <2>4, AddAssociates
    <2>6. FrAdd(f[m], FrSum(f, m)) = FrAdd(FrSum(f, m), f[m])
      BY <2>3, Commutes
    <2>7. FrAdd(FrSum(h, k + 1), FrSum(f, m)) = FrSum(f, n)
      BY <2>2, <2>3, <2>4, <2>5, <2>6
    <2> QED BY <2>7 DEF m
  <1>4. n \in T
    <2> HIDE DEF T
    <2> QED BY <1>2, <1>3, Induction
  <1>5. FrAdd(FrSum(h, n), FrSum(f, 0)) = FrSum(f, n) /\ FrSum(h, n) \in Field
    <2>1. n - n = 0 /\ n <= n
      OBVIOUS
    <2> QED BY <1>1, <1>4, <2>1, TotalIn
  <1> QED BY <1>1, <1>5, TotalNone, Neutral

\* The sum over the columns of an array of rows of a, each column added up first.
Column(f, a, b, t) == [j \in 0..(b - 1) |-> f[t + a * j]]

\* A sum of a times b terms, by columns.
LEMMA TotalColumns ==
  ASSUME NEW a \in Nat, NEW b \in Nat, NEW f, Terms(f, a * b), NEW g,
         \A t \in 0..(a - 1) : g[t] = FrSum(Column(f, a, b, t), b)
  PROVE  /\ \A t \in 0..(a - 1) : Terms(Column(f, a, b, t), b)
         /\ Terms(g, a)
         /\ FrSum(f, a * b) = FrSum(g, a)
  <1> DEFINE Col(t) == Column(f, a, b, t)
             Part(k) == [t \in 0..(a - 1) |-> FrSum(Col(t), k)]
             T == {k \in Nat : k <= b => FrSum(f, a * k) = FrSum(Part(k), a)}
  <1>1. ASSUME NEW t \in 0..(a - 1), NEW j \in 0..(b - 1)
        PROVE  t + a * j \in 0..(a * b - 1) /\ Col(t)[j] = f[t + a * j] /\ f[t + a * j] \in Field
    <2>1. t + a * j \in 0..(a * b - 1)
      <3> DEFINE d == b - (j + 1)
      <3>1. d \in Nat /\ b = (j + 1) + d /\ j \in Nat /\ t \in Nat /\ t < a
        OBVIOUS
      <3> HIDE DEF d
      <3>2. a * ((j + 1) + d) = (a * j + a) + a * d /\ a * d \in Nat /\ a * j \in Nat
        BY <3>1
      <3> DEFINE x == a * j
                 y == a * d
                 z == a * b
      <3>3. z = (x + a) + y /\ x \in Nat /\ y \in Nat
        BY <3>1, <3>2
      <3> HIDE DEF x, y, z
      <3>4. t + x \in 0..(z - 1)
        BY <3>1, <3>3
      <3> QED BY <3>4 DEF x, z
    <2>2. Col(t)[j] = f[t + a * j]
      BY DEF Column
    <2> QED BY <2>1, <2>2 DEF Terms
  <1>2. ASSUME NEW t \in 0..(a - 1) PROVE Terms(Col(t), b)
    <2> HIDE DEF Col
    <2> QED BY <1>1 DEF Terms
  <1> HIDE DEF Col
  <1>3. ASSUME NEW k \in Nat, k <= b PROVE Terms(Part(k), a)
    <2> SUFFICES ASSUME NEW t \in 0..(a - 1) PROVE FrSum(Col(t), k) \in Field
      BY DEF Terms
    <2>1. Terms(Col(t), k)
      BY <1>2, <1>3 DEF Terms
    <2> QED BY <2>1, TotalIn
  <1>4. 0 \in T
    <2> DEFINE zero == 0
               z == Part(zero)
    <2>1. \A t \in 0..(a - 1) : z[t] = 0
      BY TotalNone
    <2>2. Terms(z, a) /\ zero \in Nat /\ zero <= a /\ 0..(a - 1) = zero..(a - 1)
      BY <2>1, Closed DEF Terms
    <2>3. FrSum(z, a) = FrSum(z, zero)
      <3> HIDE DEF z, zero
      <3> QED BY <2>1, <2>2, TotalGap
    <2>4. a * 0 = 0 /\ FrSum(f, 0) = 0 /\ FrSum(z, zero) = 0
      BY TotalNone
    <2> QED BY <2>3, <2>4
  <1>5. ASSUME NEW k \in Nat, k \in T PROVE k + 1 \in T
    <2> SUFFICES ASSUME k + 1 <= b PROVE FrSum(f, a * (k + 1)) = FrSum(Part(k + 1), a)
      OBVIOUS
    <2> DEFINE r == [t \in 0..(a - 1) |-> f[a * k + t]]
               m == a * k
               p == Part(k)
               q == Part(k + 1)
    <2>1. k < b /\ k <= b /\ k \in 0..(b - 1) /\ m \in Nat /\ a * (k + 1) = m + a /\ m + a \in Nat
      OBVIOUS
    <2>2. FrSum(f, m) = FrSum(p, a)
      BY <1>5, <2>1
    <2>3. Terms(f, m + a)
      <3> SUFFICES ASSUME NEW i \in 0..((m + a) - 1) PROVE i \in 0..(a * b - 1)
        BY DEF Terms
      <3> DEFINE d == b - (k + 1)
      <3>1. d \in Nat /\ b = (k + 1) + d
        BY <2>1
      <3> HIDE DEF d
      <3>2. a * ((k + 1) + d) = (a * k + a) + a * d /\ a * d \in Nat
        BY <3>1
      <3> DEFINE y == a * d
                 z == a * b
      <3>3. z = (m + a) + y /\ y \in Nat
        BY <3>1, <3>2
      <3> HIDE DEF y, z, m
      <3>4. i \in 0..(z - 1)
        BY <2>1, <3>3
      <3> QED BY <3>4 DEF z
    <2>4. ASSUME NEW t \in 0..(a - 1)
          PROVE  q[t] = FrAdd(p[t], r[t]) /\ r[t] = f[m + t] /\ r[t] \in Field
      <3>1. FrSum(Col(t), k + 1) = FrAdd(FrSum(Col(t), k), Col(t)[k])
        BY <1>2, <2>1, TotalStep
      <3>2. Col(t)[k] = f[t + a * k] /\ f[t + a * k] \in Field /\ t + a * k = a * k + t
        BY <1>1, <2>1
      <3> QED BY <3>1, <3>2
    <2>5. Terms(p, a)
      <3> HIDE DEF T, Part
      <3> QED BY <1>3, <2>1
    <2>6. Terms(r, a)
      <3> HIDE DEF r
      <3> QED BY <2>4 DEF Terms
    <2> HIDE DEF T, r, p, q, m
    <2>7. FrSum(f, m + a) = FrAdd(FrSum(f, m), FrSum(r, a))
      BY <2>1, <2>3, <2>4, TotalSplit
    <2>8. FrSum(q, a) = FrAdd(FrSum(p, a), FrSum(r, a))
      BY <2>4, <2>5, <2>6, TotalAdds
    <2> QED BY <2>1, <2>2, <2>7, <2>8 DEF q
  <1>6. FrSum(f, a * b) = FrSum(Part(b), a)
    <2>1. b \in T
      <3> HIDE DEF T
      <3> QED BY <1>4, <1>5, Induction
    <2> QED BY <2>1
  <1>7. \A t \in 0..(a - 1) : g[t] = Part(b)[t]
    BY DEF Col
  <1>8. Terms(g, a) /\ FrSum(g, a) = FrSum(Part(b), a)
    <2>1. Terms(Part(b), a)
      <3> HIDE DEF Part
      <3> QED BY <1>3
    <2> HIDE DEF Part
    <2> QED BY <1>7, <2>1, TotalSame
  <1> QED BY <1>2, <1>6, <1>8 DEF Col

-----------------------------------------------------------------------------
(* The tables of roots *)

\* bufRootsFwd and bufRootsInv.
RootTables == {RootsFwd, RootsInv}

\* The k-th power of the root a table starts from.
RootAt(R, k) == R[k % DomainSize]

\* Which is Root, or its inverse.
LEMMA WeightIs ==
  ASSUME NEW R \in RootTables
  PROVE  /\ R \in [Exponents -> Field]
         /\ \E c \in Nat : /\ c = 1 \/ c = DomainSize - 1
                           /\ \A k \in Nat : RootAt(R, k) = Pw(c * k)
  <1> DEFINE D == DomainSize
  <1>1. D \in Nat \ {0} /\ Exponents = 0..(D - 1)
    BY Sizes DEF Exponents
  <1>2. CASE R = RootsFwd
    <2>1. \A e \in Exponents : R[e] = Pw(e) /\ R[e] \in Field
      BY <1>2, RootEntries
    <2>2. R \in [Exponents -> Field]
      BY <1>2, <2>1 DEF RootsFwd
    <2>3. \A k \in Nat : RootAt(R, k) = Pw(1 * k)
      <3> SUFFICES ASSUME NEW k \in Nat PROVE RootAt(R, k) = Pw(k)
        OBVIOUS
      <3>1. k % DomainSize \in Exponents /\ Pw(k % DomainSize) = Pw(k)
        BY PwReduced
      <3> QED BY <2>1, <3>1 DEF RootAt
    <2> QED BY <2>2, <2>3
  <1>3. CASE R = RootsInv
    <2> DEFINE c == D - 1
    <2>1. ASSUME NEW r \in Exponents PROVE R[r] = Pw(c * r) /\ R[r] \in Field
      <3>1. r \in Nat /\ r < D /\ D - r \in Nat
        BY <1>1
      <3> DEFINE s == (D - r) % D
      <3>2. s \in Exponents /\ Pw(s) = Pw(D - r)
        BY <3>1, PwReduced
      <3>3. R[r] = RootPowers[s + 1]
        BY <1>3 DEF RootsInv
      <3>4. R[r] = Pw(s) /\ Pw(s) \in Field
        BY <3>2, <3>3, RootEntries
      <3>5. Pw(D - r) = Pw(c * r)
        <4>1. CASE r = 0
          <5>1. c * r = 0 /\ D - r = D
            BY <1>1, <4>1
          <5> QED BY <5>1, PwAdds
        <4>2. CASE r # 0
          <5>1. r - 1 \in Nat /\ c * r = (D - r) + D * (r - 1)
            BY <1>1, <3>1, <4>2
          <5> HIDE DEF c
          <5> QED BY <3>1, <5>1, PwPeriod
        <4> QED BY <4>1, <4>2
      <3> QED BY <3>2, <3>4, <3>5
    <2>2. R \in [Exponents -> Field]
      BY <1>3, <2>1 DEF RootsInv
    <2>3. ASSUME NEW k \in Nat PROVE RootAt(R, k) = Pw(c * k)
      <3> DEFINE r == k % D
                 j == k \div D
      <3>1. r \in 0..(D - 1) /\ j \in Nat /\ k = r + D * j
        BY <1>1, Division
      <3>2. RootAt(R, k) = R[r]
        BY DEF RootAt
      <3> HIDE DEF r, j
      <3>3. c \in Nat /\ c * r \in Nat /\ c * j \in Nat
        BY <1>1, <3>1
      <3> HIDE DEF c
      <3>4. c * (r + D * j) = c * r + D * (c * j)
        BY <1>1, <3>1, <3>3
      <3>5. Pw(c * r + D * (c * j)) = Pw(c * r)
        BY <3>3, PwPeriod
      <3> QED BY <1>1, <2>1, <3>1, <3>2, <3>4, <3>5
    <2>4. c \in Nat
      BY <1>1
    <2> HIDE DEF c
    <2> QED BY <2>2, <2>3, <2>4 DEF c
  <1> QED BY <1>2, <1>3 DEF RootTables

\* The domain has two halves.
LEMMA Halves ==
  /\ DomainSize \div 2 \in Nat \ {0} /\ DomainSize = 2 * (DomainSize \div 2)
  /\ Cells \div 2 \in Nat \ {0} /\ Cells = 2 * (Cells \div 2)
  /\ BlobSize = (Cells \div 2) * CellSize
  <1> DEFINE k == LogCells - 1
             h == 2 ^ k
  <1>1. k \in Nat /\ k + 1 = LogCells /\ CellSize \in Nat \ {0} /\ DomainSize = Cells * CellSize
    BY Sizes
  <1>2. h \in Nat \ {0} /\ 2 ^ (k + 1) = 2 * h
    BY <1>1, PowersOfTwo
  <1>3. Cells = 2 * h
    BY <1>1, <1>2 DEF Cells
  <1> HIDE DEF h, k
  <1> DEFINE d == h * CellSize
  <1>4. (2 * h) * CellSize = 2 * d /\ d \in Nat \ {0}
    BY <1>1, <1>2
  <1>5. Cells \div 2 = h
    BY <1>2, <1>3
  <1> HIDE DEF d
  <1>6. DomainSize = 2 * d
    BY <1>1, <1>3, <1>4
  <1>7. DomainSize \div 2 = d
    BY <1>4, <1>6
  <1> QED BY <1>2, <1>3, <1>4, <1>5, <1>6, <1>7 DEF BlobSize, d

\* Half way round is -1.
LEMMA PwHalf == Pw(DomainSize \div 2) = FrNeg(1)
  <1> DEFINE h == DomainSize \div 2
             w == Pw(h)
             m == FrNeg(1)
             a == FrAdd(w, 1)
             b == FrAdd(w, m)
  <1>1. h \in Nat \ {0} /\ DomainSize = h + h /\ 0 \in Exponents /\ h \in Exponents /\ h # 0
    BY Halves DEF Exponents
  <1> HIDE DEF h
  <1>2. w \in Field /\ FrMul(w, w) = 1 /\ Pw(0) = 1
    <2>1. Pw(h + h) = FrMul(w, w) /\ w \in Field
      BY <1>1, PwAdds
    <2> QED BY <1>1, <2>1, PwAdds
  <1>3. w # 1
    BY <1>1, <1>2, PwDistinct
  <1> HIDE DEF w
  <1>4. m \in Field /\ 1 \in Field /\ 0 \in Field
    BY Closed
  <1>5. a \in Field /\ b \in Field /\ b # 0
    BY <1>2, <1>3, <1>4, Closed, Opposite
  <1>6. FrAdd(1, m) = 0
    BY <1>4, Opposite
  <1> HIDE DEF m
  \* (w + 1)(w - 1) = ww + (w + mw) + m
  <1>7. FrMul(a, b) = FrAdd(FrMul(a, w), FrMul(a, m))
    <2> HIDE DEF a
    <2> QED BY <1>2, <1>4, <1>5, FieldDistributes
  <1>8. FrMul(a, w) = FrAdd(1, w) /\ FrMul(a, m) = FrAdd(FrMul(w, m), m)
    <2>1. FrMul(w, a) = FrAdd(FrMul(w, w), FrMul(w, 1)) /\ FrMul(m, a) = FrAdd(FrMul(m, w), FrMul(m, 1))
      BY <1>2, <1>4, FieldDistributes
    <2>2. FrMul(w, a) = FrMul(a, w) /\ FrMul(m, a) = FrMul(a, m) /\ FrMul(m, w) = FrMul(w, m)
      BY <1>2, <1>4, <1>5, Commutes
    <2>3. FrMul(w, 1) = w /\ FrMul(m, 1) = m
      BY <1>2, <1>4, Neutral
    <2> QED BY <1>2, <2>1, <2>2, <2>3
  <1>9. FrAdd(w, FrMul(w, m)) = 0
    <2>1. FrMul(w, FrAdd(1, m)) = FrAdd(FrMul(w, 1), FrMul(w, m))
      BY <1>2, <1>4, FieldDistributes
    <2> QED BY <1>2, <1>6, <2>1, Neutral
  <1>10. FrMul(a, b) = 0
    <2>1. FrMul(w, m) \in Field
      BY <1>2, <1>4, Closed
    <2> DEFINE x == FrMul(w, m)
    <2> HIDE DEF a, b, x
    <2>2. FrAdd(FrAdd(1, w), FrAdd(x, m)) = FrAdd(1, FrAdd(w, FrAdd(x, m)))
      <3>1. x \in Field
        BY <2>1 DEF x
      <3>2. FrAdd(x, m) \in Field
        BY <1>4, <3>1, Closed
      <3> QED BY <1>2, <1>4, <3>2, AddAssociates
    <2>3. FrAdd(w, FrAdd(x, m)) = FrAdd(FrAdd(w, x), m)
      BY <1>2, <1>4, <2>1, AddAssociates DEF x
    <2>4. FrAdd(FrAdd(w, x), m) = m
      BY <1>4, <1>9, Neutral DEF x
    <2> QED BY <1>6, <1>7, <1>8, <2>2, <2>3, <2>4 DEF x
  <1>11. a = 0
    <2> HIDE DEF a, b
    <2> QED BY <1>5, <1>10, NoZeroDivisors
  <1>12. FrAdd(m, FrAdd(1, w)) = w /\ FrAdd(1, w) = a
    <2>1. FrAdd(m, FrAdd(1, w)) = FrAdd(FrAdd(m, 1), w) /\ FrAdd(m, 1) = FrAdd(1, m) /\ FrAdd(1, w) = FrAdd(w, 1)
      BY <1>2, <1>4, AddAssociates, Commutes
    <2> QED BY <1>2, <1>6, <2>1, Neutral
  <1>13. w = m
    BY <1>4, <1>11, <1>12, Neutral
  <1> QED BY <1>13 DEF w, m, h

\* The laws of the weights: exponents add up and count modulo DomainSize.
LEMMA Weights ==
  ASSUME NEW R \in RootTables
  PROVE  /\ \A k \in Nat : RootAt(R, k) \in Field
         /\ \A k, j \in Nat : /\ RootAt(R, k + j) = FrMul(RootAt(R, k), RootAt(R, j))
                              /\ RootAt(R, k + DomainSize * j) = RootAt(R, k)
         /\ RootAt(R, 0) = 1
         /\ RootAt(R, DomainSize \div 2) = FrNeg(1)
  <1> DEFINE D == DomainSize
             h == D \div 2
  <1>1. PICK c \in Nat : (c = 1 \/ c = D - 1) /\ \A k \in Nat : RootAt(R, k) = Pw(c * k)
    BY WeightIs
  <1>2. D \in Nat \ {0} /\ h \in Nat \ {0} /\ D = 2 * h
    BY Sizes, Halves
  <1>3. \A k \in Nat : c * k \in Nat
    OBVIOUS
  <1>4. ASSUME NEW k \in Nat, NEW j \in Nat
        PROVE  /\ RootAt(R, k + j) = FrMul(RootAt(R, k), RootAt(R, j))
               /\ RootAt(R, k + D * j) = RootAt(R, k)
    <2>1. /\ c * (k + j) = c * k + c * j /\ k + j \in Nat
          /\ c * (k + D * j) = c * k + D * (c * j) /\ k + D * j \in Nat
      BY <1>2
    <2>2. Pw(c * k + c * j) = FrMul(Pw(c * k), Pw(c * j)) /\ Pw(c * k + D * (c * j)) = Pw(c * k)
      BY <1>3, PwAdds, PwPeriod
    <2> QED BY <1>1, <2>1, <2>2
  <1>5. RootAt(R, 0) = 1
    <2>1. c * 0 = 0
      OBVIOUS
    <2> QED BY <1>1, <2>1, PwAdds
  <1>6. RootAt(R, h) = FrNeg(1)
    <2>1. Pw(c * h) = Pw(h)
      <3>1. CASE c = 1
        <4>1. 1 * h = h
          BY <1>2
        <4> QED BY <3>1, <4>1
      <3>2. CASE c = D - 1
        <4>1. h - 1 \in Nat /\ (2 * h - 1) * h = h + (2 * h) * (h - 1)
          BY <1>2
        <4>2. c * h = h + D * (h - 1)
          <5> HIDE DEF h, D
          <5> QED BY <1>2, <3>2, <4>1
        <4> HIDE DEF h
        <4>3. Pw(h + D * (h - 1)) = Pw(h)
          BY <1>2, <4>1, PwPeriod
        <4> QED BY <4>2, <4>3
      <3> QED BY <1>1, <3>1, <3>2
    <2>2. RootAt(R, h) = Pw(c * h)
      BY <1>1, <1>2
    <2> QED BY <2>1, <2>2, PwHalf
  <1> QED BY <1>1, <1>3, <1>4, <1>5, <1>6, PwAdds

\* A transform of size M takes every m-th entry.
LEMMA EntryIs ==
  ASSUME NEW R \in RootTables, NEW M \in Nat \ {0}, NEW m \in Nat \ {0}, DomainSize = M * m
  PROVE  /\ DomainSize \div M = m
         /\ \A k \in Nat : (k % M) * m \in Exponents /\ R[(k % M) * m] = RootAt(R, k * m)
         /\ \A k \in 0..(M - 1) : k * m \in Exponents /\ R[k * m] = RootAt(R, k * m)
  <1> DEFINE D == DomainSize
  <1>1. ASSUME NEW k \in 0..(M - 1) PROVE k * m \in Exponents /\ R[k * m] = RootAt(R, k * m)
    <2> DEFINE d == M - (k + 1)
               x == k * m
               y == d * m
    <2>1. d \in Nat /\ M = (k + 1) + d /\ k \in Nat
      OBVIOUS
    <2> HIDE DEF d
    <2>2. D = (x + m) + y /\ x \in Nat /\ y \in Nat
      BY <2>1
    <2> HIDE DEF x, y
    <2>3. x \in 0..(D - 1)
      BY <2>2
    <2>4. x % D = x
      BY <2>2, <2>3
    <2> QED BY <2>3, <2>4 DEF Exponents, RootAt, x
  <1>2. ASSUME NEW k \in Nat
        PROVE  (k % M) * m \in Exponents /\ R[(k % M) * m] = RootAt(R, k * m)
    <2> DEFINE r == k % M
               j == k \div M
    <2>1. r \in 0..(M - 1) /\ j \in Nat /\ k = r + M * j
      BY Division
    <2> HIDE DEF r, j
    <2>2. (r + M * j) * m = r * m + (M * m) * j /\ r * m \in Nat
      BY <2>1
    <2>3. r * m \in Exponents /\ R[r * m] = RootAt(R, r * m)
      BY <1>1, <2>1
    <2>4. RootAt(R, r * m + D * j) = RootAt(R, r * m)
      BY <2>1, <2>2, Weights
    <2> QED BY <2>1, <2>2, <2>3, <2>4 DEF r
  <1>3. D \div M = m
    <2>1. m \in Int /\ 0 \in 0..(M - 1) /\ 0 + M * m = D
      OBVIOUS
    <2> HIDE DEF D
    <2>2. (0 + M * m) \div M = m
      BY <2>1, DivisionIs
    <2> QED BY <2>1, <2>2 DEF D
  <1> QED BY <1>1, <1>2, <1>3

\* The powers of two up to the domain's size divide it.
LEMMA TwoAdds ==
  ASSUME NEW m \in Nat, NEW k \in Nat PROVE 2 ^ (m + k) = 2 ^ m * 2 ^ k
  <1> DEFINE p == 2 ^ m
             T == {j \in Nat : 2 ^ (m + j) = p * 2 ^ j}
  <1>1. p \in Nat \ {0}
    BY PowersOfTwo
  <1>2. 0 \in T
    <2>1. m + 0 = m /\ 2 ^ 0 = 1
      BY PowersOfTwo
    <2>2. 2 ^ (m + 0) = p
      BY <2>1
    <2> HIDE DEF p
    <2>3. p * 1 = p
      BY <1>1
    <2> QED BY <2>1, <2>2, <2>3
  <1>3. ASSUME NEW j \in Nat, j \in T PROVE j + 1 \in T
    <2> DEFINE q == 2 ^ j
               u == 2 ^ (m + j)
    <2>1. m + (j + 1) = (m + j) + 1 /\ m + j \in Nat
      OBVIOUS
    <2>2. 2 ^ (j + 1) = 2 * q /\ q \in Nat /\ 2 ^ ((m + j) + 1) = 2 * u /\ u = p * q
      BY <1>3, <2>1, PowersOfTwo
    <2> HIDE DEF p, q, u
    <2>3. 2 * (p * q) = p * (2 * q)
      BY <1>1, <2>2
    <2>4. 2 ^ (m + (j + 1)) = p * 2 ^ (j + 1)
      BY <2>1, <2>2, <2>3
    <2> QED BY <2>4
  <1>4. k \in T
    <2> HIDE DEF T
    <2> QED BY <1>2, <1>3, Induction
  <1> QED BY <1>4

\* What they leave is a power of two.
LEMMA PartOfDomain ==
  ASSUME NEW l \in Nat, l <= LogDomain
  PROVE  /\ 2 ^ l \in Nat \ {0} /\ DomainSize \div 2 ^ l \in Nat \ {0}
         /\ DomainSize = 2 ^ l * (DomainSize \div 2 ^ l)
         /\ DomainSize = 2 ^ LogDomain
  <1> DEFINE k == LogDomain - l
             p == 2 ^ l
             q == 2 ^ k
  <1>1. LogDomain \in Nat /\ k \in Nat /\ l + k = LogDomain /\ LogCells \in Nat /\ LogCellSize \in Nat
    BY Sizes
  <1>2. DomainSize = 2 ^ LogDomain
    BY <1>1, TwoAdds DEF DomainSize, Cells, CellSize, LogDomain
  <1>3. p \in Nat \ {0} /\ q \in Nat \ {0} /\ 2 ^ (l + k) = p * q
    <2> HIDE DEF k
    <2> QED BY <1>1, TwoAdds, PowersOfTwo
  <1>4. DomainSize = p * q
    BY <1>1, <1>2, <1>3
  <1> HIDE DEF p, q
  <1>5. q \in Int /\ 0 \in 0..(p - 1) /\ 0 + p * q = p * q
    BY <1>3
  <1>6. (0 + p * q) \div p = q
    BY <1>3, <1>5, DivisionIs
  <1> QED BY <1>2, <1>3, <1>4, <1>5, <1>6 DEF p

-----------------------------------------------------------------------------
(* Decimation in time *)

\* A difference is a sum with -1 times what is subtracted.
LEMMA SubIs ==
  ASSUME NEW a \in Field, NEW c \in Field
  PROVE  /\ FrNeg(1) \in Field /\ FrSub(a, c) \in Field
         /\ FrSub(a, c) = FrAdd(a, FrMul(c, FrNeg(1)))
  <1> DEFINE n == (0 - 1) % P
             v == (c * n) % P
  <1>1. a \in Int /\ c \in Int /\ P \in Int /\ FrNeg(1) \in Field
    BY ResidueIsItself, PrimeIs, Closed
  <1>2. n \in Field /\ n \in Int
    BY Remainder, ResidueIsItself
  <1>3. PICK j \in Int : 0 - 1 = n + j * P
    BY Remainder
  <1>4. FrNeg(1) = n /\ FrMul(c, n) = v
    BY DEF FrNeg, FrSub, FrMul
  <1> HIDE DEF n
  <1>5. c * n \in Int
    BY <1>1, <1>2
  <1>6. PICK i \in Int : c * n = v + i * P
    BY <1>5, Remainder
  <1>7. v \in Int
    BY <1>5, Remainder, ResidueIsItself
  <1> HIDE DEF v
  <1>8. n = (0 - 1) - j * P
    BY <1>1, <1>2, <1>3
  <1>9. c * ((0 - 1) - j * P) = (0 - c) - (c * j) * P
    BY <1>1
  <1>10. 0 - c = v + (i + c * j) * P
    <2> DEFINE cj == c * j
    <2>1. v + i * P = (0 - c) - cj * P /\ cj \in Int
      BY <1>1, <1>6, <1>8, <1>9
    <2> HIDE DEF cj
    <2>2. (i + cj) * P = i * P + cj * P
      BY <1>1, <2>1
    <2>3. 0 - c = v + (i + cj) * P
      BY <1>1, <1>7, <2>1, <2>2
    <2> QED BY <2>3 DEF cj
  <1>11. a - c = (a + v) + (i + c * j) * P /\ i + c * j \in Int /\ a - c \in Int /\ a + v \in Int
    <2> DEFINE k == (i + c * j)
    <2>1. k \in Int /\ 0 - c = v + k * P
      BY <1>1, <1>10
    <2> HIDE DEF k
    <2>2. a - c = (a + v) + k * P
      BY <1>1, <1>7, <2>1
    <2> QED BY <1>1, <1>7, <2>1, <2>2 DEF k
  <1>12. (a - c) % P = (a + v) % P /\ (a - c) % P \in Field
    BY <1>11, SameRemainder, Remainder
  <1> QED BY <1>1, <1>4, <1>12 DEF FrSub, FrAdd

\* What 2^s slots of shared memory hold after stage s, b being their block: the
\* transform of the elements whose low bits, reversed, are b.
StageTerms(x, R, L, s, b, k) ==
  [j \in 0..(2 ^ s - 1) |->
     FrMul(x[Brev(b, L - s) + 2 ^ (L - s) * j], RootAt(R, (j * k) * (DomainSize \div 2 ^ s)))]
StageSum(x, R, L, s, b, k) == FrSum(StageTerms(x, R, L, s, b, k), 2 ^ s)

\* An array of 2^L elements and a table of roots for it.
Transformable(x, R, L) ==
  /\ L \in Nat /\ L <= LogDomain
  /\ x \in [0..(2 ^ L - 1) -> Field]
  /\ R \in RootTables

\* The terms are there, and their sum is.
StageTyped(x, R, L, s, b, k) ==
  /\ \A j \in 0..(2 ^ s - 1) :
       /\ Brev(b, L - s) + 2 ^ (L - s) * j \in 0..(2 ^ L - 1)
       /\ (j * k) * (DomainSize \div 2 ^ s) \in Nat
       /\ StageTerms(x, R, L, s, b, k)[j] =
            FrMul(x[Brev(b, L - s) + 2 ^ (L - s) * j],
                  RootAt(R, (j * k) * (DomainSize \div 2 ^ s)))
  /\ Terms(StageTerms(x, R, L, s, b, k), 2 ^ s)
  /\ StageSum(x, R, L, s, b, k) \in Field

\* What a stage sums are field elements.
LEMMA StageTermsIn ==
  ASSUME NEW x, NEW R, NEW L, Transformable(x, R, L),
         NEW s \in 0..L, NEW b \in Nat, NEW k \in Nat
  PROVE  StageTyped(x, R, L, s, b, k)
  <1> DEFINE l == L - s
             p == 2 ^ s
             q == 2 ^ l
             r == Brev(b, l)
             m == DomainSize \div p
             f == StageTerms(x, R, L, s, b, k)
  <1>1. /\ l \in Nat /\ s \in Nat /\ s <= LogDomain /\ l + s = L /\ L \in Nat
        /\ x \in [0..(2 ^ L - 1) -> Field] /\ R \in RootTables
    BY Sizes DEF Transformable
  <1>2. p \in Nat \ {0} /\ q \in Nat \ {0} /\ 2 ^ L = q * p
    <2>1. 2 ^ (l + s) = q * p
      <3> HIDE DEF l
      <3> QED BY <1>1, TwoAdds
    <2> QED BY <1>1, <2>1, PowersOfTwo
  <1>3. m \in Nat
    BY <1>1, PartOfDomain
  <1>4. r \in 0..(q - 1)
    BY <1>1, BrevBelow
  <1>5. ASSUME NEW j \in 0..(p - 1)
        PROVE  /\ r + q * j \in 0..(2 ^ L - 1) /\ (j * k) * m \in Nat
               /\ f[j] = FrMul(x[r + q * j], RootAt(R, (j * k) * m)) /\ f[j] \in Field
    <2>1. f[j] = FrMul(x[r + q * j], RootAt(R, (j * k) * m))
      BY DEF StageTerms
    <2> HIDE DEF f, r, q, m, p, l
    <2>2. r + q * j \in 0..(2 ^ L - 1)
      <3> DEFINE d == p - (j + 1)
                 u == q * j
                 w == q * d
                 z == q * p
      <3>1. d \in Nat /\ p = (j + 1) + d /\ j \in Nat
        BY <1>2
      <3> HIDE DEF d
      <3>2. q * ((j + 1) + d) = (u + q) + w /\ u \in Nat /\ w \in Nat
        BY <1>2, <3>1
      <3>3. z = (u + q) + w
        BY <3>1, <3>2
      <3> HIDE DEF u, w, z
      <3>4. r + u \in 0..(z - 1)
        BY <1>2, <1>4, <3>2, <3>3
      <3> QED BY <1>2, <3>4 DEF u, z
    <2>3. (j * k) * m \in Nat
      <3>1. j * k \in Nat
        BY <1>2
      <3> QED BY <1>3, <3>1
    <2>4. RootAt(R, (j * k) * m) \in Field /\ x[r + q * j] \in Field
      BY <1>1, <2>2, <2>3, Weights
    <2> QED BY <2>1, <2>2, <2>3, <2>4, Closed
  <1>6. Terms(f, p)
    <2> HIDE DEF f, p
    <2> QED BY <1>5 DEF Terms
  <1>7. FrSum(f, p) \in Field
    <2> HIDE DEF f, p
    <2> QED BY <1>2, <1>6, TotalIn
  <1>8. StageSum(x, R, L, s, b, k) = FrSum(f, p)
    BY DEF StageSum
  <1> QED BY <1>5, <1>6, <1>7, <1>8 DEF StageTyped

\* A block is made of two of the stage before.
LEMMA StageHalves ==
  ASSUME NEW x, NEW R, NEW L, Transformable(x, R, L), NEW s \in Nat, s < L, NEW b \in Nat, NEW k \in Nat
  PROVE  StageSum(x, R, L, s + 1, b, k) =
           FrAdd(StageSum(x, R, L, s, 2 * b, k),
                 FrMul(StageSum(x, R, L, s, 2 * b + 1, k),
                       RootAt(R, k * (DomainSize \div 2 ^ (s + 1)))))
  <1> DEFINE D == DomainSize
             t == s + 1
             l == L - t
             p == 2 ^ s
             q == 2 ^ l
             r == Brev(b, l)
             m == D \div 2 ^ t
             w == RootAt(R, k * m)
             f == StageTerms(x, R, L, t, b, k)
             e == StageTerms(x, R, L, s, 2 * b, k)
             o == StageTerms(x, R, L, s, 2 * b + 1, k)
  <1>1. /\ l \in Nat /\ s \in 0..L /\ t \in 0..L /\ t \in Nat /\ L - s = l + 1 /\ LogDomain \in Nat
        /\ 2 * b \in Nat /\ 2 * b + 1 \in Nat /\ s <= LogDomain /\ t <= LogDomain
        /\ L \in Nat /\ x \in [0..(2 ^ L - 1) -> Field] /\ R \in RootTables
    BY Sizes DEF Transformable
  <1>2. p \in Nat \ {0} /\ q \in Nat \ {0} /\ 2 ^ t = 2 * p /\ 2 ^ (l + 1) = 2 * q
    BY <1>1, PowersOfTwo
  <1>3. m \in Nat \ {0} /\ D = (2 * p) * m /\ D \div p = 2 * m
    <2>1. m \in Nat \ {0} /\ D = 2 ^ t * m
      <3> HIDE DEF t
      <3> QED BY <1>1, PartOfDomain
    <2> DEFINE n == 2 * m
    <2>2. D = p * n /\ n \in Int /\ 0 \in 0..(p - 1) /\ 0 + p * n = p * n
      <3> HIDE DEF D, m, p
      <3> QED BY <1>2, <2>1
    <2> HIDE DEF D, m, p, n
    <2>3. (0 + p * n) \div p = n
      BY <1>2, <2>2, DivisionIs
    <2> QED BY <1>2, <2>1, <2>2, <2>3 DEF n
  <1>4. Brev(2 * b, l + 1) = r /\ Brev(2 * b + 1, l + 1) = q + r /\ r \in Nat
    <2>1. (2 * b) % 2 = 0 /\ (2 * b) \div 2 = b /\ (2 * b + 1) % 2 = 1 /\ (2 * b + 1) \div 2 = b
      OBVIOUS
    <2>2. Brev(2 * b, l + 1) = 0 * q + r /\ Brev(2 * b + 1, l + 1) = 1 * q + r
      <3> HIDE DEF l
      <3> QED BY <1>1, <2>1, BrevLow, ZenonT(60)
    <2>3. r \in Nat
      BY <1>1, BrevNext
    <2> HIDE DEF q, r
    <2> QED BY <1>2, <2>2, <2>3
  <1> HIDE DEF D, m, p, q, r, l, t
  <1>5. k * m \in Nat /\ w \in Field
    <2>1. k * m \in Nat
      BY <1>3
    <2> QED BY <1>1, <2>1, Weights
  <1> HIDE DEF w
  <1>6. ASSUME NEW j \in 0..(2 * p - 1)
        PROVE  f[j] = FrMul(x[r + q * j], RootAt(R, (j * k) * m)) /\ f[j] \in Field
    <2> HIDE DEF f
    <2>0. StageTyped(x, R, L, t, b, k)
      BY <1>1, StageTermsIn
    <2>1. \A i \in 0..(2 ^ t - 1) : f[i] = FrMul(x[r + q * i], RootAt(R, (i * k) * m))
      BY <2>0, Zenon DEF StageTyped, l, q, r, m, D, f
    <2>2. Terms(f, 2 ^ t)
      BY <2>0 DEF StageTyped, f
    <2> QED BY <1>2, <2>1, <2>2 DEF Terms
  <1>7. ASSUME NEW j \in 0..(p - 1)
        PROVE  /\ e[j] = FrMul(x[r + (2 * q) * j], RootAt(R, (j * k) * (2 * m)))
               /\ o[j] = FrMul(x[(q + r) + (2 * q) * j], RootAt(R, (j * k) * (2 * m)))
               /\ e[j] \in Field /\ o[j] \in Field
               /\ (j * k) * (2 * m) \in Nat
               /\ x[(q + r) + (2 * q) * j] \in Field /\ RootAt(R, (j * k) * (2 * m)) \in Field
    <2> HIDE DEF e, o
    <2>0. StageTyped(x, R, L, s, 2 * b, k) /\ StageTyped(x, R, L, s, 2 * b + 1, k)
      BY <1>1, StageTermsIn
    <2>1. \A i \in 0..(2 ^ s - 1) :
            /\ e[i] = FrMul(x[Brev(2 * b, L - s) + 2 ^ (L - s) * i], RootAt(R, (i * k) * (D \div 2 ^ s)))
            /\ (i * k) * (D \div 2 ^ s) \in Nat
      BY <2>0, Zenon DEF StageTyped, D, e
    <2>2. \A i \in 0..(2 ^ s - 1) :
            /\ o[i] = FrMul(x[Brev(2 * b + 1, L - s) + 2 ^ (L - s) * i], RootAt(R, (i * k) * (D \div 2 ^ s)))
            /\ Brev(2 * b + 1, L - s) + 2 ^ (L - s) * i \in 0..(2 ^ L - 1)
      BY <2>0, Zenon DEF StageTyped, D, o
    <2>3. Terms(e, p) /\ Terms(o, p)
      BY <2>0, Zenon DEF StageTyped, e, o, p
    <2>4. \A i \in 0..(p - 1) :
            /\ e[i] = FrMul(x[r + (2 * q) * i], RootAt(R, (i * k) * (2 * m)))
            /\ (i * k) * (2 * m) \in Nat
      BY <1>1, <1>2, <1>3, <1>4, <2>1 DEF p
    <2>5. \A i \in 0..(p - 1) :
            /\ o[i] = FrMul(x[(q + r) + (2 * q) * i], RootAt(R, (i * k) * (2 * m)))
            /\ (q + r) + (2 * q) * i \in 0..(2 ^ L - 1)
      BY <1>1, <1>2, <1>3, <1>4, <2>2 DEF p
    <2>6. x[(q + r) + (2 * q) * j] \in Field
      BY <1>1, <2>5
    <2>7. RootAt(R, (j * k) * (2 * m)) \in Field
      BY <1>1, <2>4, Weights
    <2> QED BY <2>3, <2>4, <2>5, <2>6, <2>7 DEF Terms
  <1> HIDE DEF f, e, o
  \* Column 0 is e, and column 1 is w times o.
  <1>8. ASSUME NEW j \in 0..(p - 1)
        PROVE  /\ Column(f, 2, p, 0)[j] = e[j]
               /\ Column(f, 2, p, 1)[j] = FrMul(w, o[j])
    <2>1. /\ 0 + 2 * j \in 0..(2 * p - 1) /\ 1 + 2 * j \in 0..(2 * p - 1)
          /\ Column(f, 2, p, 0)[j] = f[0 + 2 * j] /\ Column(f, 2, p, 1)[j] = f[1 + 2 * j]
      BY <1>2 DEF Column
    <2>2. f[0 + 2 * j] = e[j]
      <3>1. r + q * (0 + 2 * j) = r + (2 * q) * j /\ ((0 + 2 * j) * k) * m = (j * k) * (2 * m)
        <4>1. j \in Int /\ k \in Int /\ m \in Int /\ q \in Int /\ r \in Int
          BY <1>2, <1>3, <1>4
        <4> QED BY <4>1
      <3> QED BY <1>6, <1>7, <2>1, <3>1
    <2>3. f[1 + 2 * j] = FrMul(w, o[j])
      <3> DEFINE u == (j * k) * (2 * m)
                 y == x[(q + r) + (2 * q) * j]
      <3>1. r + q * (1 + 2 * j) = (q + r) + (2 * q) * j /\ ((1 + 2 * j) * k) * m = k * m + u
        <4>1. j \in Int /\ k \in Int /\ m \in Int /\ q \in Int /\ r \in Int
          BY <1>2, <1>3, <1>4
        <4> QED BY <4>1
      <3>2. f[1 + 2 * j] = FrMul(y, RootAt(R, k * m + u))
        BY <1>6, <2>1, <3>1
      <3>3. o[j] = FrMul(y, RootAt(R, u)) /\ u \in Nat /\ y \in Field /\ RootAt(R, u) \in Field
        BY <1>7
      <3> HIDE DEF u, y
      <3>4. RootAt(R, k * m + u) = FrMul(w, RootAt(R, u))
        BY <1>1, <1>5, <3>3, Weights DEF w
      <3>5. FrMul(y, FrMul(w, RootAt(R, u))) = FrMul(FrMul(y, w), RootAt(R, u))
        BY <1>5, <3>3, MulAssociates
      <3>6. FrMul(FrMul(w, y), RootAt(R, u)) = FrMul(w, FrMul(y, RootAt(R, u)))
        BY <1>5, <3>3, MulAssociates
      <3>7. FrMul(y, w) = FrMul(w, y)
        BY <1>5, <3>3, Commutes
      <3> QED BY <3>2, <3>3, <3>4, <3>5, <3>6, <3>7
    <2> QED BY <2>1, <2>2, <2>3
  <1>9. Terms(e, p) /\ Terms(o, p) /\ Terms(f, 2 * p)
    BY <1>6, <1>7 DEF Terms
  <1>10. FrSum(Column(f, 2, p, 0), p) = FrSum(e, p) /\ FrSum(e, p) \in Field
    BY <1>2, <1>8, <1>9, TotalSame, TotalIn
  <1>11. /\ FrSum(Column(f, 2, p, 1), p) = FrMul(FrSum(o, p), w)
         /\ FrMul(FrSum(o, p), w) \in Field
    <2>1. FrSum(Column(f, 2, p, 1), p) = FrMul(w, FrSum(o, p)) /\ FrSum(o, p) \in Field
      BY <1>2, <1>5, <1>8, <1>9, TotalScales, TotalIn
    <2> QED BY <1>5, <2>1, Commutes, Closed
  <1> DEFINE g == [i \in 0..(2 - 1) |-> FrSum(Column(f, 2, p, i), p)]
  <1>12. FrSum(f, 2 * p) = FrSum(g, 2) /\ Terms(g, 2)
    <2>1. \A i \in 0..(2 - 1) : g[i] = FrSum(Column(f, 2, p, i), p)
      OBVIOUS
    <2> DEFINE two == 2
    <2>2. two \in Nat /\ p \in Nat /\ Terms(f, two * p) /\ \A i \in 0..(two - 1) : g[i] = FrSum(Column(f, two, p, i), p)
      BY <1>2, <1>9, <2>1
    <2> HIDE DEF two, g
    <2>3. FrSum(f, two * p) = FrSum(g, two) /\ Terms(g, two)
      BY <2>2, TotalColumns
    <2> QED BY <2>3 DEF two
  <1>13. g[0] = FrSum(e, p) /\ g[1] = FrMul(FrSum(o, p), w)
    BY <1>10, <1>11
  <1>14. FrSum(g, 2) = FrAdd(g[0], g[1])
    <2> HIDE DEF g
    <2>1. FrSum(g, 0 + 1) = FrAdd(FrSum(g, 0), g[0]) /\ FrSum(g, 1 + 1) = FrAdd(FrSum(g, 1), g[1]) /\ g[0] \in Field
      BY <1>12, TotalStep
    <2>2. FrSum(g, 0) = 0 /\ FrAdd(0, g[0]) = g[0]
      BY <2>1, TotalNone, Neutral
    <2> QED BY <2>1, <2>2
  <1>15. /\ StageSum(x, R, L, t, b, k) = FrSum(f, 2 * p)
         /\ StageSum(x, R, L, s, 2 * b, k) = FrSum(e, p)
         /\ StageSum(x, R, L, s, 2 * b + 1, k) = FrSum(o, p)
    BY <1>2 DEF StageSum, f, e, o, p
  <1> HIDE DEF g
  <1> QED BY <1>12, <1>13, <1>14, <1>15 DEF t, w, m, D

\* A butterfly.
LEMMA StageNext ==
  ASSUME NEW x, NEW R, NEW L, Transformable(x, R, L), NEW s \in Nat, s < L, NEW b \in Nat, NEW k \in Nat,
         NEW lo, NEW hi, NEW c,
         lo = StageSum(x, R, L, s, 2 * b, k), hi = StageSum(x, R, L, s, 2 * b + 1, k),
         c = FrMul(hi, RootAt(R, k * (DomainSize \div 2 ^ (s + 1))))
  PROVE  /\ StageSum(x, R, L, s + 1, b, k) = FrAdd(lo, c)
         /\ StageSum(x, R, L, s + 1, b, k + 2 ^ s) = FrSub(lo, c)
         /\ lo \in Field /\ hi \in Field /\ c \in Field
         /\ FrAdd(lo, c) \in Field /\ FrSub(lo, c) \in Field
  <1> DEFINE D == DomainSize
             p == 2 ^ s
             m == D \div 2 ^ (s + 1)
             h == D \div 2
             u == k + p
             w == RootAt(R, k * m)
  <1>1. /\ s \in 0..L /\ s + 1 \in Nat /\ s + 1 <= LogDomain /\ s <= LogDomain /\ LogDomain \in Nat
        /\ 2 * b \in Nat /\ 2 * b + 1 \in Nat /\ R \in RootTables
    BY Sizes DEF Transformable
  <1>2. p \in Nat \ {0} /\ m \in Nat \ {0} /\ D = (2 * p) * m /\ D \in Nat /\ u \in Nat
    <2>1. p \in Nat \ {0} /\ 2 ^ (s + 1) = 2 * p
      BY PowersOfTwo
    <2> DEFINE t == s + 1
    <2>2. DomainSize \div 2 ^ t \in Nat \ {0} /\ DomainSize = 2 ^ t * (DomainSize \div 2 ^ t)
      <3> HIDE DEF t
      <3>1. t \in Nat /\ t <= LogDomain
        BY <1>1 DEF t
      <3> QED BY <3>1, PartOfDomain
    <2>3. m \in Nat \ {0} /\ D = 2 ^ t * m
      BY <2>2
    <2>4. u \in Nat
      BY <2>1
    <2> QED BY <2>1, <2>3, <2>4, Sizes
  <1>3. lo \in Field /\ hi \in Field
    <2>1. StageTyped(x, R, L, s, 2 * b, k) /\ StageTyped(x, R, L, s, 2 * b + 1, k)
      BY <1>1, StageTermsIn
    <2> QED BY <2>1 DEF StageTyped
  <1>4. k * m \in Nat /\ w \in Field /\ c = FrMul(hi, w) /\ c \in Field
    <2>1. k * m \in Nat
      <3> HIDE DEF m
      <3> QED BY <1>2
    <2>2. w \in Field
      BY <1>1, <2>1, Weights
    <2> QED BY <1>3, <2>1, <2>2, Closed
  <1>5. p * m = h
    <2> DEFINE y == p * m
    <2>1. (2 * p) * m = 2 * y /\ y \in Nat
      <3> HIDE DEF p, m
      <3> QED BY <1>2
    <2>2. D = 2 * y
      BY <1>2, <2>1
    <2>3. D = 2 * h /\ h \in Nat
      BY Halves
    <2> HIDE DEF D, h, y
    <2>4. y = h
      BY <2>1, <2>2, <2>3
    <2> QED BY <2>4 DEF y
  <1>6. ASSUME NEW a \in Nat PROVE StageSum(x, R, L, s, a, u) = StageSum(x, R, L, s, a, k)
    <2> DEFINE f == StageTerms(x, R, L, s, a, k)
               g == StageTerms(x, R, L, s, a, u)
               n == D \div p
    <2>0. StageTyped(x, R, L, s, a, k) /\ StageTyped(x, R, L, s, a, u)
      <3> HIDE DEF u
      <3> QED BY <1>1, <1>2, StageTermsIn
    <2>1. n \in Nat \ {0} /\ D = p * n
      <3>1. DomainSize \div 2 ^ s \in Nat \ {0} /\ DomainSize = 2 ^ s * (DomainSize \div 2 ^ s)
        BY <1>1, PartOfDomain
      <3> QED BY <3>1
    <2>2. ASSUME NEW j \in 0..(p - 1) PROVE g[j] = f[j]
      <3>1. /\ f[j] = FrMul(x[Brev(a, L - s) + 2 ^ (L - s) * j], RootAt(R, (j * k) * n))
            /\ (j * k) * n \in Nat
        BY <2>0 DEF StageTyped
      <3>2. g[j] = FrMul(x[Brev(a, L - s) + 2 ^ (L - s) * j], RootAt(R, (j * u) * n))
        <4> HIDE DEF u
        <4> QED BY <2>0 DEF StageTyped
      <3> HIDE DEF p, n, D
      <3>3. (j * (k + p)) * n = (j * k) * n + (p * n) * j /\ j \in Nat
        BY <1>2, <2>1
      <3>4. RootAt(R, (j * k) * n + D * j) = RootAt(R, (j * k) * n)
        BY <1>1, <3>1, <3>3, Weights DEF D
      <3> QED BY <2>1, <3>1, <3>2, <3>3, <3>4
    <2>3. Terms(f, p)
      BY <2>0 DEF StageTyped
    <2> HIDE DEF f, g
    <2>4. FrSum(g, p) = FrSum(f, p)
      BY <1>2, <2>2, <2>3, TotalSame
    <2> QED BY <2>4 DEF StageSum, f, g
  <1>7. RootAt(R, u * m) = FrMul(w, FrNeg(1))
    <2>1. (k + p) * m = k * m + p * m
      <3> HIDE DEF p, m
      <3> QED BY <1>2
    <2>2. RootAt(R, k * m + h) = FrMul(w, RootAt(R, h))
      <3>1. h \in Nat
        BY Halves
      <3> QED BY <1>1, <1>4, <3>1, Weights
    <2>3. RootAt(R, h) = FrNeg(1)
      BY <1>1, Weights
    <2> QED BY <1>5, <2>1, <2>2, <2>3
  <1>8. StageSum(x, R, L, s + 1, b, k) = FrAdd(lo, c)
    BY <1>4, StageHalves
  <1>9. StageSum(x, R, L, s + 1, b, u) = FrAdd(lo, FrMul(hi, FrMul(w, FrNeg(1))))
    <2> HIDE DEF u
    <2>1. StageSum(x, R, L, s + 1, b, u) =
            FrAdd(StageSum(x, R, L, s, 2 * b, u), FrMul(StageSum(x, R, L, s, 2 * b + 1, u), RootAt(R, u * m)))
      BY <1>2, StageHalves
    <2>2. StageSum(x, R, L, s, 2 * b, u) = lo /\ StageSum(x, R, L, s, 2 * b + 1, u) = hi
      BY <1>1, <1>6
    <2> QED BY <1>7, <2>1, <2>2
  <1> HIDE DEF w
  <1>10. FrMul(hi, FrMul(w, FrNeg(1))) = FrMul(c, FrNeg(1))
    <2>1. FrNeg(1) \in Field
      BY Closed
    <2> QED BY <1>3, <1>4, <2>1, MulAssociates
  <1>11. FrSub(lo, c) = FrAdd(lo, FrMul(c, FrNeg(1))) /\ FrSub(lo, c) \in Field
    BY <1>3, <1>4, SubIs
  <1> QED BY <1>3, <1>4, <1>8, <1>9, <1>10, <1>11, Closed

\* The terms of the transform of n elements x, k being the place in its result.
GroupTerms(x, R, n, k) == [j \in 0..(n - 1) |-> FrMul(x[j], RootAt(R, (j * k) * (DomainSize \div n)))]

\* The first stage is a load, the last leaves the transform.
LEMMA StageEnds ==
  ASSUME NEW x, NEW R, NEW L, Transformable(x, R, L)
  PROVE  /\ \A i \in 0..(2 ^ L - 1) : StageSum(x, R, L, 0, i, 0) = x[Brev(i, L)]
         /\ \A k \in Nat : StageSum(x, R, L, L, 0, k) = FrSum(GroupTerms(x, R, 2 ^ L, k), 2 ^ L)
  <1>0. L \in Nat /\ x \in [0..(2 ^ L - 1) -> Field] /\ R \in RootTables
    BY DEF Transformable
  <1>1. 2 ^ 0 = 1 /\ 2 ^ L \in Nat \ {0} /\ 0 \in 0..L /\ L \in 0..L /\ L - 0 = L /\ L - L = 0
    BY <1>0, PowersOfTwo
  <1>2. ASSUME NEW i \in 0..(2 ^ L - 1) PROVE StageSum(x, R, L, 0, i, 0) = x[Brev(i, L)]
    <2> DEFINE f == StageTerms(x, R, L, 0, i, 0)
               a == Brev(i, L)
               y == x[a]
    <2>1. i \in Nat /\ a \in 0..(2 ^ L - 1)
      <3>1. i \in Nat
        BY <1>1
      <3> QED BY <1>0, <3>1, BrevBelow
    <2>2. 2 ^ L * 0 = 0 /\ (0 * 0) * (DomainSize \div 1) = 0 /\ a + 0 = a /\ 0 \in 0..(1 - 1)
      <3>1. DomainSize \in Int /\ DomainSize \div 1 \in Int
        BY Sizes
      <3> HIDE DEF a
      <3> QED BY <1>1, <2>1, <3>1
    <2>3. /\ f[0] = FrMul(x[a + 2 ^ L * 0], RootAt(R, (0 * 0) * (DomainSize \div 1)))
          /\ Terms(f, 2 ^ 0)
      <3>0. StageTyped(x, R, L, 0, i, 0)
        BY <1>1, <2>1, StageTermsIn
      <3>1. \A j \in 0..(2 ^ 0 - 1) :
              f[j] = FrMul(x[Brev(i, L - 0) + 2 ^ (L - 0) * j], RootAt(R, (j * 0) * (DomainSize \div 2 ^ 0)))
        BY <3>0, Zenon DEF StageTyped
      <3>2. Terms(f, 2 ^ 0)
        BY <3>0, Zenon DEF StageTyped
      <3> HIDE DEF f
      <3> QED BY <1>1, <2>2, <3>1, <3>2
    <2> HIDE DEF f, a
    <2>4. RootAt(R, 0) = 1 /\ y \in Field
      BY <1>0, <2>1, Weights DEF a
    <2>5. f[0] = y
      BY <2>2, <2>3, <2>4, Neutral
    <2>6. FrSum(f, 0 + 1) = FrAdd(FrSum(f, 0), f[0])
      BY <1>1, <2>3, TotalStep
    <2>7. FrSum(f, 1) = y
      BY <2>4, <2>5, <2>6, TotalNone, Neutral
    <2> QED BY <1>1, <2>7 DEF StageSum, f, a
  <1>3. ASSUME NEW k \in Nat
        PROVE  StageSum(x, R, L, L, 0, k) = FrSum(GroupTerms(x, R, 2 ^ L, k), 2 ^ L)
    <2> DEFINE g == GroupTerms(x, R, 2 ^ L, k)
               f == StageTerms(x, R, L, L, 0, k)
    <2>1. Brev(0, 0) = 0
      BY BrevNext
    <2>2. \A j \in 0..(2 ^ L - 1) : Brev(0, L - L) + 2 ^ (L - L) * j = j
      BY <1>0, <1>1, <2>1
    <2>3. f = g
      BY <2>2 DEF StageTerms, GroupTerms
    <2> QED BY <2>3 DEF StageSum
  <1> QED BY <1>2, <1>3

-----------------------------------------------------------------------------
(* The terms of a transform *)

\* The exponent of a term, N1 and N2 being a and b: j = t + b j1, k = k1 + a k2.
LEMMA ExponentIs ==
  ASSUME NEW a \in Nat, NEW b \in Nat, NEW m \in Nat, NEW D, D = (a * b) * m,
         NEW t \in Nat, NEW u \in Nat, NEW k1 \in Nat, NEW k2 \in Nat
  PROVE  /\ (t * k1) * m \in Nat /\ (t * k2) * (a * m) \in Nat /\ (u * k1) * (b * m) \in Nat
         /\ u * k2 \in Nat
         /\ ((t + b * u) * (k1 + a * k2)) * m =
              (((t * k1) * m + (t * k2) * (a * m)) + (u * k1) * (b * m)) + D * (u * k2)
  <1> DEFINE A == (t * k1) * m
             B == (t * k2) * (a * m)
             C == (u * k1) * (b * m)
             E == ((a * b) * m) * (u * k2)
  <1>1. /\ t * k1 \in Nat /\ t * k2 \in Nat /\ u * k1 \in Nat /\ u * k2 \in Nat
        /\ a * m \in Nat /\ b * m \in Nat
    OBVIOUS
  <1>2. A \in Nat /\ B \in Nat /\ C \in Nat
    <2>1. \A x, y \in Nat : x * y \in Nat
      OBVIOUS
    <2> QED BY <1>1, <2>1
  <1>3. ((t + b * u) * (k1 + a * k2)) * m = A + B + C + E
    OBVIOUS
  <1>4. D * (u * k2) = E
    OBVIOUS
  <1>5. E \in Nat
    <2>1. (a * b) * m \in Nat
      OBVIOUS
    <2> DEFINE y == (a * b) * m
               z == u * k2
    <2>2. y \in Nat /\ z \in Nat
      BY <1>1, <2>1
    <2> HIDE DEF y, z
    <2>3. y * z \in Nat
      BY <2>2
    <2> QED BY <2>3 DEF y, z
  <1> HIDE DEF A, B, C, E
  <1>6. ((t + b * u) * (k1 + a * k2)) * m = ((A + B) + C) + D * (u * k2)
    BY <1>2, <1>3, <1>4, <1>5
  <1> QED BY <1>1, <1>2, <1>6 DEF A, B, C

\* A weight of A + B + C, modulo DomainSize, is the product of theirs.
WeightsOf(R, A, B, C, d) ==
  /\ RootAt(R, ((A + B) + C) + DomainSize * d) =
       FrMul(FrMul(RootAt(R, A), RootAt(R, B)), RootAt(R, C))
  /\ RootAt(R, A) \in Field /\ RootAt(R, B) \in Field /\ RootAt(R, C) \in Field

\* The weights of three exponents and a multiple of DomainSize do.
LEMMA WeightOfTerm ==
  ASSUME NEW R \in RootTables, NEW A \in Nat, NEW B \in Nat, NEW C \in Nat, NEW d \in Nat
  PROVE  WeightsOf(R, A, B, C, d)
  <1>1. A + B \in Nat /\ (A + B) + C \in Nat
    OBVIOUS
  <1>2. RootAt(R, ((A + B) + C) + DomainSize * d) = RootAt(R, (A + B) + C)
    BY <1>1, Weights
  <1>3. RootAt(R, (A + B) + C) = FrMul(RootAt(R, A + B), RootAt(R, C))
    BY <1>1, Weights
  <1>4. RootAt(R, A + B) = FrMul(RootAt(R, A), RootAt(R, B))
    BY Weights
  <1> QED BY <1>2, <1>3, <1>4, Weights DEF WeightsOf

\* The circulants have coefficients of the polynomial, and zeros.
LEMMA CirculantIn ==
  ASSUME LogCells > 1, NEW poly \in [Exponents -> Field],
         NEW g \in 0..(CellSize - 1), NEW i \in 0..(Cells - 1)
  PROVE  CirculantEntry(poly, g, i) \in Field
  <1> DEFINE h == Cells \div 2
  <1>1. /\ h \in Nat \ {0} /\ Cells = 2 * h /\ CellSize \in Nat \ {0} /\ g \in Nat /\ i \in Nat
        /\ BlobSize = h * CellSize /\ DomainSize = (2 * h) * CellSize
    BY Halves, Sizes
  <1> HIDE DEF h
  <1> DEFINE C == CellSize
             d == h * C
  <1>2. (2 * h) * C = 2 * d /\ d \in Nat /\ d >= C
    <2>1. (2 * h) * C = 2 * (h * C) /\ h * C \in Nat /\ h * C >= C
      BY <1>1
    <2> QED BY <2>1
  <1>3. ASSUME NEW k \in Nat, k < h PROVE poly[BlobSize - 1 - g - k * C] \in Field
    <2> DEFINE e == h - (k + 1)
               u == k * C
               w == e * C
    <2>1. e \in Nat /\ h = (k + 1) + e
      BY <1>1, <1>3
    <2> HIDE DEF e
    <2>2. ((k + 1) + e) * C = (u + C) + w /\ u \in Nat /\ w \in Nat
      BY <1>1, <2>1
    <2>3. d = (u + C) + w
      BY <2>1, <2>2
    <2>4. BlobSize = d /\ DomainSize = 2 * d
      BY <1>1, <1>2
    <2> HIDE DEF u, w, d
    <2>5. d - 1 - g - u \in 0..(2 * d - 1)
      BY <1>1, <2>2, <2>3
    <2>6. BlobSize - 1 - g - u \in Exponents
      BY <2>4, <2>5 DEF Exponents
    <2> QED BY <2>6 DEF u
  <1>4. CASE i = 0
    <2>1. 0 < h /\ 0 * C = 0
      BY <1>1
    <2>2. poly[BlobSize - 1 - g - 0 * C] \in Field
      BY <1>3, <2>1
    <2>3. BlobSize - 1 - g - 0 = BlobSize - 1 - g
      <3>1. BlobSize \in Int /\ g \in Int
        BY <1>1, <1>2
      <3> QED BY <3>1
    <2> QED BY <1>4, <2>1, <2>2, <2>3 DEF CirculantEntry
  <1>5. CASE i # 0 /\ i >= Cells \div 2 + 2
    <2>1. Cells - i \in Nat /\ Cells - i < h
      <3>1. i >= h + 2
        BY <1>5 DEF h
      <3> QED BY <1>1, <3>1
    <2>2. poly[BlobSize - 1 - g - (Cells - i) * C] \in Field
      BY <1>3, <2>1
    <2> QED BY <1>5, <2>2 DEF CirculantEntry
  <1>6. CASE i # 0 /\ ~(i >= Cells \div 2 + 2)
    BY <1>6, Closed DEF CirculantEntry
  <1> QED BY <1>4, <1>5, <1>6

\* The terms of a circulant's column that are not zeros, from its end.
ColumnTerms(poly, R, i, j) ==
  [t \in 0..(Cells \div 2 - 2) |->
     FrMul(poly[BlobSize - 1 - i - t * CellSize], R[((j * (Cells - t)) % Cells) * CellSize])]

\* The zeros of a circulant's column drop out of its transform.
LEMMA ColumnIs ==
  ASSUME LogCells > 1, NEW poly \in [Exponents -> Field], NEW R \in RootTables,
         NEW i \in 0..(CellSize - 1), NEW j \in 0..(Cells - 1),
         NEW x, \A t \in 0..(Cells - 1) : x[t] = CirculantEntry(poly, i, t)
  PROVE  FrSum(GroupTerms(x, R, Cells, j), Cells) =
           FrSum(ColumnTerms(poly, R, i, j), Cells \div 2 - 1)
  <1> DEFINE h == Cells \div 2
             z == CellSize
             f == GroupTerms(x, R, Cells, j)
             g == ColumnTerms(poly, R, i, j)
             W(k) == RootAt(R, k)
  <1>1. /\ h \in Nat \ {0} /\ Cells = 2 * h /\ h > 1 /\ z \in Nat \ {0} /\ DomainSize = Cells * z
        /\ Cells \in Nat \ {0} /\ j \in Nat
    <2>1. h \in Nat \ {0} /\ Cells = 2 * h /\ z \in Nat \ {0} /\ DomainSize = Cells * z /\ Cells \in Nat \ {0}
      BY Halves, Sizes
    <2>2. h > 1
      <3> DEFINE l == LogCells - 2
      <3>1. l \in Nat /\ LogCells = (l + 1) + 1 /\ l + 1 \in Nat
        BY Sizes
      <3> HIDE DEF l
      <3>2. 2 ^ ((l + 1) + 1) = 2 * 2 ^ (l + 1) /\ 2 ^ (l + 1) = 2 * 2 ^ l /\ 2 ^ l \in Nat \ {0}
        BY <3>1, PowersOfTwo
      <3> DEFINE y == 2 ^ l
      <3>3. Cells = 2 * (2 * y) /\ y \in Nat \ {0}
        BY <3>1, <3>2 DEF Cells
      <3> HIDE DEF y, h
      <3> QED BY <2>1, <3>3
    <2> QED BY <2>1, <2>2
  <1>2. DomainSize \div Cells = z
    BY <1>1, EntryIs
  <1> HIDE DEF h, z
  <1>3. ASSUME NEW t \in 0..(Cells - 1)
        PROVE  /\ f[t] = FrMul(x[t], W((t * j) * z)) /\ f[t] \in Field
               /\ x[t] = CirculantEntry(poly, i, t) /\ x[t] \in Field
               /\ (t * j) * z \in Nat /\ t \in Nat
    <2>1. f[t] = FrMul(x[t], W((t * j) * z))
      BY <1>2 DEF GroupTerms
    <2>2. t \in Nat /\ (t * j) * z \in Nat
      <3>1. t \in Nat
        BY <1>1
      <3>2. t * j \in Nat
        BY <1>1, <3>1
      <3> DEFINE y == t * j
      <3> HIDE DEF y
      <3>3. y * z \in Nat
        BY <1>1, <3>2 DEF y
      <3> QED BY <3>1, <3>3 DEF y
    <2>3. x[t] = CirculantEntry(poly, i, t) /\ x[t] \in Field
      BY CirculantIn
    <2>4. W((t * j) * z) \in Field
      BY <2>2, Weights
    <2> HIDE DEF f
    <2> QED BY <2>1, <2>2, <2>3, <2>4, Closed
  <1>4. ASSUME NEW t \in 0..(h - 2)
        PROVE  /\ t \in Nat /\ g[t] = FrMul(poly[BlobSize - 1 - i - t * z], W(((Cells - t) * j) * z))
    <2>1. t \in Nat /\ Cells - t \in Nat
      BY <1>1
    <2>2. g[t] = FrMul(poly[BlobSize - 1 - i - t * z], R[((j * (Cells - t)) % Cells) * z])
      BY DEF ColumnTerms, h, z
    <2> DEFINE u == Cells - t
               k == j * u
    <2>3. j * u = u * j /\ j * u \in Nat
      <3> HIDE DEF u
      <3>1. u \in Nat
        BY <2>1 DEF u
      <3> QED BY <1>1, <3>1
    <2>4. R[(k % Cells) * z] = W(k * z)
      <3>1. k \in Nat
        BY <2>3
      <3>2. Cells \in Nat \ {0} /\ z \in Nat \ {0} /\ DomainSize = Cells * z
        BY <1>1
      <3>3. \A a \in Nat : R[(a % Cells) * z] = RootAt(R, a * z)
        BY <3>2, EntryIs, ZenonT(60)
      <3> HIDE DEF k
      <3> QED BY <3>1, <3>3
    <2> QED BY <2>1, <2>2, <2>3, <2>4
  \* The first of each.
  <1>5. g[0] = f[0]
    <2>1. 0 \in 0..(h - 2) /\ 0 \in 0..(Cells - 1)
      BY <1>1
    <2>2. 0 * z = 0 /\ (0 * j) * z = 0 /\ ((Cells - 0) * j) * z = 0 + DomainSize * j
      <3>1. 0 * j = 0 /\ 0 * z = 0
        BY <1>1
      <3>2. (Cells * j) * z = (Cells * z) * j /\ (Cells * z) * j \in Nat
        BY <1>1
      <3>3. Cells - 0 = Cells
        BY <1>1
      <3> DEFINE y == DomainSize * j
      <3>4. y \in Nat /\ (Cells * j) * z = y
        BY <1>1, <3>2
      <3> HIDE DEF y
      <3>5. y = 0 + y
        BY <3>4
      <3> QED BY <3>1, <3>3, <3>4, <3>5 DEF y
    <2>3. W(0 + DomainSize * j) = W(0)
      <3>1. 0 \in Nat
        OBVIOUS
      <3> QED BY <1>1, <3>1, Weights
    <2>4. x[0] = poly[BlobSize - 1 - i]
      BY <1>3, <2>1 DEF CirculantEntry
    <2>5. f[0] = FrMul(x[0], W(0))
      BY <1>3, <2>1, <2>2
    <2>6. BlobSize - 1 - i - 0 = BlobSize - 1 - i
      <3>1. BlobSize \in Int /\ i \in Int
        <4>1. BlobSize = h * z
          BY Halves DEF h, z
        <4>2. h * z \in Nat
          BY <1>1
        <4>3. CellSize \in Int
          BY Sizes
        <4> QED BY <4>1, <4>2, <4>3
      <3> QED BY <3>1
    <2>7. g[0] = FrMul(poly[BlobSize - 1 - i], W(0))
      <3>1. g[0] = FrMul(poly[BlobSize - 1 - i - 0 * z], W(((Cells - 0) * j) * z))
        BY <1>4, <2>1
      <3> HIDE DEF g
      <3> QED BY <2>2, <2>3, <2>6, <3>1
    <2> QED BY <2>4, <2>5, <2>7
  \* The others, in the reverse order.
  <1> DEFINE n == 2 * h - 1
             f1 == [t \in 0..(n - 1) |-> f[1 + t]]
             r == [t \in 0..(n - 1) |-> f1[(n - 1) - t]]
             g1 == [t \in 0..(h - 3) |-> g[1 + t]]
  <1>6. n \in Nat /\ 1 + n = Cells /\ h - 2 \in Nat /\ h - 2 <= n /\ 1 + (h - 2) = h - 1 /\ h - 1 \in Nat
    BY <1>1
  <1> HIDE DEF f, g
  <1>7. ASSUME NEW t \in 0..(n - 1)
        PROVE  /\ Cells - (t + 1) \in 0..(Cells - 1) /\ t + 1 \in Nat
               /\ r[t] = f[Cells - (t + 1)]
    <2>1. (n - 1) - t \in 0..(n - 1) /\ 1 + ((n - 1) - t) = Cells - (t + 1) /\ t + 1 \in Nat
          /\ Cells - (t + 1) \in 0..(Cells - 1)
      BY <1>1, <1>6
    <2>2. f1[(n - 1) - t] = f[1 + ((n - 1) - t)]
      <3> HIDE DEF n
      <3> QED BY <2>1
    <2> QED BY <2>1, <2>2
  <1>8. ASSUME NEW t \in 0..(h - 3) PROVE r[t] = g[1 + t] /\ g1[t] = g[1 + t]
    <2> DEFINE u == Cells - (t + 1)
    <2>1. t \in 0..(n - 1) /\ 1 + t \in 0..(h - 2) /\ t + 1 = 1 + t /\ t \in Nat
      BY <1>1, <1>6
    <2>2. u \in 0..(Cells - 1) /\ r[t] = f[u]
      BY <1>7, <2>1
    <2>3. u # 0 /\ u >= h + 2 /\ Cells - u = 1 + t
      BY <1>1, <2>1
    <2> HIDE DEF r, u
    <2>4. x[u] = poly[BlobSize - 1 - i - (Cells - u) * z]
      <3>1. x[u] = CirculantEntry(poly, i, u)
        BY <1>3, <2>2
      <3>2. CirculantEntry(poly, i, u) = poly[BlobSize - 1 - i - (Cells - u) * CellSize]
        BY <2>3 DEF CirculantEntry, h
      <3> QED BY <3>1, <3>2 DEF z
    <2>5. f[u] = FrMul(x[u], W((u * j) * z))
      BY <1>3, <2>2
    <2>6. g[1 + t] = FrMul(poly[BlobSize - 1 - i - (1 + t) * z], W(((Cells - (1 + t)) * j) * z))
      BY <1>4, <2>1
    <2>7. Cells - (1 + t) = u
      BY <2>1 DEF u
    <2> QED BY <2>2, <2>3, <2>4, <2>5, <2>6, <2>7
  <1>9. ASSUME NEW t \in (h - 2)..(n - 1) PROVE r[t] = 0
    <2> DEFINE u == Cells - (t + 1)
    <2>1. t \in 0..(n - 1) /\ u # 0 /\ ~(u >= h + 2)
      BY <1>1, <1>6
    <2>2. u \in 0..(Cells - 1) /\ r[t] = f[u]
      BY <1>7, <2>1
    <2> HIDE DEF u, r
    <2>3. x[u] = 0 /\ f[u] = FrMul(x[u], W((u * j) * z)) /\ (u * j) * z \in Nat
      BY <1>3, <2>1, <2>2 DEF CirculantEntry, h
    <2>4. W((u * j) * z) \in Field
      BY <2>3, Weights
    <2> QED BY <2>2, <2>3, <2>4, Neutral
  <1>10. Terms(f, Cells)
    BY <1>3 DEF Terms
  <1> DEFINE one == 1
             m == h - 2
  <1>11. /\ Terms(f, one) /\ Terms(f1, n) /\ FrSum(f, Cells) = FrAdd(FrSum(f, one), FrSum(f1, n))
    <2>1. one \in Nat /\ n \in Nat /\ \A t \in 0..(n - 1) : f1[t] = f[one + t]
      BY <1>6
    <2>4. one + n = Cells
      BY <1>6
    <2> HIDE DEF one, n, f1
    <2>2. Terms(f, one + n)
      BY <1>10, <2>4
    <2>3. /\ Terms(f, one) /\ Terms(f1, n) /\ FrSum(f, one + n) = FrAdd(FrSum(f, one), FrSum(f1, n))
      <3>1. FrSum(f, one + n) = FrAdd(FrSum(f, one), FrSum(f1, n))
        BY <2>1, <2>2, TotalSplit
      <3>2. Terms(f1, n)
        BY <2>1, <2>2, TotalSplit
      <3>3. Terms(f, one)
        BY <2>1, <2>2, TotalSplit
      <3> QED BY <3>1, <3>2, <3>3
    <2> QED BY <2>3, <2>4
  <1>12. Terms(r, n) /\ FrSum(r, n) = FrSum(f1, n)
    <2>1. \A t \in 0..(n - 1) : r[t] = f1[(n - 1) - t]
      OBVIOUS
    <2> HIDE DEF n, r, f1
    <2> QED BY <1>6, <1>11, <2>1, TotalReversed
  <1>13. FrSum(r, n) = FrSum(r, m) /\ Terms(r, m)
    <2>1. m \in Nat /\ m <= n /\ \A t \in m..(n - 1) : r[t] = 0
      BY <1>6, <1>9
    <2>2. \A t \in 0..(m - 1) : t \in 0..(n - 1)
      BY <1>6
    <2> HIDE DEF n, r, m
    <2>3. Terms(r, m)
      BY <1>12, <2>2 DEF Terms
    <2> QED BY <1>6, <1>12, <2>1, <2>3, TotalGap
  <1>14. Terms(g1, m) /\ FrSum(g1, m) = FrSum(r, m)
    <2>1. m \in Nat /\ \A t \in 0..(m - 1) : g1[t] = r[t]
      <3>1. m - 1 = h - 3
        BY <1>1
      <3> QED BY <1>6, <1>8, <3>1
    <2> HIDE DEF m, g1, r
    <2> QED BY <1>13, <2>1, TotalSame
  <1>15. Terms(g, one) /\ FrSum(g, one) = FrSum(f, one)
    <2>1. one \in Nat /\ \A t \in 0..(one - 1) : g[t] = f[t]
      <3>1. \A t \in 0..(one - 1) : t = 0
        OBVIOUS
      <3> QED BY <1>5, <3>1
    <2> HIDE DEF one
    <2> QED BY <1>11, <2>1, TotalSame
  <1>16. FrSum(g, one + m) = FrAdd(FrSum(g, one), FrSum(g1, m))
    <2>1. one \in Nat /\ m \in Nat /\ \A t \in 0..(m - 1) : g1[t] = g[one + t]
      <3>1. m - 1 = h - 3
        BY <1>1
      <3> QED BY <1>6, <3>1
    <2>2. ASSUME NEW t \in 0..((one + m) - 1) PROVE g[t] \in Field
      <3>1. CASE t = 0
        <4>1. 0 \in 0..(one - 1)
          OBVIOUS
        <4> QED BY <1>15, <3>1, <4>1 DEF Terms
      <3>2. CASE t # 0
        <4> DEFINE s == t - 1
        <4>1. s \in 0..(m - 1) /\ one + s = t
          BY <1>6, <3>2
        <4> HIDE DEF s, m, g1, one
        <4>2. g1[s] = g[t] /\ g1[s] \in Field
          BY <1>14, <2>1, <4>1 DEF Terms
        <4> QED BY <4>2
      <3> QED BY <3>1, <3>2
    <2> HIDE DEF one, m, g1
    <2>3. Terms(g, one + m)
      BY <2>2 DEF Terms
    <2> QED BY <2>1, <2>3, TotalSplit
  <1>17. one + m = h - 1
    BY <1>6
  <1> HIDE DEF one, m, g1, r, f1, n
  <1>18. FrSum(f, Cells) = FrSum(g, h - 1)
    BY <1>11, <1>12, <1>13, <1>14, <1>15, <1>16, <1>17
  <1> QED BY <1>18 DEF f, g, h

-----------------------------------------------------------------------------
(* Polynomials *)

\* The terms of the polynomial of coefficients s at X, and their sum.
Coeffs(s, X) == [j \in 0..(Len(s) - 1) |-> FrMul(s[j + 1], FrPow(X, j))]
Poly(s, X) == FrSum(Coeffs(s, X), Len(s))

\* The terms are field elements.
LEMMA CoeffsIs ==
  ASSUME NEW s \in Seq(Field), NEW X \in Field
  PROVE  \A j \in Nat : j < Len(s) =>
           /\ s[j + 1] \in Field /\ FrPow(X, j) \in Field
           /\ Coeffs(s, X)[j] = FrMul(s[j + 1], FrPow(X, j))
           /\ Coeffs(s, X)[j] \in Field
           /\ Terms(Coeffs(s, X), j + 1)
  <1>1. ASSUME NEW j \in Nat, j < Len(s)
        PROVE  /\ s[j + 1] \in Field /\ FrPow(X, j) \in Field
               /\ Coeffs(s, X)[j] = FrMul(s[j + 1], FrPow(X, j))
               /\ Coeffs(s, X)[j] \in Field
    <2>1. j \in 0..(Len(s) - 1) /\ j + 1 \in 1..Len(s)
      BY <1>1
    <2>2. s[j + 1] \in Field
      BY <2>1
    <2>3. FrPow(X, j) \in Field
      BY PowNext, Zenon
    <2>4. FrMul(s[j + 1], FrPow(X, j)) \in Field
      BY <2>2, <2>3, Closed, Zenon
    <2> QED BY <2>1, <2>2, <2>3, <2>4 DEF Coeffs
  <1>2. ASSUME NEW j \in Nat, j < Len(s) PROVE Terms(Coeffs(s, X), j + 1)
    <2> SUFFICES ASSUME NEW k \in 0..((j + 1) - 1) PROVE Coeffs(s, X)[k] \in Field
      BY DEF Terms
    <2>1. k \in Nat /\ k < Len(s)
      BY <1>2
    <2> QED BY <1>1, <2>1
  <1> QED BY <1>1, <1>2

\* Sums of sums.
LEMMA AddSwaps ==
  ASSUME NEW w \in Field, NEW x \in Field, NEW y \in Field, NEW z \in Field
  PROVE  FrAdd(FrAdd(w, x), FrAdd(y, z)) = FrAdd(FrAdd(w, y), FrAdd(x, z))
  <1>1. FrAdd(x, z) \in Field /\ FrAdd(y, z) \in Field
    BY Closed
  <1>2. FrAdd(FrAdd(w, x), FrAdd(y, z)) = FrAdd(w, FrAdd(x, FrAdd(y, z)))
    BY <1>1, AddAssociates
  <1>3. FrAdd(x, FrAdd(y, z)) = FrAdd(FrAdd(x, y), z) /\ FrAdd(y, FrAdd(x, z)) = FrAdd(FrAdd(y, x), z)
    BY AddAssociates
  <1>4. FrAdd(x, y) = FrAdd(y, x)
    BY Commutes
  <1>5. FrAdd(FrAdd(w, y), FrAdd(x, z)) = FrAdd(w, FrAdd(y, FrAdd(x, z)))
    BY <1>1, AddAssociates
  <1> QED BY <1>2, <1>3, <1>4, <1>5

\* Products of three.
LEMMA MulSwaps ==
  ASSUME NEW u \in Field, NEW c \in Field, NEW z \in Field
  PROVE  FrMul(FrMul(u, c), z) = FrMul(c, FrMul(u, z))
  <1>1. FrMul(u, c) = FrMul(c, u)
    BY Commutes
  <1> QED BY <1>1, MulAssociates

\* A coefficient of the product with x + c, times its power.
LEMMA CoefficientTimes ==
  ASSUME NEW u \in Field, NEW v \in Field, NEW c \in Field, NEW x \in Field, NEW y \in Field
  PROVE  FrMul(FrAdd(FrMul(u, c), v), FrMul(y, x))
           = FrAdd(FrMul(c, FrMul(u, FrMul(y, x))), FrMul(x, FrMul(v, y)))
  <1>1. FrMul(FrMul(u, c), FrMul(y, x)) = FrMul(c, FrMul(u, FrMul(y, x)))
    <2>1. FrMul(y, x) \in Field
      BY Closed
    <2> QED BY <2>1, MulSwaps
  <1>2. FrMul(v, FrMul(y, x)) = FrMul(x, FrMul(v, y))
    <2>1. FrMul(FrMul(v, y), x) = FrMul(v, FrMul(y, x))
      BY MulAssociates
    <2>2. FrMul(v, y) \in Field
      BY Closed
    <2> QED BY <2>1, <2>2, Commutes
  <1> DEFINE z == FrMul(y, x)
             uc == FrMul(u, c)
  <1>3. z \in Field /\ uc \in Field /\ FrAdd(uc, v) \in Field
    BY Closed
  <1>4. FrMul(FrAdd(uc, v), z) = FrAdd(FrMul(uc, z), FrMul(v, z))
    <2> HIDE DEF z, uc
    <2>1. FrMul(z, FrAdd(uc, v)) = FrAdd(FrMul(z, uc), FrMul(z, v))
      BY <1>3, FieldDistributes
    <2> QED BY <1>3, <2>1, Commutes
  <1> QED BY <1>1, <1>2, <1>3, <1>4

\* Multiplying by x - r multiplies the values by it.
LEMMA TimesLinearIs ==
  ASSUME NEW sp \in Seq(Field), Len(sp) >= 1, NEW r, NegRoot(r) \in Field, NEW X \in Field
  PROVE  /\ TimesLinear(sp, r) \in Seq(Field)
         /\ Len(TimesLinear(sp, r)) = Len(sp) + 1
         /\ Poly(LeadingOne(TimesLinear(sp, r)), X)
              = FrMul(FrAdd(X, NegRoot(r)), Poly(LeadingOne(sp), X))
  <1> DEFINE c == NegRoot(r)
             i == Len(sp)
             t == TimesLinear(sp, r)
             s == LeadingOne(sp)
             u == LeadingOne(t)
             a == Coeffs(s, X)
             b == Coeffs(u, X)
  <1>1. i \in Nat /\ i >= 1 /\ c \in Field
    OBVIOUS
  <1>2. /\ s \in Seq(Field) /\ Len(s) = i + 1 /\ s[i + 1] = 1
        /\ \A j \in 1..i : s[j] = sp[j]
    BY Closed DEF LeadingOne
  <1>3. /\ t \in Seq(Field) /\ Len(t) = i + 1
        /\ t[1] = FrMul(s[1], c)
        /\ \A j \in 2..(i + 1) : t[j] = FrAdd(FrMul(s[j], c), s[j - 1])
    <2> DEFINE n == i + 1
               f == [j \in 1..n |->
                      CASE j = n -> FrAdd(c, sp[i])
                        [] j = 1 -> FrMul(sp[1], c)
                        [] OTHER -> FrAdd(FrMul(sp[j], c), sp[j - 1])]
    <2>1. t = f
      BY DEF TimesLinear
    <2>2. f[1] = FrMul(s[1], c) /\ f[1] \in Field
      <3>1. 1 \in 1..n /\ 1 # n /\ 1 \in 1..i
        BY <1>1
      <3>2. f[1] = FrMul(sp[1], c)
        BY <3>1
      <3>3. s[1] = sp[1] /\ sp[1] \in Field
        BY <1>2, <3>1
      <3>4. FrMul(sp[1], c) \in Field
        BY <1>1, <3>3, Closed, Zenon
      <3> HIDE DEF f, s, c
      <3> QED BY <3>2, <3>3, <3>4
    <2>3. ASSUME NEW j \in 2..n
          PROVE  f[j] = FrAdd(FrMul(s[j], c), s[j - 1]) /\ f[j] \in Field
      <3>1. j \in 1..n /\ j # 1 /\ j - 1 \in 1..i /\ (j # n => j \in 1..i)
        BY <1>1
      <3>2. f[j] = IF j = n THEN FrAdd(c, sp[i]) ELSE FrAdd(FrMul(sp[j], c), sp[j - 1])
        <4>1. CASE j = n
          BY <3>1, <4>1
        <4>2. CASE j # n
          BY <3>1, <4>2
        <4> QED BY <4>1, <4>2
      <3> HIDE DEF f
      <3>3. s[j - 1] = sp[j - 1] /\ sp[j - 1] \in Field
        BY <1>2, <3>1
      <3>4. CASE j = n
        <4>1. s[j] = 1 /\ j - 1 = i /\ FrMul(1, c) = c
          BY <1>1, <1>2, <3>4, Neutral
        <4> HIDE DEF c, s, n
        <4>2. f[j] = FrAdd(c, sp[i]) /\ sp[i] \in Field
          BY <3>2, <3>3, <3>4, <4>1
        <4> QED BY <1>1, <3>3, <4>1, <4>2, Closed
      <3>5. CASE j # n
        <4>1. s[j] = sp[j] /\ sp[j] \in Field
          BY <1>2, <3>1, <3>5
        <4> HIDE DEF c, s, n
        <4>2. f[j] = FrAdd(FrMul(sp[j], c), sp[j - 1]) /\ FrMul(sp[j], c) \in Field
          BY <1>1, <3>2, <3>5, <4>1, Closed
        <4> QED BY <3>3, <4>1, <4>2, Closed, ZenonT(60)
      <3> QED BY <3>4, <3>5
    <2>4. f \in [1..n -> Field]
      <3>1. ASSUME NEW j \in 1..n PROVE f[j] \in Field
        <4>1. j = 1 \/ j \in 2..n
          OBVIOUS
        <4> HIDE DEF f
        <4> QED BY <2>2, <2>3, <4>1
      <3> QED BY <3>1
    <2>5. f \in Seq(Field) /\ Len(f) = n
      BY <1>1, <2>4
    <2> HIDE DEF f, t, s
    <2> QED BY <2>1, <2>2, <2>3, <2>5
  <1>4. /\ u \in Seq(Field) /\ Len(u) = i + 2 /\ u[i + 2] = 1
        /\ \A j \in 1..(i + 1) : u[j] = t[j]
    <2> HIDE DEF t, s, c
    <2> QED BY <1>1, <1>3, Closed DEF LeadingOne
  <1> HIDE DEF c, i, t, s, u
  <1>5. /\ Terms(a, i + 1) /\ \A j \in Nat : j <= i => a[j] = FrMul(s[j + 1], FrPow(X, j))
        /\ \A j \in Nat : j <= i => s[j + 1] \in Field /\ a[j] \in Field /\ Terms(a, j + 1)
    <2>1. \A j \in Nat : j <= i <=> j < Len(s)
      BY <1>1, <1>2
    <2>2. i <= i
      BY <1>1
    <2> QED BY <1>1, <1>2, <2>1, <2>2, CoeffsIs
  <1>6. \A j \in Nat : j <= i + 1 =>
          b[j] = FrMul(u[j + 1], FrPow(X, j)) /\ b[j] \in Field /\ Terms(b, j + 1)
    <2>1. \A j \in Nat : j <= i + 1 <=> j < Len(u)
      BY <1>1, <1>4
    <2> QED BY <1>4, <2>1, CoeffsIs
  <1> HIDE DEF a, b
  <1>7. b[0] = FrMul(c, a[0])
    <2>1. 1 \in 1..(i + 1) /\ 0 <= i /\ 0 <= i + 1 /\ 0 + 1 = 1 /\ 0 \in Nat
      BY <1>1
    <2>2. b[0] = FrMul(FrMul(s[1], c), FrPow(X, 0)) /\ a[0] = FrMul(s[1], FrPow(X, 0)) /\ s[1] \in Field
      BY <1>3, <1>4, <1>5, <1>6, <2>1
    <2>3. FrPow(X, 0) \in Field
      BY <2>1, PowNext
    <2>4. FrMul(FrMul(s[1], c), FrPow(X, 0)) = FrMul(c, FrMul(s[1], FrPow(X, 0)))
      BY <1>1, <2>2, <2>3, MulSwaps, Zenon
    <2> QED BY <2>2, <2>4
  <1>8. ASSUME NEW m \in Nat, m + 1 <= i
        PROVE  b[m + 1] = FrAdd(FrMul(c, a[m + 1]), FrMul(X, a[m]))
    <2> DEFINE k == m + 1
               y == FrPow(X, m)
    <2>1. /\ k \in Nat /\ k <= i /\ k <= i + 1 /\ m <= i
          /\ k + 1 \in 2..(i + 1) /\ k + 1 \in 1..(i + 1) /\ (k + 1) - 1 = m + 1
      BY <1>1, <1>8
    <2>2. y \in Field /\ FrPow(X, k) = FrMul(y, X)
      BY PowNext
    <2> HIDE DEF k, y
    <2>3. s[m + 1] \in Field /\ s[k + 1] \in Field /\ a[m] = FrMul(s[m + 1], y) /\ a[k] = FrMul(s[k + 1], FrMul(y, X))
      BY <1>5, <2>1, <2>2 DEF y
    <2>4. b[k] = FrMul(FrAdd(FrMul(s[k + 1], c), s[m + 1]), FrMul(y, X))
      BY <1>3, <1>4, <1>6, <2>1, <2>2
    <2>5. b[k] = FrAdd(FrMul(c, a[k]), FrMul(X, a[m]))
      <3>1. FrMul(FrAdd(FrMul(s[k + 1], c), s[m + 1]), FrMul(y, X))
              = FrAdd(FrMul(c, FrMul(s[k + 1], FrMul(y, X))), FrMul(X, FrMul(s[m + 1], y)))
        <4> DEFINE p == s[k + 1]
                   q == s[m + 1]
        <4>1. p \in Field /\ q \in Field
          BY <2>3
        <4> HIDE DEF p, q
        <4>2. FrMul(FrAdd(FrMul(p, c), q), FrMul(y, X))
                = FrAdd(FrMul(c, FrMul(p, FrMul(y, X))), FrMul(X, FrMul(q, y)))
          BY <1>1, <2>2, <4>1, CoefficientTimes
        <4> QED BY <4>2 DEF p, q
      <3> QED BY <2>3, <2>4, <3>1
    <2> QED BY <2>5 DEF k
  <1>9. b[i + 1] = FrMul(X, a[i])
    <2> DEFINE k == i + 1
               y == FrPow(X, i)
    <2>1. k \in Nat /\ k <= i + 1 /\ k + 1 = i + 2 /\ i <= i
      BY <1>1
    <2>2. y \in Field /\ FrPow(X, k) = FrMul(y, X) /\ FrPow(X, k) \in Field
      BY <1>1, <2>1, PowNext
    <2> HIDE DEF k, y
    <2>3. a[i] = FrMul(1, y) /\ b[k] = FrMul(1, FrMul(y, X))
      BY <1>1, <1>2, <1>4, <1>5, <1>6, <2>1, <2>2 DEF y
    <2>4. a[i] = y /\ b[k] = FrMul(y, X)
      BY <2>2, <2>3, Neutral
    <2> QED BY <2>2, <2>4, Commutes DEF k
  <1> DEFINE T == {m \in Nat : m <= i =>
               FrSum(b, m + 1) = FrAdd(FrMul(c, FrSum(a, m + 1)), FrMul(X, FrSum(a, m)))}
  <1>10. 0 \in T
    <2>1. FrSum(b, 0) = 0 /\ FrSum(a, 0) = 0 /\ 0 \in Nat /\ 0 + 1 = 1 /\ 0 <= i /\ 0 <= i + 1
      BY <1>1, TotalNone
    <2>2. Terms(a, 0 + 1) /\ Terms(b, 0 + 1) /\ a[0] \in Field
      BY <1>5, <1>6, <2>1
    <2>3. FrSum(a, 0 + 1) = FrAdd(FrSum(a, 0), a[0]) /\ FrSum(b, 0 + 1) = FrAdd(FrSum(b, 0), b[0])
      BY <2>1, <2>2, TotalNext, Zenon
    <2>4. FrMul(c, a[0]) \in Field
      BY <1>1, <2>2, Closed
    <2>5. FrSum(a, 0 + 1) = a[0] /\ FrSum(b, 0 + 1) = FrMul(c, a[0]) /\ FrMul(X, FrSum(a, 0)) = 0
      BY <1>7, <2>1, <2>2, <2>3, <2>4, Neutral
    <2>6. FrAdd(FrMul(c, a[0]), 0) = FrMul(c, a[0])
      BY <2>4, Neutral
    <2> QED BY <2>5, <2>6
  <1>11. ASSUME NEW m \in Nat, m \in T PROVE m + 1 \in T
    <2> SUFFICES ASSUME m + 1 <= i
                 PROVE  FrSum(b, (m + 1) + 1)
                          = FrAdd(FrMul(c, FrSum(a, (m + 1) + 1)), FrMul(X, FrSum(a, m + 1)))
      OBVIOUS
    <2> DEFINE k == m + 1
    <2>1. k \in Nat /\ k <= i /\ k <= i + 1 /\ m <= i
      BY <1>1
    <2>2. FrSum(b, k) = FrAdd(FrMul(c, FrSum(a, k)), FrMul(X, FrSum(a, m)))
      BY <1>11, <2>1
    <2>3. b[k] = FrAdd(FrMul(c, a[k]), FrMul(X, a[m]))
      BY <1>8
    <2>4. FrSum(a, k) = FrAdd(FrSum(a, m), a[m]) /\ FrSum(a, m) \in Field /\ a[m] \in Field
      <3>1. Terms(a, m + 1)
        BY <1>5, <2>1
      <3> QED BY <3>1, TotalNext, Zenon
    <2> HIDE DEF k
    <2>5. Terms(a, k + 1) /\ Terms(b, k + 1)
      BY <1>5, <1>6, <2>1
    <2>6. /\ FrSum(a, k + 1) = FrAdd(FrSum(a, k), a[k]) /\ FrSum(b, k + 1) = FrAdd(FrSum(b, k), b[k])
          /\ FrSum(a, k) \in Field /\ a[k] \in Field
      BY <2>1, <2>5, TotalNext, Zenon
    <2>7. FrAdd(FrSum(b, k), b[k])
            = FrAdd(FrMul(c, FrAdd(FrSum(a, k), a[k])), FrMul(X, FrAdd(FrSum(a, m), a[m])))
      <3>1. FrAdd(FrAdd(FrMul(c, FrSum(a, k)), FrMul(X, FrSum(a, m))),
                  FrAdd(FrMul(c, a[k]), FrMul(X, a[m])))
              = FrAdd(FrMul(c, FrAdd(FrSum(a, k), a[k])), FrMul(X, FrAdd(FrSum(a, m), a[m])))
        <4> DEFINE A == FrSum(a, k)
                   B == FrSum(a, m)
                   p == a[k]
                   q == a[m]
        <4>1. A \in Field /\ B \in Field /\ p \in Field /\ q \in Field
          BY <2>4, <2>6
        <4> HIDE DEF A, B, p, q
        <4>2. FrAdd(FrAdd(FrMul(c, A), FrMul(X, B)), FrAdd(FrMul(c, p), FrMul(X, q)))
                = FrAdd(FrMul(c, FrAdd(A, p)), FrMul(X, FrAdd(B, q)))
          <5>1. FrMul(c, FrAdd(A, p)) = FrAdd(FrMul(c, A), FrMul(c, p))
            BY <1>1, <4>1, FieldDistributes
          <5>2. FrMul(X, FrAdd(B, q)) = FrAdd(FrMul(X, B), FrMul(X, q))
            BY <4>1, FieldDistributes
          <5>3. /\ FrMul(c, A) \in Field /\ FrMul(c, p) \in Field
                /\ FrMul(X, B) \in Field /\ FrMul(X, q) \in Field
            BY <1>1, <4>1, Closed
          <5> QED BY <5>1, <5>2, <5>3, AddSwaps
        <4> QED BY <4>2 DEF A, B, p, q
      <3> QED BY <2>2, <2>3, <3>1, Zenon
    <2>8. FrSum(b, k + 1) = FrAdd(FrMul(c, FrSum(a, k + 1)), FrMul(X, FrSum(a, k)))
      BY <2>4, <2>6, <2>7, Zenon
    <2> QED BY <2>8 DEF k
  <1>12. FrSum(b, i + 1) = FrAdd(FrMul(c, FrSum(a, i + 1)), FrMul(X, FrSum(a, i)))
    <2>1. Nat \subseteq T
      <3> HIDE DEF T
      <3> QED BY <1>10, <1>11, Induction
    <2>2. i <= i /\ i \in T
      BY <1>1, <2>1
    <2> QED BY <2>2
  <1>13. FrSum(b, i + 2) = FrMul(FrAdd(X, c), FrSum(a, i + 1))
    <2> DEFINE k == i + 1
               A == FrSum(a, k)
    <2>1. k \in Nat /\ k <= i + 1 /\ k + 1 = i + 2 /\ i <= i
      BY <1>1
    <2>2. Terms(a, i + 1) /\ Terms(b, k + 1)
      BY <1>5, <1>6, <2>1
    <2>3. A = FrAdd(FrSum(a, i), a[i]) /\ A \in Field /\ FrSum(a, i) \in Field /\ a[i] \in Field
      BY <1>1, <2>2, TotalNext, Zenon
    <2>4. FrSum(b, k) = FrAdd(FrMul(c, A), FrMul(X, FrSum(a, i))) /\ b[k] = FrMul(X, a[i])
      BY <1>9, <1>12
    <2> HIDE DEF k, A
    <2>5. FrSum(b, k + 1) = FrAdd(FrSum(b, k), b[k])
      BY <2>1, <2>2, TotalNext, Zenon
    <2>6. /\ FrMul(X, A) = FrAdd(FrMul(X, FrSum(a, i)), FrMul(X, a[i]))
          /\ FrMul(c, A) \in Field /\ FrMul(X, FrSum(a, i)) \in Field /\ FrMul(X, a[i]) \in Field
      <3>1. FrMul(X, FrAdd(FrSum(a, i), a[i])) = FrAdd(FrMul(X, FrSum(a, i)), FrMul(X, a[i]))
        BY <2>3, FieldDistributes, Zenon
      <3>2. FrMul(c, A) \in Field /\ FrMul(X, FrSum(a, i)) \in Field /\ FrMul(X, a[i]) \in Field
        BY <1>1, <2>3, Closed, Zenon
      <3> QED BY <2>3, <3>1, <3>2, Zenon
    <2>7. FrSum(b, k + 1) = FrAdd(FrMul(c, A), FrMul(X, A))
      BY <2>4, <2>5, <2>6, AddAssociates
    <2>8. FrMul(FrAdd(X, c), A) = FrAdd(FrMul(c, A), FrMul(X, A))
      <3>1. FrAdd(X, c) = FrAdd(c, X) /\ FrAdd(c, X) \in Field
        BY <1>1, Commutes, Closed
      <3>2. FrMul(A, FrAdd(c, X)) = FrAdd(FrMul(A, c), FrMul(A, X))
        BY <1>1, <2>3, FieldDistributes
      <3>3. FrMul(FrAdd(c, X), A) = FrMul(A, FrAdd(c, X)) /\ FrMul(A, c) = FrMul(c, A) /\ FrMul(A, X) = FrMul(X, A)
        BY <1>1, <2>3, <3>1, Commutes
      <3> QED BY <3>1, <3>2, <3>3
    <2> QED BY <2>1, <2>7, <2>8 DEF A, k
  <1>14. Poly(u, X) = FrSum(b, i + 2) /\ Poly(s, X) = FrSum(a, i + 1)
    BY <1>2, <1>4 DEF Poly, a, b
  <1> QED BY <1>3, <1>13, <1>14 DEF c, i, t, s, u

\* The polynomials without roots, and with one.
LEMMA PolyOne == ASSUME NEW X \in Field PROVE Poly(<<1>>, X) = 1
  <1> DEFINE s == <<1>>
             a == Coeffs(s, X)
             zero == 0
  <1>1. s \in Seq(Field) /\ Len(s) = 1 /\ zero + 1 = 1 /\ zero \in Nat /\ zero < 1 /\ s[zero + 1] = 1
    BY Closed
  <1> HIDE DEF s
  <1>2. a[zero] = FrMul(1, FrPow(X, zero)) /\ Terms(a, zero + 1)
    <2> HIDE DEF zero
    <2> QED BY <1>1, CoeffsIs
  <1>3. a[zero] = 1
    BY <1>2, PowNext, Neutral, Closed
  <1>4. FrSum(a, zero + 1) = FrAdd(FrSum(a, zero), a[zero])
    <2> HIDE DEF zero, a
    <2> QED BY <1>1, <1>2, TotalNext, Zenon
  <1>5. FrSum(a, zero) = 0
    BY TotalNone
  <1>6. Poly(s, X) = FrSum(a, zero + 1)
    BY <1>1 DEF Poly
  <1>7. FrAdd(0, 1) = 1
    BY Closed, Neutral
  <1> HIDE DEF a
  <1> QED BY <1>3, <1>4, <1>5, <1>6, <1>7 DEF s

\* The polynomial x + c.
LEMMA PolyLinear ==
  ASSUME NEW c \in Field, NEW X \in Field PROVE Poly(LeadingOne(<<c>>), X) = FrAdd(X, c)
  <1> DEFINE s == LeadingOne(<<c>>)
             a == Coeffs(s, X)
             zero == 0
             one == 1
  <1>1. s \in Seq(Field) /\ Len(s) = 2 /\ s[1] = c /\ s[2] = 1
    BY Closed DEF LeadingOne
  <1>2. /\ zero \in Nat /\ zero + 1 = one /\ zero < 2 /\ one \in Nat /\ one + 1 = 2 /\ one < 2
    OBVIOUS
  <1> HIDE DEF s
  <1>3. /\ a[zero] = FrMul(c, FrPow(X, zero)) /\ Terms(a, zero + 1)
        /\ a[one] = FrMul(1, FrPow(X, one)) /\ Terms(a, one + 1)
    <2>1. s[zero + 1] = c /\ s[one + 1] = 1
      BY <1>1
    <2> HIDE DEF zero, one, a
    <2> QED BY <1>1, <1>2, <2>1, CoeffsIs DEF a
  <1>4. FrPow(X, zero) = 1 /\ FrPow(X, one) = X
    <2>1. FrPow(X, zero) = 1 /\ FrPow(X, zero + 1) = FrMul(FrPow(X, zero), X)
      BY <1>2, PowNext
    <2> QED BY <1>2, <2>1, Neutral
  <1>5. a[zero] = c /\ a[one] = X
    BY <1>3, <1>4, Neutral
  <1>6. /\ FrSum(a, zero + 1) = FrAdd(FrSum(a, zero), a[zero])
        /\ FrSum(a, one + 1) = FrAdd(FrSum(a, one), a[one])
    <2> HIDE DEF zero, one, a
    <2> QED BY <1>2, <1>3, TotalNext, Zenon
  <1>7. FrSum(a, zero) = 0
    BY TotalNone
  <1>8. Poly(s, X) = FrSum(a, one + 1)
    BY <1>1, <1>2 DEF Poly
  <1> HIDE DEF a, s
  <1>9. FrSum(a, one) = c
    BY <1>2, <1>5, <1>6, <1>7, Neutral
  <1>10. Poly(s, X) = FrAdd(c, X)
    BY <1>5, <1>6, <1>8, <1>9
  <1> QED BY <1>10, Commutes DEF s

\* The root of a cell.
LEMMA CellRoot ==
  ASSUME NEW r \in 0..(Cells - 1)
  PROVE  /\ r * CellSize \in Exponents /\ NegRoot(r) \in Field
         /\ \A X \in Field : FrAdd(X, NegRoot(r)) = 0 <=> X = Pw(r * CellSize)
  <1>1. r * CellSize \in Exponents
    <2> DEFINE C == Cells
               S == CellSize
    <2>1. C \in Nat /\ S \in Nat \ {0} /\ DomainSize = C * S /\ r \in Nat /\ r <= C - 1
      BY Sizes
    <2> HIDE DEF C, S
    <2>2. (C - 1 - r) * S >= 0 /\ r * S \in Nat /\ C * S = r * S + (C - 1 - r) * S + S
      <3>1. C - 1 - r \in Nat
        BY <2>1
      <3>2. C = r + ((C - 1 - r) + 1)
        BY <2>1
      <3> DEFINE d == C - 1 - r
      <3>3. d \in Nat /\ C = r + (d + 1)
        BY <3>1, <3>2
      <3> HIDE DEF d
      <3>4. (r + (d + 1)) * S = r * S + d * S + S /\ d * S \in Nat /\ r * S \in Nat
        BY <2>1, <3>3
      <3> QED BY <3>3, <3>4 DEF d
    <2> DEFINE x == r * S
               y == (C - 1 - r) * S
               z == C * S
    <2>3. y \in Int
      BY <2>1
    <2>4. y >= 0 /\ x \in Nat /\ z = x + y + S /\ DomainSize = z
      BY <2>1, <2>2
    <2> HIDE DEF x, y, z
    <2>5. x \in 0..(DomainSize - 1)
      BY <2>1, <2>3, <2>4
    <2> QED BY <2>5 DEF x, S, Exponents
  <1>2. RootsFwd[r * CellSize] = Pw(r * CellSize) /\ Pw(r * CellSize) \in Field
    BY <1>1, RootEntries
  <1>3. NegRoot(r) = FrNeg(Pw(r * CellSize))
    BY <1>2 DEF NegRoot
  <1>4. NegRoot(r) \in Field
    BY <1>2, <1>3, Closed
  <1>5. \A X \in Field : FrAdd(X, NegRoot(r)) = 0 <=> X = Pw(r * CellSize)
    BY <1>2, <1>3, Opposite
  <1> QED BY <1>1, <1>4, <1>5

\* What the loop over the list makes: the roots of the product are those of its factors.
LEMMA ShortIs ==
  ASSUME NEW list \in Seq(0..(Cells - 1)), NEW X \in Field
  PROVE  /\ Short(list) \in Seq(Field) /\ Len(Short(list)) = Len(list) + 1
         /\ Poly(Short(list), X) = 0 <=> \E k \in 1..Len(list) : X = Pw(list[k] * CellSize)
  <1>1. CASE list = <<>>
    <2>1. Short(list) = <<1>> /\ Len(list) = 0 /\ 1..0 = {}
      BY <1>1 DEF Short
    <2>2. <<1>> \in Seq(Field) /\ Len(<<1>>) = 1
      BY Closed
    <2> QED BY <2>1, <2>2, PolyOne
  <1>2. CASE list # <<>>
    <2> DEFINE L == Len(list)
               Step(h) == [i \in 1..L |->
                 IF i = 1 THEN <<NegRoot(list[1])>> ELSE TimesLinear(h[i - 1], list[i])]
               r == CHOOSE h : h = Step(h)
    <2>1. L \in Nat /\ L >= 1 /\ 1 \in 1..L /\ L \in 1..L /\ \A k \in 1..L : list[k] \in 0..(Cells - 1)
      <3> DEFINE S == 0..(Cells - 1)
      <3>1. list \in Seq(S)
        OBVIOUS
      <3> HIDE DEF S
      <3>2. L \in Nat /\ \A k \in 1..L : list[k] \in S
        BY <3>1
      <3>3. L # 0
        BY <1>2, <3>1
      <3> HIDE DEF L
      <3>4. L >= 1 /\ 1 \in 1..L /\ L \in 1..L
        BY <3>2, <3>3
      <3> QED BY <3>2, <3>4 DEF S
    <2>2. Short(list) = LeadingOne(r[L])
      BY <1>2 DEF Short
    <2>3. \A k \in 1..L : NegRoot(list[k]) \in Field
      BY <2>1, CellRoot
    <2>4. \E h : h = Step(h)
      <3> DEFINE N == L - 1
                 S == {sp \in Seq(Field) : Len(sp) >= 1}
                 first == <<NegRoot(list[1])>>
                 G == [x \in (1..N) \X S |-> TimesLinear(x[2], list[x[1] + 1])]
      <3>1. N \in Nat /\ N + 1 = L /\ \A n \in 1..N : n + 1 \in 1..L
        BY <2>1
      <3>2. first \in S
        BY <2>1, <2>3
      <3>3. G \in [(1..N) \X S -> S]
        <4>1. ASSUME NEW n \in 1..N, NEW sp \in S PROVE TimesLinear(sp, list[n + 1]) \in S
          <5>1. NegRoot(list[n + 1]) \in Field /\ sp \in Seq(Field) /\ Len(sp) >= 1
            BY <2>3, <3>1
          <5>2. TimesLinear(sp, list[n + 1]) \in Seq(Field) /\ Len(TimesLinear(sp, list[n + 1])) = Len(sp) + 1
            BY <5>1, TimesLinearIs
          <5> QED BY <5>1, <5>2
        <4> HIDE DEF S, N
        <4> QED BY <4>1
      <3>4. PICK f \in [0..N -> S] : Follows(f, N, first, G)
        <4> HIDE DEF N, S, first, G
        <4> QED BY <3>1, <3>2, <3>3, Recursion, Zenon
      <3> DEFINE h == [i \in 1..L |-> f[i - 1]]
      <3>5. ASSUME NEW i \in 1..L
            PROVE  h[i] = IF i = 1 THEN <<NegRoot(list[1])>> ELSE TimesLinear(h[i - 1], list[i])
        <4>1. CASE i = 1
          <5>1. h[i] = f[0]
            BY <4>1
          <5> QED BY <3>4, <4>1, <5>1 DEF Follows
        <4>2. CASE i # 1
          <5> DEFINE n == i - 1
          <5>1. n \in 1..N /\ n + 1 = i /\ n - 1 \in 0..N /\ n \in 1..L /\ n # 0
            BY <2>1, <4>2
          <5>2. h[i] = f[n] /\ h[n] = f[n - 1]
            BY <5>1
          <5> HIDE DEF h, n, S, N
          <5>3. f[n] = G[<<n, f[n - 1]>>] /\ <<n, f[n - 1]>> \in (1..N) \X S
            BY <3>4, <5>1 DEF Follows
          <5>4. G[<<n, f[n - 1]>>] = TimesLinear(f[n - 1], list[n + 1])
            BY <5>3
          <5> QED BY <4>2, <5>1, <5>2, <5>3, <5>4 DEF n
        <4> QED BY <4>1, <4>2
      <3>6. h = Step(h)
        <4>1. h = [i \in 1..L |-> h[i]]
          OBVIOUS
        <4> HIDE DEF h
        <4> QED BY <3>5, <4>1
      <3> HIDE DEF h
      <3> QED BY <3>6
    <2>5. r = Step(r)
      <3> HIDE DEF Step
      <3> QED BY <2>4
    <2> HIDE DEF r, L
    <2>6. /\ r[1] = <<NegRoot(list[1])>>
          /\ \A i \in 1..L : i # 1 => r[i] = TimesLinear(r[i - 1], list[i])
      BY <2>1, <2>5
    <2> HIDE DEF Step
    <2> DEFINE Good(n) == /\ r[n] \in Seq(Field) /\ Len(r[n]) = n
                          /\ Poly(LeadingOne(r[n]), X) \in Field
                          /\ Poly(LeadingOne(r[n]), X) = 0
                               <=> \E k \in 1..n : X = Pw(list[k] * CellSize)
               T == {n \in Nat : n + 1 <= L => Good(n + 1)}
    <2>7. 0 \in T
      <3> DEFINE c == NegRoot(list[1])
      <3>1. c \in Field /\ list[1] \in 0..(Cells - 1)
        BY <2>1, <2>3
      <3>2. FrAdd(X, c) = 0 <=> X = Pw(list[1] * CellSize)
        BY <3>1, CellRoot
      <3> HIDE DEF c
      <3>3. Poly(LeadingOne(<<c>>), X) = FrAdd(X, c) /\ FrAdd(X, c) \in Field
        BY <3>1, PolyLinear, Closed
      <3>4. <<c>> \in Seq(Field) /\ Len(<<c>>) = 1 /\ 1..1 = {1}
        BY <3>1
      <3>5. r[1] = <<c>>
        BY <2>6 DEF c
      <3>6. Good(1)
        BY <3>2, <3>3, <3>4, <3>5
      <3> HIDE DEF Good
      <3> QED BY <3>6
    <2>8. ASSUME NEW n \in Nat, n \in T PROVE n + 1 \in T
      <3> SUFFICES ASSUME (n + 1) + 1 <= L PROVE Good((n + 1) + 1)
        OBVIOUS
      <3> DEFINE m == n + 1
                 i == m + 1
                 c == NegRoot(list[i])
                 A == Poly(LeadingOne(r[m]), X)
                 B == Poly(LeadingOne(r[i]), X)
      <3>1. m \in Nat /\ m >= 1 /\ m <= L /\ i \in 1..L /\ i # 1 /\ i - 1 = m
        BY <2>1
      <3>2. r[m] \in Seq(Field) /\ Len(r[m]) = m /\ A \in Field
            /\ (A = 0 <=> \E k \in 1..m : X = Pw(list[k] * CellSize))
        BY <2>8, <3>1
      <3>3. 1..i = (1..m) \cup {i}
        BY <3>1
      <3> HIDE DEF m, i
      <3>4. r[i] = TimesLinear(r[m], list[i]) /\ c \in Field /\ list[i] \in 0..(Cells - 1)
        BY <2>1, <2>3, <2>6, <3>1
      <3>5. /\ TimesLinear(r[m], list[i]) \in Seq(Field)
            /\ Len(TimesLinear(r[m], list[i])) = Len(r[m]) + 1
            /\ Poly(LeadingOne(TimesLinear(r[m], list[i])), X) = FrMul(FrAdd(X, c), A)
        BY <3>1, <3>2, <3>4, TimesLinearIs
      <3>6. FrAdd(X, c) = 0 <=> X = Pw(list[i] * CellSize)
        BY <3>4, CellRoot
      <3> HIDE DEF A, c
      <3> DEFINE F == FrAdd(X, c)
      <3>7. F \in Field
        BY <3>4, Closed
      <3>8. B = FrMul(F, A) /\ r[i] \in Seq(Field) /\ Len(r[i]) = i
        BY <3>1, <3>2, <3>4, <3>5 DEF i
      <3> HIDE DEF F, B
      <3>9. B \in Field /\ (B = 0 <=> F = 0 \/ A = 0)
        BY <3>2, <3>7, <3>8, NoZeroDivisors, Neutral, Closed
      <3>10. B = 0 <=> \E k \in 1..i : X = Pw(list[k] * CellSize)
        BY <3>2, <3>3, <3>6, <3>9 DEF F
      <3> QED BY <3>8, <3>9, <3>10 DEF B, i, m
    <2>9. Good(L)
      <3>1. Nat \subseteq T
        <4> HIDE DEF T
        <4> QED BY <2>7, <2>8, Induction
      <3>2. L - 1 \in Nat /\ (L - 1) + 1 = L /\ L <= L
        BY <2>1
      <3> HIDE DEF Good
      <3>3. L - 1 \in T
        <4> HIDE DEF T
        <4> QED BY <3>1, <3>2
      <3> QED BY <3>2, <3>3
    <2>10. LeadingOne(r[L]) \in Seq(Field) /\ Len(LeadingOne(r[L])) = L + 1
      BY <2>9, Closed DEF LeadingOne
    <2> QED BY <2>2, <2>9, <2>10 DEF L
  <1> QED BY <1>1, <1>2

-----------------------------------------------------------------------------
(* Its values on the domain *)

\* The terms of the value of a polynomial at Root^e.
Values(poly, e) == [i \in Exponents |-> FrMul(poly[i], Pw(i * e))]

\* The value of a polynomial on the domain is their sum.
LEMMA ValueIs ==
  ASSUME NEW poly \in [Exponents -> Field], NEW e \in Exponents
  PROVE  /\ \A i \in Exponents : Values(poly, e)[i] = FrMul(poly[i], Pw(i * e))
                                 /\ Values(poly, e)[i] \in Field
         /\ ValueAt(poly, e) = FrSum(Values(poly, e), DomainSize)
  <1> DEFINE n == DomainSize
             Entry(i) == RootPowers[((i * e) % DomainSize) + 1]
  <1>1. n \in Nat /\ Exponents = 0..(n - 1) /\ Cardinality(Exponents) = n
    <2>1. Cardinality(0..(n - 1)) = IF 0 > n - 1 THEN 0 ELSE (n - 1) - 0 + 1
      <3>1. 0 \in Int /\ n - 1 \in Int
        BY Sizes
      <3> HIDE DEF n
      <3> QED BY <3>1, FS_Interval
    <2> QED BY <2>1, Sizes DEF Exponents
  <1>2. ASSUME NEW i \in Exponents
        PROVE  FrMul(poly[i], Pw(i * e)) \in Field /\ Entry(i) = Pw(i * e)
    <2>1. i \in Nat /\ e \in Nat
      BY <1>1
    <2>2. i * e \in Nat
      BY <2>1
    <2> DEFINE k == i * e
    <2> HIDE DEF k
    <2>3. RootPowers[(k % DomainSize) + 1] = Pw(k) /\ Pw(k) \in Field
      <3>1. k \in Nat
        BY <2>2 DEF k
      <3> QED BY <3>1, PwReduced, PwAdds, RootEntries
    <2>4. FrMul(poly[i], Pw(k)) \in Field
      BY <2>3, Closed
    <2> QED BY <2>3, <2>4 DEF k
  <1>3. DOMAIN poly = Exponents
    OBVIOUS
  <1>4. Values(poly, e) = [i \in DOMAIN poly |-> FrMul(poly[i], Entry(i))]
    <2> HIDE DEF Entry
    <2> QED BY <1>2, <1>3 DEF Values
  <1>5. ValueAt(poly, e) = FrSum(Values(poly, e), n)
    BY <1>1, <1>3, <1>4 DEF ValueAt
  <1> QED BY <1>2, <1>5 DEF Values

-----------------------------------------------------------------------------
(* Powers and inverses of any element *)

\* Inverses, and the 0 that FrInv makes of 0, are field elements.
LEMMA InverseIs ==
  ASSUME NEW a \in Field
  PROVE  FrInv(a) \in Field /\ (a # 0 => FrMul(a, FrInv(a)) = 1)
  <1> DEFINE n == P - 1
             f == [x \in 1..n |-> FrPow(x, P - 2)]
  <1>1. n \in Nat /\ P - 2 \in Nat /\ 1..n \subseteq Field /\ (a # 0 => a \in 1..n)
    BY PrimeIs DEF Field
  <1>2. f \in [1..n -> Field]
    <2> SUFFICES ASSUME NEW x \in 1..n PROVE FrPow(x, P - 2) \in Field
      OBVIOUS
    <2>1. x \in Field
      BY <1>1
    <2> QED BY <1>1, <2>1, PowNext
  <1>3. Inverses = f
    <2>1. Inverses = <<>> \o f
      BY DEF Inverses
    <2> HIDE DEF f, n
    <2> QED BY <1>1, <1>2, <2>1, Tuple
  <1>4. a # 0 => FrInv(a) = f[a]
    BY <1>3 DEF FrInv
  <1>5. a = 0 => FrInv(a) = 0
    BY DEF FrInv
  <1>6. a # 0 => FrMul(a, FrInv(a)) = 1
    <2>1. \A x \in 1..(P - 1) : FrMul(x, FrInv(x)) = 1
      BY DomainAssumption
    <2> QED BY <1>1, <2>1
  <1> HIDE DEF f, n
  <1> QED BY <1>1, <1>2, <1>4, <1>5, <1>6, Closed

\* Powers of one, of a product, and of a power.
LEMMA PowsOf ==
  ASSUME NEW a \in Field, NEW b \in Field, NEW m \in Nat, NEW n \in Nat
  PROVE  /\ FrPow(1, n) = 1
         /\ FrPow(FrMul(a, b), n) = FrMul(FrPow(a, n), FrPow(b, n))
         /\ FrPow(FrPow(a, m), n) = FrPow(a, m * n)
  <1> DEFINE T == {k \in Nat : /\ FrPow(1, k) = 1
                               /\ FrPow(FrMul(a, b), k) = FrMul(FrPow(a, k), FrPow(b, k))
                               /\ FrPow(FrPow(a, m), k) = FrPow(a, m * k)}
  <1>1. 1 \in Field /\ FrMul(a, b) \in Field /\ FrPow(a, m) \in Field
    BY Closed, PowNext
  <1>2. 0 \in T
    <2>1. m * 0 = 0
      OBVIOUS
    <2>2. /\ FrPow(1, 0) = 1 /\ FrPow(FrMul(a, b), 0) = 1 /\ FrPow(a, 0) = 1 /\ FrPow(b, 0) = 1
          /\ FrPow(FrPow(a, m), 0) = 1
      BY <1>1, PowNext
    <2>3. FrMul(1, 1) = 1
      BY <1>1, Neutral
    <2> QED BY <2>1, <2>2, <2>3
  <1>3. ASSUME NEW k \in Nat, k \in T PROVE k + 1 \in T
    <2>1. m * (k + 1) = m * k + m /\ m * k \in Nat /\ k + 1 \in Nat
      OBVIOUS
    <2>2. /\ FrPow(1, k + 1) = FrMul(FrPow(1, k), 1)
          /\ FrPow(FrMul(a, b), k + 1) = FrMul(FrPow(FrMul(a, b), k), FrMul(a, b))
          /\ FrPow(a, k + 1) = FrMul(FrPow(a, k), a) /\ FrPow(a, k) \in Field
          /\ FrPow(b, k + 1) = FrMul(FrPow(b, k), b) /\ FrPow(b, k) \in Field
          /\ FrPow(FrPow(a, m), k + 1) = FrMul(FrPow(FrPow(a, m), k), FrPow(a, m))
      BY <1>1, PowNext
    <2>3. FrPow(a, m * k + m) = FrMul(FrPow(a, m * k), FrPow(a, m))
      BY <2>1, PowAdds
    <2>4. FrMul(1, 1) = 1
      BY <1>1, Neutral
    <2>5. FrMul(FrMul(FrPow(a, k), FrPow(b, k)), FrMul(a, b))
            = FrMul(FrMul(FrPow(a, k), a), FrMul(FrPow(b, k), b))
      <3> DEFINE x == FrPow(a, k)
                 y == FrPow(b, k)
      <3>1. x \in Field /\ y \in Field
        BY <2>2
      <3> HIDE DEF x, y
      <3>2. FrMul(y, FrMul(a, b)) = FrMul(a, FrMul(y, b))
        <4>1. FrMul(y, FrMul(a, b)) = FrMul(FrMul(y, a), b) /\ FrMul(FrMul(a, y), b) = FrMul(a, FrMul(y, b))
          BY <3>1, MulAssociates
        <4>2. FrMul(y, a) = FrMul(a, y)
          BY <3>1, Commutes
        <4> QED BY <4>1, <4>2
      <3>3. FrMul(FrMul(x, y), FrMul(a, b)) = FrMul(x, FrMul(y, FrMul(a, b)))
        BY <1>1, <3>1, MulAssociates
      <3>4. FrMul(FrMul(x, a), FrMul(y, b)) = FrMul(x, FrMul(a, FrMul(y, b)))
        BY <3>1, Closed, MulAssociates
      <3> QED BY <3>2, <3>3, <3>4 DEF x, y
    <2> QED BY <1>3, <2>1, <2>2, <2>3, <2>4, <2>5
  <1>4. n \in T
    <2> HIDE DEF T
    <2> QED BY <1>2, <1>3, Induction
  <1> QED BY <1>4

\* The number of the domain's elements is not zero in the field, since it is a power
\* of two and the field is odd.
LEMMA DomainSizeInverse ==
  /\ DomainSize % P \in Field /\ FrInv(DomainSize % P) \in Field
  /\ FrMul(DomainSize % P, FrInv(DomainSize % P)) = 1
  <1> DEFINE T == {k \in Nat : 2 ^ k % P # 0}
  <1>1. P \in Nat /\ P > 2 /\ 2 \in Field
    BY PrimeIs DEF Field
  <1>2. 0 \in T
    <2>1. 1 \in Field
      BY <1>1 DEF Field
    <2>2. 1 % P = 1
      BY <2>1, ResidueIsItself
    <2> QED BY <2>2, PowersOfTwo
  <1>3. ASSUME NEW k \in Nat, k \in T PROVE k + 1 \in T
    <2> DEFINE y == 2 ^ k
               x == y % P
    <2>1. y \in Nat /\ 2 ^ (k + 1) = 2 * y
      BY PowersOfTwo
    <2> HIDE DEF y
    <2>2. x \in Field /\ \E j \in Int : y = x + j * P
      BY <2>1, Remainder
    <2>3. PICK j \in Int : y = x + j * P
      BY <2>2
    <2>4. x \in Int
      BY <2>2, ResidueIsItself
    <2>5. 2 * y = (2 * x) + (2 * j) * P
      <3> DEFINE z == j * P
      <3>1. z \in Int /\ (2 * j) * P = 2 * z
        BY <1>1
      <3> HIDE DEF z, x
      <3> QED BY <2>1, <2>3, <2>4, <3>1 DEF z
    <2>6. (2 * y) % P = (2 * x) % P
      <3> HIDE DEF x
      <3> QED BY <2>1, <2>4, <2>5, SameRemainder
    <2>7. FrMul(2, x) # 0
      BY <1>1, <1>3, <2>2, NoZeroDivisors DEF y
    <2> QED BY <2>1, <2>6, <2>7 DEF FrMul
  <1>4. Nat \subseteq T
    <2> HIDE DEF T
    <2> QED BY <1>2, <1>3, Induction
  <1>5. LogDomain \in Nat /\ DomainSize = 2 ^ LogDomain /\ DomainSize \in Nat
    BY Sizes, PartOfDomain
  <1>6. DomainSize % P \in Field /\ DomainSize % P # 0
    BY <1>4, <1>5, Remainder
  <1> QED BY <1>6, InverseIs

-----------------------------------------------------------------------------
(* Sums of powers *)

\* A sum of ones counts them.
LEMMA TotalOnes ==
  ASSUME NEW n \in Nat, NEW f, \A i \in 0..(n - 1) : f[i] = 1
  PROVE  Terms(f, n) /\ FrSum(f, n) = n % P
  <1> DEFINE T == {k \in Nat : k <= n => FrSum(f, k) = k % P}
  <1>1. Terms(f, n)
    BY Closed DEF Terms
  <1>2. 0 \in T
    <2>1. 0 % P = 0
      BY Closed, ResidueIsItself
    <2> QED BY <2>1, TotalNone
  <1>3. ASSUME NEW k \in Nat, k \in T PROVE k + 1 \in T
    <2> SUFFICES ASSUME k + 1 <= n PROVE FrSum(f, k + 1) = (k + 1) % P
      OBVIOUS
    <2>1. k < n /\ k \in 0..(n - 1) /\ FrSum(f, k) = k % P
      BY <1>3
    <2>2. FrSum(f, k + 1) = FrAdd(k % P, 1)
      BY <1>1, <2>1, TotalStep
    <2> DEFINE x == k % P
    <2>3. x \in Field /\ \E j \in Int : k = x + j * P
      BY Remainder
    <2>4. PICK j \in Int : k = x + j * P
      BY <2>3
    <2>5. x \in Int
      BY <2>3, ResidueIsItself
    <2>6. k + 1 = (x + 1) + j * P
      <3> DEFINE z == j * P
      <3>1. z \in Int
        BY PrimeIs
      <3> HIDE DEF z, x
      <3> QED BY <2>4, <2>5, <3>1 DEF z
    <2>7. (k + 1) % P = (x + 1) % P
      <3> HIDE DEF x
      <3> QED BY <2>5, <2>6, SameRemainder
    <2> QED BY <2>2, <2>7 DEF FrAdd
  <1>4. n \in T
    <2> HIDE DEF T
    <2> QED BY <1>2, <1>3, Induction
  <1> QED BY <1>1, <1>4

\* The powers of an n-th root of one, other than one itself, add up to zero.
LEMMA TotalPowers ==
  ASSUME NEW c \in Field, c # 1, NEW n \in Nat, FrPow(c, n) = 1,
         NEW f, \A i \in 0..(n - 1) : f[i] = FrPow(c, i)
  PROVE  Terms(f, n) /\ FrSum(f, n) = 0
  <1> DEFINE T == {k \in Nat : k <= n => FrAdd(FrMul(c, FrSum(f, k)), 1) = FrAdd(FrSum(f, k), FrPow(c, k))}
  <1>1. Terms(f, n)
    <2> SUFFICES ASSUME NEW i \in 0..(n - 1) PROVE f[i] \in Field
      BY DEF Terms
    <2>1. i \in Nat
      OBVIOUS
    <2> QED BY <2>1, PowNext
  <1>2. 0 \in T
    <2>1. FrSum(f, 0) = 0 /\ FrPow(c, 0) = 1
      BY TotalNone, PowNext
    <2>2. FrMul(c, 0) = 0
      BY Neutral
    <2> QED BY <2>1, <2>2
  <1>3. ASSUME NEW k \in Nat, k \in T PROVE k + 1 \in T
    <2> SUFFICES ASSUME k + 1 <= n
                 PROVE FrAdd(FrMul(c, FrSum(f, k + 1)), 1) = FrAdd(FrSum(f, k + 1), FrPow(c, k + 1))
      OBVIOUS
    <2> DEFINE s == FrSum(f, k)
               w == FrPow(c, k)
               cs == FrMul(c, s)
               cw == FrMul(c, w)
    <2>1. k < n /\ k \in 0..(n - 1) /\ FrAdd(cs, 1) = FrAdd(s, w)
      BY <1>3
    <2> HIDE DEF T
    <2>2. FrSum(f, k + 1) = FrAdd(s, w) /\ s \in Field
      BY <1>1, <2>1, TotalStep
    <2>3. w \in Field /\ FrPow(c, k + 1) = FrMul(w, c)
      BY PowNext
    <2> HIDE DEF s, w
    <2>4. FrPow(c, k + 1) = cw
      BY <2>3, Commutes
    <2>5. FrMul(c, FrAdd(s, w)) = FrAdd(cs, cw)
      BY <2>2, <2>3, FieldDistributes
    <2>6. cs \in Field /\ cw \in Field /\ 1 \in Field
      BY <2>2, <2>3, Closed
    <2> HIDE DEF cs, cw
    <2>7. FrAdd(FrAdd(cs, cw), 1) = FrAdd(FrAdd(cs, 1), cw)
      <3>1. FrAdd(FrAdd(cs, cw), 1) = FrAdd(cs, FrAdd(cw, 1)) /\ FrAdd(FrAdd(cs, 1), cw) = FrAdd(cs, FrAdd(1, cw))
        BY <2>6, AddAssociates
      <3>2. FrAdd(cw, 1) = FrAdd(1, cw)
        BY <2>6, Commutes
      <3> QED BY <3>1, <3>2
    <2> QED BY <2>1, <2>2, <2>4, <2>5, <2>7
  <1>4. n \in T
    <2> HIDE DEF T
    <2> QED BY <1>2, <1>3, Induction
  <1> DEFINE s == FrSum(f, n)
             cs == FrMul(c, s)
             m == FrAdd(c, FrNeg(1))
             neg == FrNeg(1)
  <1>5. FrAdd(cs, 1) = FrAdd(s, 1)
    BY <1>4
  <1>6. s \in Field /\ 1 \in Field /\ neg \in Field
    BY <1>1, TotalIn, Closed
  <1> HIDE DEF s
  <1>7. cs \in Field /\ m \in Field /\ m # 0
    BY <1>6, Closed, Opposite
  <1>8. FrAdd(1, neg) = 0
    BY <1>6, Opposite
  <1>9. cs = s
    <2>1. FrAdd(FrAdd(cs, 1), neg) = FrAdd(cs, FrAdd(1, neg)) /\ FrAdd(FrAdd(s, 1), neg) = FrAdd(s, FrAdd(1, neg))
      <3> HIDE DEF cs, neg
      <3> QED BY <1>6, <1>7, AddAssociates
    <2>2. FrAdd(cs, 0) = cs /\ FrAdd(s, 0) = s
      <3> HIDE DEF cs
      <3> QED BY <1>6, <1>7, Neutral
    <2> QED BY <1>5, <1>8, <2>1, <2>2
  <1>10. FrMul(s, m) = 0
    <2>1. FrMul(s, m) = FrAdd(FrMul(s, c), FrMul(s, neg))
      <3> HIDE DEF neg
      <3> QED BY <1>6, FieldDistributes DEF neg
    <2>2. FrMul(s, c) = s
      BY <1>6, <1>9, Commutes
    <2>3. FrAdd(s, FrMul(s, neg)) = FrMul(s, FrAdd(1, neg)) /\ FrMul(s, 0) = 0
      <3>1. FrMul(s, FrAdd(1, neg)) = FrAdd(FrMul(s, 1), FrMul(s, neg))
        <4> HIDE DEF neg
        <4> QED BY <1>6, FieldDistributes
      <3>2. FrMul(s, 1) = s /\ FrMul(s, 0) = 0
        BY <1>6, Neutral
      <3> QED BY <3>1, <3>2
    <2> QED BY <1>8, <2>1, <2>2, <2>3
  <1>11. s = 0
    <2> HIDE DEF m
    <2> QED BY <1>6, <1>7, <1>10, NoZeroDivisors
  <1> QED BY <1>1, <1>11 DEF s

\* A sum of which one term, at most, is not zero.
LEMMA TotalSingle ==
  ASSUME NEW n \in Nat, NEW f, NEW k \in 0..(n - 1), f[k] \in Field,
         \A i \in 0..(n - 1) : i # k => f[i] = 0
  PROVE  Terms(f, n) /\ FrSum(f, n) = f[k]
  <1>1. Terms(f, n)
    <2> SUFFICES ASSUME NEW i \in 0..(n - 1) PROVE f[i] \in Field
      BY DEF Terms
    <2> QED BY Closed
  <1>2. k \in Nat /\ k + 1 \in Nat /\ k + 1 <= n /\ k < n /\ 0 <= k /\ 0 \in Nat
    OBVIOUS
  <1>3. Terms(f, k)
    BY <1>1, <1>2 DEF Terms
  <1>4. FrSum(f, k) = 0
    <2>1. \A i \in 0..(k - 1) : f[i] = 0
      BY <1>2
    <2>2. FrSum(f, k) = FrSum(f, 0)
      BY <1>2, <1>3, <2>1, TotalGap
    <2> QED BY <2>2, TotalNone
  <1>5. FrSum(f, k + 1) = FrAdd(FrSum(f, k), f[k])
    BY <1>1, <1>2, TotalStep
  <1>6. FrSum(f, n) = FrSum(f, k + 1)
    <2>1. \A i \in (k + 1)..(n - 1) : f[i] = 0
      BY <1>2
    <2> QED BY <1>1, <1>2, <2>1, TotalGap
  <1> QED BY <1>1, <1>4, <1>5, <1>6, Neutral

\* An array of n rows of m field elements, added up by rows and by columns.
Table(F, n, m) == \A i \in 0..(n - 1) : \A j \in 0..(m - 1) : F[i][j] \in Field
RowSums(F, n, m) == [i \in 0..(n - 1) |-> FrSum(F[i], m)]
AlongColumn(F, n, j) == [i \in 0..(n - 1) |-> F[i][j]]
ColumnSums(F, n, m) == [j \in 0..(m - 1) |-> FrSum(AlongColumn(F, n, j), n)]

\* A table's sums, both ways.
SumsAgree(F, n, m) ==
  /\ Terms(RowSums(F, n, m), n) /\ Terms(ColumnSums(F, n, m), m)
  /\ FrSum(RowSums(F, n, m), n) = FrSum(ColumnSums(F, n, m), m)

\* The two are the same.
LEMMA TotalSwaps ==
  ASSUME NEW n \in Nat, NEW m \in Nat, NEW F, Table(F, n, m)
  PROVE  SumsAgree(F, n, m)
  <1> DEFINE g == RowSums(F, n, m)
             C(k) == [j \in 0..(m - 1) |-> FrSum(AlongColumn(F, n, j), k)]
  <1>1. ASSUME NEW i \in 0..(n - 1) PROVE Terms(F[i], m) /\ g[i] = FrSum(F[i], m) /\ g[i] \in Field
    <2>1. Terms(F[i], m)
      BY DEF Table, Terms
    <2>2. g[i] = FrSum(F[i], m)
      BY DEF RowSums
    <2> QED BY <2>1, <2>2, TotalIn
  <1>2. ASSUME NEW j \in 0..(m - 1)
        PROVE  /\ Terms(AlongColumn(F, n, j), n)
               /\ \A i \in 0..(n - 1) : AlongColumn(F, n, j)[i] = F[i][j]
    BY DEF AlongColumn, Table, Terms
  <1>3. Terms(g, n)
    BY <1>1 DEF Terms
  <1> HIDE DEF g
  <1>4. ASSUME NEW k \in Nat, k <= n PROVE Terms(C(k), m)
    <2> SUFFICES ASSUME NEW j \in 0..(m - 1) PROVE FrSum(AlongColumn(F, n, j), k) \in Field
      BY DEF Terms
    <2>1. Terms(AlongColumn(F, n, j), k)
      BY <1>2, <1>4 DEF Terms
    <2> QED BY <1>4, <2>1, TotalIn
  <1> DEFINE T == {k \in Nat : k <= n => FrSum(g, k) = FrSum(C(k), m)}
  <1>5. 0 \in T
    <2>1. \A j \in 0..(m - 1) : C(0)[j] = 0
      BY TotalNone
    <2>2. Terms(C(0), m)
      BY <1>4
    <2> DEFINE h == C(0)
    <2> HIDE DEF h
    <2>3. FrSum(h, m) = FrSum(h, 0)
      <3>1. \A i \in 0..(m - 1) : h[i] = 0
        BY <2>1 DEF h
      <3>2. Terms(h, m)
        BY <2>2 DEF h
      <3> QED BY <3>1, <3>2, TotalGap
    <2> QED BY <2>3, TotalNone DEF h
  <1>6. ASSUME NEW k \in Nat, k \in T PROVE k + 1 \in T
    <2> SUFFICES ASSUME k + 1 <= n PROVE FrSum(g, k + 1) = FrSum(C(k + 1), m)
      OBVIOUS
    <2>1. k < n /\ k <= n /\ k \in 0..(n - 1) /\ FrSum(g, k) = FrSum(C(k), m)
      BY <1>6
    <2> HIDE DEF T
    <2>2. FrSum(g, k + 1) = FrAdd(FrSum(g, k), FrSum(F[k], m))
      <3>1. FrSum(g, k + 1) = FrAdd(FrSum(g, k), g[k])
        BY <1>3, <2>1, TotalStep
      <3> QED BY <1>1, <2>1, <3>1
    <2> DEFINE u == C(k)
               v == C(k + 1)
               w == F[k]
    <2>3. \A j \in 0..(m - 1) : v[j] = FrAdd(u[j], w[j])
      <3> SUFFICES ASSUME NEW j \in 0..(m - 1) PROVE v[j] = FrAdd(u[j], w[j])
        OBVIOUS
      <3>1. /\ u[j] = FrSum(AlongColumn(F, n, j), k) /\ v[j] = FrSum(AlongColumn(F, n, j), k + 1)
            /\ w[j] = AlongColumn(F, n, j)[k]
        BY <1>2, <2>1
      <3> DEFINE f == AlongColumn(F, n, j)
      <3>2. Terms(f, n)
        BY <1>2
      <3> HIDE DEF f
      <3>3. FrSum(f, k + 1) = FrAdd(FrSum(f, k), f[k])
        BY <2>1, <3>2, TotalStep
      <3> QED BY <3>1, <3>3 DEF f
    <2>4. Terms(u, m) /\ Terms(w, m)
      BY <1>1, <1>4, <2>1
    <2> HIDE DEF u, v, w
    <2>5. FrSum(v, m) = FrAdd(FrSum(u, m), FrSum(w, m))
      BY <2>3, <2>4, TotalAdds
    <2> QED BY <2>1, <2>2, <2>5 DEF u, v, w
  <1>7. n \in T
    <2> HIDE DEF T
    <2> QED BY <1>5, <1>6, Induction
  <1>8. Terms(C(n), m)
    BY <1>4
  <1>9. C(n) = ColumnSums(F, n, m)
    BY DEF ColumnSums
  <1> HIDE DEF C
  <1>10. FrSum(g, n) = FrSum(C(n), m)
    BY <1>7
  <1> QED BY <1>3, <1>8, <1>9, <1>10, Zenon DEF SumsAgree, g

-----------------------------------------------------------------------------
(* The transform of an array as large as the domain, and its inverse *)

\* Its terms and what it makes.
DftTerms(x, R, k) == [j \in Exponents |-> FrMul(x[j], RootAt(R, j * k))]
Dft(x, R) == [k \in Exponents |-> FrSum(DftTerms(x, R, k), DomainSize)]

\* They are field elements.
LEMMA DftIn ==
  ASSUME NEW x \in [Exponents -> Field], NEW R \in RootTables
  PROVE  /\ Dft(x, R) \in [Exponents -> Field]
         /\ \A k \in Exponents : /\ Dft(x, R)[k] = FrSum(DftTerms(x, R, k), DomainSize)
                                 /\ Terms(DftTerms(x, R, k), DomainSize)
         /\ \A k, j \in Exponents : /\ DftTerms(x, R, k)[j] = FrMul(x[j], RootAt(R, j * k))
                                    /\ x[j] \in Field /\ RootAt(R, j * k) \in Field
  <1>1. DomainSize \in Nat /\ Exponents = 0..(DomainSize - 1)
    BY Sizes DEF Exponents
  <1>2. ASSUME NEW k \in Exponents, NEW j \in Exponents
        PROVE  /\ DftTerms(x, R, k)[j] = FrMul(x[j], RootAt(R, j * k))
               /\ x[j] \in Field /\ RootAt(R, j * k) \in Field /\ DftTerms(x, R, k)[j] \in Field
    <2>1. j \in Nat /\ k \in Nat
      BY <1>1
    <2>2. j * k \in Nat
      BY <2>1
    <2>3. x[j] \in Field /\ RootAt(R, j * k) \in Field
      BY <2>2, Weights
    <2>4. DftTerms(x, R, k)[j] = FrMul(x[j], RootAt(R, j * k))
      BY DEF DftTerms
    <2> QED BY <2>3, <2>4, Closed
  <1>3. ASSUME NEW k \in Exponents
        PROVE  /\ Dft(x, R)[k] = FrSum(DftTerms(x, R, k), DomainSize)
               /\ Terms(DftTerms(x, R, k), DomainSize) /\ Dft(x, R)[k] \in Field
    <2>1. Terms(DftTerms(x, R, k), DomainSize)
      BY <1>1, <1>2 DEF Terms
    <2>2. Dft(x, R)[k] = FrSum(DftTerms(x, R, k), DomainSize)
      BY DEF Dft
    <2> QED BY <1>1, <2>1, <2>2, TotalIn
  <1>4. Dft(x, R) \in [Exponents -> Field]
    <2> DEFINE F(k) == FrSum(DftTerms(x, R, k), DomainSize)
    <2>1. Dft(x, R) = [k \in Exponents |-> F(k)] /\ \A k \in Exponents : F(k) \in Field
      BY <1>3 DEF Dft
    <2> HIDE DEF F
    <2> QED BY <2>1
  <1> QED BY <1>2, <1>3, <1>4

\* The forward table's weights, and the backward one's.
LEMMA BothWays ==
  /\ RootsFwd \in RootTables /\ RootsInv \in RootTables
  /\ \A k \in Nat : RootAt(RootsFwd, k) = Pw(k) /\ RootAt(RootsInv, k) = Pw((DomainSize - 1) * k)
  <1>1. DomainSize \in Nat \ {0} /\ Exponents = 0..(DomainSize - 1)
    BY Sizes DEF Exponents
  <1>2. ASSUME NEW k \in Nat PROVE RootAt(RootsFwd, k) = Pw(k)
    BY PwReduced, RootEntries DEF RootAt
  <1>3. ASSUME NEW k \in Nat PROVE RootAt(RootsInv, k) = Pw((DomainSize - 1) * k)
    <2> DEFINE D == DomainSize
               r == k % D
               q == k \div D
               e == (D - r) % D
    <2>1. r \in 0..(D - 1) /\ q \in Nat /\ k = r + D * q
      BY <1>1, Division
    <2>2. r \in Exponents
      BY <1>1, <2>1
    <2>3. RootsInv[r] = RootPowers[e + 1]
      BY <2>2 DEF RootsInv
    <2>4. D - r \in Nat
      BY <1>1, <2>1
    <2>5. e \in Exponents /\ Pw(e) = Pw(D - r)
      <3> DEFINE d == D - r
      <3> HIDE DEF d
      <3>1. d \in Nat
        BY <2>4 DEF d
      <3>2. d % DomainSize \in Exponents /\ Pw(d % DomainSize) = Pw(d)
        BY <3>1, PwReduced
      <3> QED BY <3>2 DEF d
    <2>6. RootAt(RootsInv, k) = Pw(D - r)
      BY <2>3, <2>5, RootEntries DEF RootAt
    <2> HIDE DEF e
    <2>7. Pw(D - r) = Pw((D - 1) * k)
      \* (D - 1) * k + D = (D - r) + D * (r + (D - 1) * q)
      <3> DEFINE dq == D * q
                 z == (D - 1) * q
      <3>1. z \in Nat /\ dq \in Nat /\ D * z = (D - 1) * dq
        <4>1. D - 1 \in Nat /\ q \in Nat
          BY <1>1, <2>1
        <4> HIDE DEF D, q
        <4>2. D * ((D - 1) * q) = (D - 1) * (D * q)
          BY <1>1, <4>1 DEF D
        <4> QED BY <1>1, <4>1, <4>2 DEF D
      <3>2. (D - 1) * k = (D - 1) * r + (D - 1) * dq
        <4> HIDE DEF D, q, r
        <4>1. k = r + dq /\ r \in Nat /\ D - 1 \in Nat
          BY <1>1, <2>1 DEF D
        <4> HIDE DEF dq
        <4> QED BY <3>1, <4>1
      <3>3. (D - 1) * r = D * r - r /\ D * r \in Nat /\ r \in Nat /\ (D - 1) * r \in Nat
        <4> HIDE DEF r, D
        <4>1. D \in Nat \ {0} /\ r \in Nat
          BY <1>1, <2>1 DEF D
        <4> QED BY <4>1
      <3>4. D * (r + z) = D * r + D * z
        <4> HIDE DEF r, D, z
        <4>1. D \in Nat \ {0} /\ r \in Nat
          BY <1>1, <2>1 DEF D
        <4> QED BY <3>1, <4>1
      <3> DEFINE n == (D - 1) * k
                 t == r + z
                 dr == D * r
                 dz == D * z
                 y == (D - 1) * r
                 x == (D - 1) * dq
      <3>5. n \in Nat /\ t \in Nat /\ n + D = (D - r) + D * t
        <4>1. n = y + x /\ y = dr - r /\ x = dz /\ D * t = dr + dz /\ dr \in Nat /\ dz \in Nat
          <5>1. D * z \in Nat
            <6> HIDE DEF z
            <6> QED BY <1>1, <3>1
          <5> QED BY <3>1, <3>2, <3>3, <3>4, <5>1
        <4>2. t \in Nat /\ y \in Nat
          <5> HIDE DEF z
          <5> QED BY <3>1, <3>3
        <4> HIDE DEF n, t, dr, dz, y, x
        <4> QED BY <1>1, <2>1, <4>1, <4>2
      <3> HIDE DEF n, t
      <3> DEFINE d == D - r
      <3>6. Pw(d + DomainSize * t) = Pw(d)
        <4> HIDE DEF d
        <4>1. d \in Nat
          BY <2>4 DEF d
        <4> QED BY <3>5, <4>1, PwPeriod
      <3>7. Pw(n + DomainSize * 1) = Pw(n)
        BY <3>5, PwPeriod
      <3>8. n + DomainSize * 1 = n + D
        BY <1>1, <3>5
      <3> QED BY <3>5, <3>6, <3>7, <3>8 DEF n
    <2> QED BY <2>6, <2>7
  <1> QED BY <1>2, <1>3 DEF RootTables

\* Forward to i and backward to k, summed over the domain, all cancels unless i is k.
LEMMA Orthogonal ==
  ASSUME NEW i \in Exponents, NEW k \in Exponents,
         NEW f, \A j \in Exponents : f[j] = FrMul(RootAt(RootsFwd, i * j), RootAt(RootsInv, j * k))
  PROVE  /\ Terms(f, DomainSize)
         /\ FrSum(f, DomainSize) = IF i = k THEN DomainSize % P ELSE 0
  <1> DEFINE D == DomainSize
             m == i + (D - 1) * k
             c == Pw(m)
  <1>1. D \in Nat \ {0} /\ Exponents = 0..(D - 1) /\ i \in Nat /\ k \in Nat /\ D - 1 \in Nat
    BY Sizes DEF Exponents
  <1>2. m \in Nat /\ (D - 1) * k \in Nat
    <2> DEFINE d == D - 1
    <2>1. d \in Nat
      BY <1>1
    <2> HIDE DEF d
    <2>2. d * k \in Nat
      BY <1>1, <2>1
    <2>3. i + d * k \in Nat
      BY <1>1, <2>2
    <2> QED BY <2>2, <2>3 DEF d
  <1>3. c \in Field
    BY <1>2, PwAdds
  <1>4. ASSUME NEW j \in Exponents PROVE f[j] = FrPow(c, j)
    <2>1. j \in Nat
      BY <1>1
    <2> DEFINE u == i * j
               w == j * k
               z == (D - 1) * w
    <2>2. u \in Nat /\ w \in Nat /\ z \in Nat /\ m * j = u + z
      <3> HIDE DEF D
      <3>1. u \in Nat /\ w \in Nat
        BY <1>1, <2>1
      <3>2. (D - 1) * (j * k) = ((D - 1) * k) * j
        BY <1>1, <2>1
      <3> DEFINE y == (D - 1) * k
      <3>3. (i + y) * j = i * j + y * j /\ y * j \in Nat
        <4>1. y \in Nat
          BY <1>2
        <4> HIDE DEF y
        <4> QED BY <1>1, <2>1, <4>1
      <3> QED BY <3>1, <3>2, <3>3
    <2>3. f[j] = FrMul(Pw(u), Pw(z))
      <3> HIDE DEF D, u, w
      <3>1. RootAt(RootsFwd, u) = Pw(u) /\ RootAt(RootsInv, w) = Pw((DomainSize - 1) * w)
        BY <2>2, BothWays
      <3> QED BY <3>1 DEF u, w, D
    <2> HIDE DEF u, z
    <2>4. Pw(u + z) = FrMul(Pw(u), Pw(z))
      BY <2>2, PwAdds
    <2>5. FrPow(Pw(m), j) = Pw(m * j)
      <3> HIDE DEF m
      <3> QED BY <1>2, <2>1, PowPow
    <2> QED BY <2>2, <2>3, <2>4, <2>5
  <1>5. \A j \in 0..(D - 1) : f[j] = FrPow(c, j)
    BY <1>1, <1>4
  <1>6. CASE i = k
    <2>1. m = 0 + D * k
      <3>1. (D - 1) * k = D * k - k /\ D * k \in Nat
        <4> HIDE DEF D
        <4> QED BY <1>1
      <3> DEFINE x == (D - 1) * k
                 y == D * k
      <3>2. x = y - k /\ y \in Nat
        BY <3>1
      <3> HIDE DEF x, y
      <3>3. i + x = 0 + y
        BY <1>1, <1>6, <3>2
      <3> QED BY <3>3 DEF x, y
    <2>2. Pw(0 + DomainSize * k) = Pw(0)
      BY <1>1, PwPeriod
    <2>3. c = 1
      BY <2>1, <2>2, PwAdds
    <2>4. \A j \in 0..(D - 1) : f[j] = 1
      <3> SUFFICES ASSUME NEW j \in 0..(D - 1) PROVE f[j] = 1
        OBVIOUS
      <3>1. f[j] = FrPow(1, j) /\ j \in Nat
        BY <1>1, <1>5, <2>3
      <3>2. 1 \in Field
        BY Closed
      <3> QED BY <3>1, <3>2, PowsOf
    <2>5. Terms(f, D) /\ FrSum(f, D) = D % P
      <3> HIDE DEF D
      <3> QED BY <1>1, <2>4, TotalOnes
    <2> QED BY <1>6, <2>5
  <1>7. CASE i # k
    <2>1. c # 1
      <3> SUFFICES ASSUME c = 1 PROVE FALSE
        OBVIOUS
      <3>1. FrMul(c, Pw(k)) = Pw(k)
        BY <1>1, PwAdds, Neutral
      <3>2. FrMul(c, Pw(k)) = Pw(m + k)
        <4> HIDE DEF m
        <4> QED BY <1>1, <1>2, PwAdds
      <3>3. m + k = i + D * k
        <4>1. (D - 1) * k = D * k - k /\ D * k \in Nat
          <5> HIDE DEF D
          <5> QED BY <1>1
        <4> DEFINE x == (D - 1) * k
                   y == D * k
        <4>2. x = y - k /\ y \in Nat
          BY <4>1
        <4> HIDE DEF x, y
        <4>3. (i + x) + k = i + y
          BY <1>1, <4>2
        <4> QED BY <4>3 DEF x, y
      <3>4. Pw(i + DomainSize * k) = Pw(i)
        BY <1>1, PwPeriod
      <3> HIDE DEF m
      <3>5. Pw(i) = Pw(k)
        BY <3>1, <3>2, <3>3, <3>4
      <3> QED BY <1>7, <3>5, PwDistinct
    <2>2. FrPow(c, D) = 1
      <3>1. FrPow(c, D) = Pw(m * D)
        <4> HIDE DEF m
        <4> QED BY <1>1, <1>2, PowPow
      <3>2. m * D = 0 + DomainSize * m
        <4> HIDE DEF m
        <4> QED BY <1>1, <1>2
      <3>3. Pw(0 + DomainSize * m) = Pw(0)
        <4> HIDE DEF m
        <4> QED BY <1>2, PwPeriod
      <3> QED BY <3>1, <3>2, <3>3, PwAdds
    <2>3. Terms(f, D) /\ FrSum(f, D) = 0
      <3> HIDE DEF D, c
      <3> QED BY <1>1, <1>3, <1>5, <2>1, <2>2, TotalPowers
    <2> QED BY <1>7, <2>3
  <1> QED BY <1>6, <1>7

\* A transform backward, of a transform forward, scaled, is what was transformed.
LEMMA DftInverted ==
  ASSUME NEW x \in [Exponents -> Field], NEW k \in Exponents
  PROVE  FrMul(Dft(Dft(x, RootsFwd), RootsInv)[k], FrInv(DomainSize % P)) = x[k]
  <1> DEFINE D == DomainSize
             y == Dft(x, RootsFwd)
             W(i, j) == FrMul(RootAt(RootsFwd, i * j), RootAt(RootsInv, j * k))
             w(i) == [j \in Exponents |-> W(i, j)]
             F == [i \in 0..(D - 1) |-> [j \in 0..(D - 1) |-> FrMul(x[i], W(i, j))]]
             rows == RowSums(F, D, D)
             columns == ColumnSums(F, D, D)
  <1>1. D \in Nat \ {0} /\ Exponents = 0..(D - 1) /\ RootsFwd \in RootTables /\ RootsInv \in RootTables
    BY Sizes, BothWays DEF Exponents
  <1>2. /\ y \in [Exponents -> Field]
        /\ \A j \in Exponents : y[j] = FrSum(DftTerms(x, RootsFwd, j), D)
        /\ \A j \in Exponents : Terms(DftTerms(x, RootsFwd, j), D)
        /\ \A j, i \in Exponents : /\ DftTerms(x, RootsFwd, j)[i] = FrMul(x[i], RootAt(RootsFwd, i * j))
                                   /\ RootAt(RootsFwd, i * j) \in Field
    <2> DEFINE R == RootsFwd
    <2>1. R \in RootTables
      BY <1>1
    <2> HIDE DEF R
    <2>2. /\ Dft(x, R) \in [Exponents -> Field]
          /\ \A j \in Exponents : /\ Dft(x, R)[j] = FrSum(DftTerms(x, R, j), DomainSize)
                                  /\ Terms(DftTerms(x, R, j), DomainSize)
          /\ \A j, i \in Exponents : /\ DftTerms(x, R, j)[i] = FrMul(x[i], RootAt(R, i * j))
                                     /\ x[i] \in Field /\ RootAt(R, i * j) \in Field
      BY <2>1, DftIn
    <2> QED BY <2>2, Zenon DEF R
  <1>3. \A i \in Exponents : x[i] \in Field
    OBVIOUS
  <1>4. \A j \in Exponents : RootAt(RootsInv, j * k) \in Field
    <2> SUFFICES ASSUME NEW j \in Exponents PROVE RootAt(RootsInv, j * k) \in Field
      OBVIOUS
    <2>1. j \in Nat /\ k \in Nat
      BY <1>1
    <2>2. j * k \in Nat
      BY <2>1
    <2> QED BY <1>1, <2>2, Weights
  <1>5. \A i, j \in Exponents : W(i, j) \in Field
    BY <1>2, <1>4, Closed
  <1>6. \A i, j \in Exponents : F[i][j] = FrMul(x[i], W(i, j)) /\ F[i][j] \in Field
    <2> HIDE DEF W
    <2> QED BY <1>1, <1>3, <1>5, Closed
  <1>7. Table(F, D, D)
    <2> HIDE DEF F
    <2> QED BY <1>1, <1>6 DEF Table
  <1>8. SumsAgree(F, D, D)
    <2> HIDE DEF F, D
    <2> QED BY <1>1, <1>7, TotalSwaps
  \* A row vanishes, but the k-th.
  <1>9. ASSUME NEW i \in Exponents
        PROVE  rows[i] = IF i = k THEN FrMul(x[k], D % P) ELSE 0
    <2>1. rows[i] = FrSum(F[i], D)
      BY <1>1 DEF RowSums
    <2>2. Terms(w(i), D) /\ FrSum(w(i), D) = IF i = k THEN D % P ELSE 0
      <3> DEFINE f == w(i)
      <3>1. \A j \in Exponents : f[j] = FrMul(RootAt(RootsFwd, i * j), RootAt(RootsInv, j * k))
        OBVIOUS
      <3> HIDE DEF f
      <3> QED BY <3>1, Orthogonal DEF f
    <2>3. FrSum(F[i], D) = FrMul(x[i], FrSum(w(i), D))
      <3> DEFINE f == w(i)
                 h == F[i]
                 c == x[i]
      <3>1. \A j \in 0..(D - 1) : h[j] = FrMul(c, f[j])
        BY <1>1, <1>6
      <3>2. Terms(f, D) /\ c \in Field
        BY <2>2
      <3> HIDE DEF f, h, c, D
      <3>3. FrSum(h, D) = FrMul(c, FrSum(f, D))
        BY <1>1, <3>1, <3>2, TotalScales
      <3> QED BY <3>3 DEF f, h, c
    <2>4. FrMul(x[i], 0) = 0
      BY <1>3, Neutral
    <2> HIDE DEF F, w, rows
    <2> QED BY <2>1, <2>2, <2>3, <2>4
  \* A column is a term of the second transform.
  <1>10. ASSUME NEW j \in Exponents PROVE columns[j] = DftTerms(y, RootsInv, k)[j]
    <2> DEFINE g == AlongColumn(F, D, j)
               f == DftTerms(x, RootsFwd, j)
               r == RootAt(RootsInv, j * k)
    <2>1. columns[j] = FrSum(g, D)
      BY <1>1 DEF ColumnSums
    <2>2. ASSUME NEW i \in 0..(D - 1) PROVE g[i] = FrMul(r, f[i])
      <3>1. i \in Exponents
        BY <1>1
      <3>2. g[i] = F[i][j]
        BY DEF AlongColumn
      <3> DEFINE v == RootAt(RootsFwd, i * j)
                 xi == x[i]
      <3>3. F[i][j] = FrMul(xi, FrMul(v, r))
        BY <1>6, <3>1
      <3>4. f[i] = FrMul(xi, v)
        BY <1>2, <3>1
      <3>5. xi \in Field /\ v \in Field /\ r \in Field
        BY <1>2, <1>3, <1>4, <3>1
      <3>6. FrMul(xi, v) \in Field
        BY <3>5, Closed
      <3> HIDE DEF xi, v, r, f, g, F
      <3>7. FrMul(FrMul(xi, v), r) = FrMul(xi, FrMul(v, r))
        BY <3>5, MulAssociates
      <3>8. FrMul(FrMul(xi, v), r) = FrMul(r, FrMul(xi, v))
        BY <3>5, <3>6, Commutes
      <3> QED BY <3>2, <3>3, <3>4, <3>7, <3>8
    <2>3. Terms(f, D) /\ r \in Field /\ y[j] = FrSum(f, D) /\ y[j] \in Field
      <3>1. y[j] \in Field
        <4> HIDE DEF y
        <4> QED BY <1>2
      <3> QED BY <1>2, <1>4, <3>1
    <2>4. DftTerms(y, RootsInv, k)[j] = FrMul(y[j], r)
      BY DEF DftTerms
    <2> HIDE DEF f, g, r, y, D, columns
    <2>5. FrSum(g, D) = FrMul(r, FrSum(f, D))
      BY <1>1, <2>2, <2>3, TotalScales
    <2>6. FrMul(r, y[j]) = FrMul(y[j], r)
      BY <2>3, Commutes
    <2> QED BY <2>1, <2>3, <2>4, <2>5, <2>6
  <1> HIDE DEF F, W, w
  <1>11. Dft(y, RootsInv)[k] = FrSum(rows, D)
    <2>1. Dft(y, RootsInv)[k] = FrSum(DftTerms(y, RootsInv, k), D) /\ Terms(DftTerms(y, RootsInv, k), D)
      <3> HIDE DEF y
      <3> QED BY <1>1, <1>2, DftIn
    <2> DEFINE f == DftTerms(y, RootsInv, k)
    <2>2. \A j \in 0..(D - 1) : columns[j] = f[j]
      BY <1>1, <1>10
    <2> HIDE DEF f, columns, D
    <2>3. FrSum(columns, D) = FrSum(f, D)
      BY <1>1, <2>1, <2>2, TotalSame DEF f
    <2> QED BY <1>8, <2>1, <2>3 DEF f, SumsAgree, columns
  <1>12. FrSum(rows, D) = FrMul(x[k], D % P)
    <2>1. D % P \in Field
      BY DomainSizeInverse
    <2>2. FrMul(x[k], D % P) \in Field
      BY <1>3, <2>1, Closed
    <2>3. /\ \A i \in 0..(D - 1) : i # k => rows[i] = 0
          /\ rows[k] = FrMul(x[k], D % P) /\ k \in 0..(D - 1)
      BY <1>1, <1>9
    <2> HIDE DEF rows, D
    <2> QED BY <1>1, <2>2, <2>3, TotalSingle
  <1>13. FrMul(FrMul(x[k], D % P), FrInv(D % P)) = x[k]
    <2> DEFINE d == D % P
               v == FrInv(d)
    <2>1. d \in Field /\ v \in Field /\ FrMul(d, v) = 1
      BY DomainSizeInverse
    <2> HIDE DEF d, v
    <2>2. FrMul(FrMul(x[k], d), v) = FrMul(x[k], FrMul(d, v))
      BY <1>3, <2>1, MulAssociates
    <2>3. FrMul(x[k], 1) = x[k]
      BY <1>3, Neutral
    <2> QED BY <2>1, <2>2, <2>3 DEF d, v
  <1> QED BY <1>11, <1>12, <1>13

\* A factor moved to the front.
LEMMA MulSwapped ==
  ASSUME NEW x \in Field, NEW c \in Field, NEW w \in Field
  PROVE  FrMul(x, FrMul(c, w)) = FrMul(c, FrMul(x, w))
  <1>1. FrMul(x, FrMul(c, w)) = FrMul(FrMul(x, c), w)
    BY MulAssociates
  <1>2. FrMul(FrMul(c, x), w) = FrMul(c, FrMul(x, w))
    BY MulAssociates
  <1>3. FrMul(x, c) = FrMul(c, x)
    BY Commutes
  <1> QED BY <1>1, <1>2, <1>3

-----------------------------------------------------------------------------
(* The two passes make the transform *)

\* What the first pass leaves for the column t of the second's group k1.
FirstPass(x, R, a, b, t, k1) ==
  FrMul(RootAt(R, t * k1),
        FrSum([u \in 0..(a - 1) |-> FrMul(x[t + b * u], RootAt(R, (k1 * u) * b))], a))

\* The first pass, of b groups of a elements.
LEMMA FirstPassIs ==
  ASSUME NEW x \in [Exponents -> Field], NEW R \in RootTables,
         NEW a \in Nat \ {0}, NEW b \in Nat \ {0}, DomainSize = a * b,
         NEW t \in 0..(b - 1), NEW k1 \in 0..(a - 1)
  PROVE  /\ t + b * k1 \in Exponents
         /\ PassOf(Pass1(a * b, a, b), R, 1, x)[t + b * k1] = FirstPass(x, R, a, b, t, k1)
  <1> DEFINE D == DomainSize
             q == Pass1(D, a, b)
             e == t + b * k1
             f == [u \in 0..(a - 1) |-> FrMul(x[t + b * u], RootAt(R, (k1 * u) * b))]
             g == [j \in 0..(q.n - 1) |-> FrMul(x[InAt(q, t, j)], R[((k1 * j) % q.n) * q.root])]
  <1>1. /\ D \in Nat \ {0} /\ Exponents = 0..(D - 1) /\ D = a * b /\ D = D * 1
        /\ t \in Nat /\ k1 \in Nat /\ t < b /\ k1 < a
    BY Sizes DEF Exponents
  <1>2. D \div a = b /\ D \div D = 1
    <2>1. DomainSize \div a = b /\ DomainSize \div DomainSize = 1
      BY <1>1, EntryIs
    <2> QED BY <2>1
  <1>3. /\ q.n = a /\ q.groups = b /\ q.in_t = 1 /\ q.in_i = b /\ q.root = b /\ q.twiddle = 1
        /\ q.full_n = D
    BY <1>2 DEF Pass1
  <1>4. ASSUME NEW u \in Nat, u < a PROVE t + b * u \in Exponents /\ b * u \in Nat
    <2> DEFINE d == a - (u + 1)
    <2>1. d \in Nat /\ a = (u + 1) + d
      BY <1>4
    <2> HIDE DEF d
    <2>2. ((u + 1) + d) * b = (b * u + b) + b * d /\ b * u \in Nat /\ b * d \in Nat
      BY <1>4, <2>1
    <2> DEFINE y == b * u
               z == b * d
    <2>3. D = (y + b) + z /\ y \in Nat /\ z \in Nat
      BY <1>1, <2>1, <2>2
    <2> HIDE DEF y, z, D
    <2>4. t + y \in 0..(D - 1)
      BY <1>1, <2>3
    <2> QED BY <1>1, <2>3, <2>4 DEF y
  <1>5. e \in Exponents /\ e % b = t /\ e \div b = k1
    <2>1. k1 \in Int
      BY <1>1
    <2> QED BY <1>1, <1>4, <2>1, DivisionIs
  <1>6. ASSUME NEW j \in 0..(a - 1) PROVE g[j] = f[j] /\ f[j] \in Field
    <2>1. j \in Nat /\ j < a
      BY <1>1
    <2>2. InAt(q, t, j) = t + b * j
      <3>1. InAt(q, t, j) = t * 1 + j * b
        BY <1>3 DEF InAt
      <3>2. t * 1 = t /\ j * b = b * j
        BY <1>1, <2>1
      <3> QED BY <3>1, <3>2
    <2> DEFINE n == k1 * j
    <2>3. n \in Nat
      BY <1>1, <2>1
    <2> HIDE DEF n
    <2>4. R[(n % a) * b] = RootAt(R, n * b)
      <3>1. \A i \in Nat : R[(i % a) * b] = RootAt(R, i * b)
        BY EntryIs, ZenonT(60)
      <3> QED BY <2>3, <3>1
    <2>5. n * b \in Nat
      BY <2>3
    <2>6. RootAt(R, n * b) \in Field
      BY <2>5, Weights
    <2>7. x[t + b * j] \in Field
      BY <1>4, <2>1
    <2>8. f[j] = FrMul(x[t + b * j], RootAt(R, n * b))
      BY DEF n
    <2>9. g[j] = FrMul(x[t + b * j], R[(n % a) * b])
      <3>1. g[j] = FrMul(x[InAt(q, t, j)], R[((k1 * j) % q.n) * q.root])
        BY <1>3
      <3> HIDE DEF g, q
      <3> QED BY <1>3, <2>2, <3>1 DEF n
    <2> QED BY <2>4, <2>6, <2>7, <2>8, <2>9, Closed
  <1>7. Terms(f, a)
    BY <1>6 DEF Terms
  <1>8. FrSum(g, a) = FrSum(f, a) /\ FrSum(f, a) \in Field
    <2> HIDE DEF f, g
    <2> QED BY <1>6, <1>7, TotalSame, TotalIn
  <1> DEFINE n == t * k1
             w == RootAt(R, n)
  <1>9. n \in Nat
    BY <1>1
  <1>10. Twiddle(q, R, t, k1) = w /\ w \in Field
    <2>1. Twiddle(q, R, t, k1) = R[(n % D) * 1]
      <3> HIDE DEF q
      <3> QED BY <1>3 DEF Twiddle
    <2> HIDE DEF n
    <2>2. (n % DomainSize) * 1 = n % DomainSize
      <3> DEFINE z == n % DomainSize
      <3>1. z \in Exponents
        BY <1>9, PwReduced
      <3>2. z \in Nat
        BY <1>1, <3>1
      <3> HIDE DEF z
      <3>3. z * 1 = z
        BY <3>2
      <3> QED BY <3>3 DEF z
    <2>3. w = R[n % DomainSize]
      BY DEF RootAt
    <2> QED BY <1>9, <2>1, <2>2, <2>3, Weights
  <1>11. PassOf(q, R, 1, x)[e] = FrMul(FrMul(1, Twiddle(q, R, t, k1)), FrSum(g, a))
    <2>1. e \in 0..(q.full_n - 1)
      BY <1>1, <1>3, <1>5
    <2>2. PassOf(q, R, 1, x)[e] =
            FrMul(FrMul(1, Twiddle(q, R, e % q.groups, e \div q.groups)),
                  FrSum([j \in 0..(q.n - 1) |-> FrMul(x[InAt(q, e % q.groups, j)],
                           R[(((e \div q.groups) * j) % q.n) * q.root])], q.n))
      <3> HIDE DEF q, e
      <3> QED BY <2>1 DEF PassOf
    <2>3. e % q.groups = t /\ e \div q.groups = k1
      BY <1>3, <1>5
    <2> HIDE DEF q, e
    <2> QED BY <1>3, <2>2, <2>3
  <1>12. FrMul(1, w) = w
    BY <1>10, Neutral
  <1> HIDE DEF q, e, g, w, f
  <1>13. PassOf(q, R, 1, x)[e] = FrMul(w, FrSum(f, a))
    BY <1>8, <1>10, <1>11, <1>12
  <1>14. q = Pass1(a * b, a, b)
    BY <1>1 DEF q
  <1> QED BY <1>5, <1>13, <1>14 DEF FirstPass, e, w, f

\* The sizes of the two passes.
LEMMA PassSizes ==
  ASSUME NEW l \in Nat, l <= LogDomain
  PROVE  2 ^ l \in Nat \ {0} /\ 2 ^ (LogDomain - l) \in Nat \ {0}
         /\ DomainSize = 2 ^ l * 2 ^ (LogDomain - l)
  <1> DEFINE k == LogDomain - l
  <1>1. k \in Nat /\ l + k = LogDomain
    BY Sizes
  <1>2. 2 ^ l \in Nat \ {0} /\ 2 ^ k \in Nat \ {0} /\ 2 ^ (l + k) = 2 ^ l * 2 ^ k
    BY <1>1, PowersOfTwo, TwoAdds
  <1>3. DomainSize = 2 ^ LogDomain
    BY PartOfDomain
  <1> QED BY <1>1, <1>2, <1>3

\* Both passes.
LEMMA BothPasses ==
  ASSUME NEW x \in [Exponents -> Field], NEW R \in RootTables,
         NEW a \in Nat \ {0}, NEW b \in Nat \ {0}, DomainSize = a * b
  PROVE  PassOf(Pass2(a * b, a, b), R, 1, PassOf(Pass1(a * b, a, b), R, 1, x)) = Dft(x, R)
  <1> DEFINE D == DomainSize
             q == Pass2(D, a, b)
             mid == PassOf(Pass1(a * b, a, b), R, 1, x)
  <1>1. /\ D \in Nat \ {0} /\ Exponents = 0..(D - 1) /\ D = a * b /\ D = b * a
    BY Sizes DEF Exponents
  <1>2. /\ q.n = b /\ q.groups = a /\ q.in_t = b /\ q.in_i = 1 /\ q.root = a /\ q.twiddle = 0
        /\ q.full_n = D
    <2>1. DomainSize \div b = a
      BY <1>1, EntryIs
    <2> QED BY <2>1 DEF Pass2
  <1> HIDE DEF q, mid
  <1>3. ASSUME NEW k \in Exponents PROVE PassOf(q, R, 1, mid)[k] = Dft(x, R)[k]
    <2> DEFINE k1 == k % a
               k2 == k \div a
               H == DftTerms(x, R, k)
               F == [j \in 0..(q.n - 1) |-> FrMul(mid[InAt(q, k1, j)], R[((k2 * j) % q.n) * q.root])]
    <2>1. k1 \in 0..(a - 1) /\ k2 \in Nat /\ k = k1 + a * k2 /\ k1 \in Nat /\ k \in Nat
      <3>1. k \in Nat
        BY <1>1
      <3>2. k1 \in 0..(a - 1) /\ k2 \in Nat /\ k = k1 + a * k2
        BY <3>1, Division
      <3> HIDE DEF k1, k2
      <3>3. k1 \in Nat
        BY <3>2
      <3> QED BY <3>1, <3>2, <3>3
    <2>2. PassOf(q, R, 1, mid)[k] = FrMul(FrMul(1, Twiddle(q, R, k1, k2)), FrSum(F, b))
      <3>1. k \in 0..(q.full_n - 1)
        BY <1>1, <1>2
      <3>2. PassOf(q, R, 1, mid)[k] =
              FrMul(FrMul(1, Twiddle(q, R, k % q.groups, k \div q.groups)),
                    FrSum([j \in 0..(q.n - 1) |-> FrMul(mid[InAt(q, k % q.groups, j)],
                             R[(((k \div q.groups) * j) % q.n) * q.root])], q.n))
        BY <3>1 DEF PassOf
      <3> QED BY <1>2, <3>2
    <2>3. Twiddle(q, R, k1, k2) = 1
      BY <1>2 DEF Twiddle
    <2>4. /\ Dft(x, R)[k] = FrSum(H, D) /\ Terms(H, D)
          /\ \A j \in Exponents : /\ H[j] = FrMul(x[j], RootAt(R, j * k))
                                  /\ x[j] \in Field /\ RootAt(R, j * k) \in Field
      BY DftIn
    <2> HIDE DEF H, k1, k2
    \* A column of the transform's terms is an element of the second pass's group.
    <2>5. ASSUME NEW t \in 0..(b - 1)
          PROVE  F[t] = FrSum(Column(H, b, a, t), a) /\ F[t] \in Field
      <3> DEFINE A == t * k1
                 B == (k2 * t) * a
                 w1 == RootAt(R, A)
                 w2 == RootAt(R, B)
                 c == FrMul(w1, w2)
                 s == [u \in 0..(a - 1) |-> FrMul(x[t + b * u], RootAt(R, (k1 * u) * b))]
                 y == FrSum(s, a)
                 h == Column(H, b, a, t)
      <3>1. t \in Nat
        BY <1>1
      <3>2. mid[t + b * k1] = FrMul(w1, y)
        <4>1. mid[t + b * k1] = FirstPass(x, R, a, b, t, k1)
          BY <2>1, FirstPassIs DEF mid
        <4> QED BY <4>1 DEF FirstPass
      <3>3. InAt(q, k1, t) = t + b * k1
        <4>1. InAt(q, k1, t) = k1 * b + t * 1
          BY <1>2 DEF InAt
        <4>2. k1 * b + t * 1 = t + b * k1
          <5>1. k1 * b = b * k1 /\ b * k1 \in Nat
            BY <2>1
          <5> DEFINE z == b * k1
          <5>2. z \in Nat /\ z + t * 1 = t + z
            <6>1. z \in Nat
              BY <5>1
            <6> HIDE DEF z
            <6> QED BY <3>1, <6>1
          <5> QED BY <5>1, <5>2
        <4> QED BY <4>1, <4>2
      <3>4. F[t] = FrMul(FrMul(w1, y), w2)
        <4> DEFINE n == k2 * t
        <4>1. n \in Nat
          BY <2>1, <3>1
        <4> HIDE DEF n
        <4>2. R[(n % b) * a] = RootAt(R, n * a)
          <5>1. DomainSize = b * a
            BY <1>1
          <5>2. \A i \in Nat : R[(i % b) * a] = RootAt(R, i * a)
            BY <5>1, EntryIs, ZenonT(60)
          <5> QED BY <4>1, <5>2
        <4>3. F[t] = FrMul(mid[InAt(q, k1, t)], R[(n % b) * a])
          BY <1>2 DEF n
        <4> HIDE DEF F, w1, y
        <4> QED BY <3>2, <3>3, <4>2, <4>3 DEF n
      <3>5. A \in Nat /\ B \in Nat
        <4>1. A \in Nat /\ k2 * t \in Nat
          BY <2>1, <3>1
        <4> HIDE DEF A
        <4> DEFINE n == k2 * t
        <4>2. n \in Nat
          BY <4>1
        <4> HIDE DEF n
        <4>3. n * a \in Nat
          BY <4>2
        <4> QED BY <4>1, <4>3 DEF n
      <3>6. w1 \in Field /\ w2 \in Field /\ c \in Field
        <4>1. w1 \in Field /\ w2 \in Field
          <5> HIDE DEF A, B
          <5> QED BY <3>5, Weights
        <4> HIDE DEF w1, w2
        <4> QED BY <4>1, Closed
      <3>7. ASSUME NEW u \in 0..(a - 1)
            PROVE  h[u] = FrMul(c, s[u]) /\ s[u] \in Field
        <4> DEFINE C == (k1 * u) * b
                   d == u * k2
                   j == t + b * u
                   w3 == RootAt(R, C)
        <4>1. u \in Nat /\ j \in Exponents
          <5>1. u \in Nat
            BY <1>1
          <5>2. t + b * u \in Exponents
            BY FirstPassIs
          <5> QED BY <5>1, <5>2
        <4>2. C \in Nat /\ d \in Nat
          <5>1. k1 * u \in Nat /\ d \in Nat
            BY <2>1, <4>1
          <5> DEFINE n == k1 * u
          <5>2. n \in Nat
            BY <5>1
          <5> HIDE DEF n, d
          <5>3. n * b \in Nat
            BY <5>2
          <5> QED BY <5>1, <5>3 DEF n
        <4>3. j * k = ((A + B) + C) + DomainSize * d
          <5> DEFINE E == D
          <5>1. E = (a * b) * 1
            BY <1>1
          <5>2. /\ (t * k1) * 1 \in Nat /\ (t * k2) * (a * 1) \in Nat /\ (u * k1) * (b * 1) \in Nat
                /\ ((t + b * u) * (k1 + a * k2)) * 1
                     = (((t * k1) * 1 + (t * k2) * (a * 1)) + (u * k1) * (b * 1)) + E * (u * k2)
            <6> HIDE DEF E
            <6>1. 1 \in Nat /\ t \in Nat /\ u \in Nat /\ k1 \in Nat /\ k2 \in Nat
              BY <2>1, <3>1, <4>1
            <6> QED BY <5>1, <6>1, ExponentIs
          <5>3. /\ (t * k1) * 1 = A /\ (t * k2) * (a * 1) = B /\ (u * k1) * (b * 1) = C
            <6>1. t * k2 = k2 * t /\ u * k1 = k1 * u /\ t * k1 \in Nat /\ a * 1 = a /\ b * 1 = b
              BY <2>1, <3>1, <4>1
            <6>2. (t * k1) * 1 = t * k1
              BY <6>1
            <6> QED BY <6>1, <6>2
          <5>4. ((t + b * u) * (k1 + a * k2)) * 1 = j * k
            <6>1. j \in Nat /\ j * k \in Nat
              <7>1. j \in Nat
                BY <1>1, <4>1
              <7> HIDE DEF j
              <7> QED BY <2>1, <7>1
            <6> DEFINE z == j * k
            <6>2. z * 1 = z
              <7> HIDE DEF z
              <7>1. z \in Nat
                BY <6>1 DEF z
              <7> QED BY <7>1
            <6> QED BY <2>1, <6>2
          <5> HIDE DEF A, B, C, d, j
          <5> QED BY <5>2, <5>3, <5>4 DEF d
        <4>4. /\ RootAt(R, ((A + B) + C) + DomainSize * d) = FrMul(FrMul(w1, w2), w3)
              /\ w3 \in Field
          <5> HIDE DEF A, B, C, d
          <5>1. WeightsOf(R, A, B, C, d)
            BY <3>5, <4>2, WeightOfTerm
          <5> QED BY <5>1, Zenon DEF WeightsOf
        <4>5. s[u] = FrMul(x[j], w3)
          OBVIOUS
        <4>6. h[u] = FrMul(x[j], RootAt(R, j * k)) /\ x[j] \in Field
          <5>1. h[u] = H[j]
            BY DEF Column
          <5> HIDE DEF h, j
          <5> QED BY <2>4, <4>1, <5>1
        <4> HIDE DEF s, h, w1, w2, w3, j, A, B, C, d
        <4>7. h[u] = FrMul(x[j], FrMul(c, w3))
          BY <4>3, <4>4, <4>6
        <4> HIDE DEF c
        <4>8. FrMul(x[j], FrMul(c, w3)) = FrMul(c, FrMul(x[j], w3))
          BY <3>6, <4>4, <4>6, MulSwapped
        <4> QED BY <4>4, <4>5, <4>6, <4>7, <4>8, Closed
      <3> HIDE DEF s, h, w1, w2, F
      <3>8. Terms(s, a)
        BY <3>7 DEF Terms
      <3>9. FrSum(h, a) = FrMul(c, y) /\ y \in Field
        <4> HIDE DEF c
        <4> QED BY <3>6, <3>7, <3>8, TotalScales, TotalIn
      <3> HIDE DEF y
      <3>10. FrMul(FrMul(w1, y), w2) = FrMul(c, y)
        <4>1. FrMul(FrMul(w1, y), w2) = FrMul(w1, FrMul(y, w2)) /\ FrMul(FrMul(w1, w2), y) = FrMul(w1, FrMul(w2, y))
          BY <3>6, <3>9, MulAssociates
        <4>2. FrMul(y, w2) = FrMul(w2, y)
          BY <3>6, <3>9, Commutes
        <4> QED BY <4>1, <4>2
      <3>11. FrMul(c, y) \in Field
        <4> HIDE DEF c
        <4> QED BY <3>6, <3>9, Closed
      <3> QED BY <3>4, <3>9, <3>10, <3>11 DEF h
    <2> HIDE DEF F
    <2>6. FrSum(H, D) = FrSum(F, b) /\ FrSum(F, b) \in Field
      <3>1. Terms(H, b * a) /\ Terms(F, b)
        BY <1>1, <2>4, <2>5 DEF Terms
      <3>2. FrSum(H, b * a) = FrSum(F, b)
        BY <2>5, <3>1, TotalColumns
      <3> QED BY <1>1, <3>1, <3>2, TotalIn
    <2>7. FrMul(FrMul(1, 1), FrSum(F, b)) = FrSum(F, b)
      <3>1. FrMul(1, 1) = 1
        BY Closed, Neutral
      <3> QED BY <2>6, <3>1, Neutral
    <2> QED BY <2>2, <2>3, <2>4, <2>6, <2>7
  <1>4. PassOf(q, R, 1, mid) = Dft(x, R)
    <2> DEFINE f == PassOf(q, R, 1, mid)
               g == Dft(x, R)
               S == Exponents
    <2>1. f = [k \in S |-> f[k]]
      <3>1. S = 0..(q.full_n - 1)
        BY <1>1, <1>2
      <3> HIDE DEF S
      <3> QED BY <3>1, Zenon DEF PassOf
    <2>2. g = [k \in S |-> g[k]]
      BY Zenon DEF Dft
    <2>3. \A k \in S : f[k] = g[k]
      BY <1>3
    <2> HIDE DEF f, g, S
    <2>4. [k \in S |-> f[k]] = [k \in S |-> g[k]]
      BY <2>3
    <2>5. f = g
      BY <2>1, <2>2, <2>4, Zenon
    <2> QED BY <2>5 DEF f, g
  <1> QED BY <1>1, <1>4 DEF q, mid

-----------------------------------------------------------------------------
(* Values anywhere *)

\* The terms of the value of a polynomial at X, and the value.
PolyTerms(poly, X) == [i \in Exponents |-> FrMul(poly[i], FrPow(X, i))]
PolyAt(poly, X) == FrSum(PolyTerms(poly, X), DomainSize)

\* They are field elements.
LEMMA PolyAtIs ==
  ASSUME NEW poly \in [Exponents -> Field], NEW X \in Field
  PROVE  /\ \A i \in Exponents : /\ PolyTerms(poly, X)[i] = FrMul(poly[i], FrPow(X, i))
                                 /\ poly[i] \in Field /\ FrPow(X, i) \in Field
                                 /\ PolyTerms(poly, X)[i] \in Field
         /\ Terms(PolyTerms(poly, X), DomainSize)
         /\ PolyAt(poly, X) = FrSum(PolyTerms(poly, X), DomainSize) /\ PolyAt(poly, X) \in Field
  <1>1. DomainSize \in Nat /\ Exponents = 0..(DomainSize - 1)
    BY Sizes DEF Exponents
  <1>2. ASSUME NEW i \in Exponents
        PROVE  /\ PolyTerms(poly, X)[i] = FrMul(poly[i], FrPow(X, i))
               /\ poly[i] \in Field /\ FrPow(X, i) \in Field
               /\ PolyTerms(poly, X)[i] \in Field
    <2>1. i \in Nat
      BY <1>1
    <2>2. poly[i] \in Field /\ FrPow(X, i) \in Field
      BY <2>1, PowNext
    <2>3. PolyTerms(poly, X)[i] = FrMul(poly[i], FrPow(X, i))
      BY DEF PolyTerms
    <2> QED BY <2>2, <2>3, Closed
  <1>3. Terms(PolyTerms(poly, X), DomainSize)
    BY <1>1, <1>2 DEF Terms
  <1>4. PolyAt(poly, X) = FrSum(PolyTerms(poly, X), DomainSize)
    BY DEF PolyAt
  <1> QED BY <1>1, <1>2, <1>3, <1>4, TotalIn

\* Spread, a polynomial takes at Y the value it has at Y^CellSize.
LEMMA SpreadAt ==
  ASSUME NEW sp \in Seq(Field), Len(sp) <= Cells, NEW Y \in Field
  PROVE  /\ Spread(sp) \in [Exponents -> Field]
         /\ PolyAt(Spread(sp), Y) = Poly(sp, FrPow(Y, CellSize))
  <1> DEFINE L == Len(sp)
             C == CellSize
             D == DomainSize
             X == FrPow(Y, C)
             f == PolyTerms(Spread(sp), Y)
             q == Coeffs(sp, X)
  <1>1. /\ L \in Nat /\ C \in Nat \ {0} /\ Cells \in Nat /\ L <= Cells /\ D = C * Cells /\ D \in Nat
        /\ Exponents = 0..(D - 1)
    BY Sizes DEF Exponents
  <1>2. X \in Field
    BY <1>1, PowNext
  <1>3. Spread(sp) \in [Exponents -> Field]
    <2> SUFFICES ASSUME NEW i \in Exponents, i % CellSize = 0, i \div CellSize < Len(sp)
                 PROVE  sp[(i \div CellSize) + 1] \in Field
      BY Closed DEF Spread
    <2> DEFINE j == i \div C
    <2>1. j \in Nat
      <3>1. i \in Nat
        BY <1>1
      <3> QED BY <1>1, <3>1, Division
    <2> HIDE DEF j
    <2>2. j < L => j + 1 \in 1..L
      BY <1>1, <2>1
    <2>3. \A k \in 1..L : sp[k] \in Field
      OBVIOUS
    <2> QED BY <2>2, <2>3 DEF j
  <1>4. /\ \A i \in Exponents : f[i] = FrMul(Spread(sp)[i], FrPow(Y, i)) /\ f[i] \in Field
        /\ PolyAt(Spread(sp), Y) = FrSum(f, D)
    BY <1>3, PolyAtIs
  <1>5. Poly(sp, X) = FrSum(q, L)
    BY DEF Poly
  <1>6. \A j \in Nat : j < L => /\ q[j] = FrMul(sp[j + 1], FrPow(X, j)) /\ Terms(q, j + 1)
    BY <1>2, CoeffsIs
  <1> HIDE DEF f, q
  <1>7. ASSUME NEW i \in Exponents, ~(i % C = 0 /\ i \div C < L) PROVE f[i] = 0
    <2>1. Spread(sp)[i] = 0
      BY <1>7 DEF Spread
    <2>2. i \in Nat
      BY <1>1
    <2>3. FrPow(Y, i) \in Field
      BY <2>2, PowNext
    <2> QED BY <1>4, <2>1, <2>3, Neutral
  <1>8. ASSUME NEW j \in Nat, j < L PROVE C * j \in Exponents /\ f[C * j] = q[j]
    <2> DEFINE i == C * j
    <2>1. i \in Exponents /\ i \in Nat
      <3>1. Cells = j + ((Cells - j - 1) + 1) /\ Cells - j - 1 \in Nat
        BY <1>1, <1>8
      <3> DEFINE d == Cells - j - 1
      <3>2. d \in Nat /\ Cells = j + (d + 1)
        BY <3>1
      <3> HIDE DEF d, C
      <3>3. C * (j + (d + 1)) = C * j + C * d + C /\ C * d \in Nat /\ C * j \in Nat
        BY <1>1, <3>2
      <3> DEFINE y == C * d
      <3>4. D = i + y + C /\ y \in Nat /\ i \in Nat
        BY <1>1, <3>2, <3>3
      <3> HIDE DEF y, i
      <3> QED BY <1>1, <3>4
    <2>2. i % C = 0 /\ i \div C = j
      <3>1. 0 \in 0..(C - 1) /\ j \in Int
        BY <1>1
      <3>2. (0 + C * j) % C = 0 /\ (0 + C * j) \div C = j
        <4> HIDE DEF C
        <4> QED BY <1>1, <3>1, DivisionIs
      <3> QED BY <2>1, <3>2
    <2>3. Spread(sp)[i] = sp[j + 1]
      BY <1>8, <2>1, <2>2 DEF Spread
    <2>4. FrPow(X, j) = FrPow(Y, i)
      BY <1>1, PowsOf
    <2>5. f[i] = q[j]
      BY <1>4, <1>6, <1>8, <2>1, <2>3, <2>4
    <2> QED BY <2>1, <2>5
  <1> HIDE DEF X
  <1>9. ASSUME NEW n \in Nat, n <= D PROVE Terms(f, n)
    BY <1>1, <1>4, <1>9 DEF Terms
  <1> DEFINE T == {j \in Nat : j <= L => FrSum(f, C * j) = FrSum(q, j)}
  <1>10. 0 \in T
    <2>1. C * 0 = 0
      BY <1>1
    <2> QED BY <2>1, TotalNone
  <1>11. ASSUME NEW j \in Nat, j \in T PROVE j + 1 \in T
    <2> SUFFICES ASSUME j + 1 <= L PROVE FrSum(f, C * (j + 1)) = FrSum(q, j + 1)
      OBVIOUS
    <2> DEFINE i == C * j
    <2>1. j < L /\ j <= L /\ FrSum(f, i) = FrSum(q, j)
      BY <1>1, <1>11
    <2>2. i \in Exponents /\ f[i] = q[j]
      BY <1>8, <2>1
    <2>3. C * (j + 1) = i + C
      BY <1>1
    <2>4. i + C <= D
      <3> DEFINE d == Cells - (j + 1)
      <3>1. d \in Nat /\ Cells = (j + 1) + d
        BY <1>1
      <3> HIDE DEF d
      <3>2. C * ((j + 1) + d) = C * (j + 1) + C * d /\ C * d \in Nat
        BY <1>1, <3>1
      <3> DEFINE y == C * d
      <3>3. D = (i + C) + y /\ y \in Nat
        BY <1>1, <2>3, <3>1, <3>2
      <3> HIDE DEF y, i
      <3> QED BY <1>1, <2>2, <3>3
    <2>5. \A k \in (i + 1)..((i + C) - 1) : f[k] = 0
      <3> SUFFICES ASSUME NEW k \in (i + 1)..((i + C) - 1) PROVE f[k] = 0
        OBVIOUS
      <3> DEFINE x == k - i
      <3>1. x \in 0..(C - 1) /\ x # 0 /\ k \in Exponents /\ k = x + i
        <4>1. i \in Int
          BY <1>1
        <4> HIDE DEF i
        <4> QED BY <1>1, <2>2, <2>4, <4>1
      <3> HIDE DEF x
      <3>2. (x + C * j) % C = x
        <4>1. C \in Nat \ {0} /\ j \in Int /\ x \in 0..(C - 1)
          BY <1>1, <3>1
        <4> HIDE DEF C
        <4> QED BY <4>1, DivisionIs
      <3> QED BY <1>7, <3>1, <3>2
    <2>6. i \in Nat /\ i + 1 \in Nat /\ i + C \in Nat /\ i + 1 <= i + C /\ i + 1 <= D
      <3> HIDE DEF i
      <3> QED BY <1>1, <2>2
    <2> HIDE DEF i
    <2>7. FrSum(f, i + C) = FrSum(f, i + 1)
      <3>1. Terms(f, i + C)
        BY <1>9, <2>4, <2>6
      <3> HIDE DEF C
      <3> QED BY <2>5, <2>6, <3>1, TotalGap
    <2>8. FrSum(f, i + 1) = FrAdd(FrSum(f, i), f[i])
      <3>1. Terms(f, i + 1)
        BY <1>9, <2>6
      <3> QED BY <2>6, <3>1, TotalNext, Zenon
    <2>9. FrSum(q, j + 1) = FrAdd(FrSum(q, j), q[j])
      <3>1. Terms(q, j + 1)
        BY <1>6, <2>1
      <3> QED BY <3>1, TotalNext, Zenon
    <2> QED BY <2>1, <2>2, <2>3, <2>7, <2>8, <2>9
  <1>12. FrSum(f, C * L) = FrSum(q, L)
    <2>1. Nat \subseteq T
      <3> HIDE DEF T
      <3> QED BY <1>10, <1>11, Induction
    <2>2. L <= L /\ L \in Nat
      BY <1>1
    <2> HIDE DEF L
    <2> QED BY <2>1, <2>2
  <1>13. FrSum(f, D) = FrSum(f, C * L)
    <2> DEFINE m == C * L
    <2>1. m \in Nat /\ m <= D
      <3> DEFINE d == Cells - L
      <3>1. d \in Nat /\ Cells = L + d
        BY <1>1
      <3> HIDE DEF d, L
      <3>2. C * (L + d) = C * L + C * d /\ C * d \in Nat /\ C * L \in Nat
        BY <1>1, <3>1
      <3> DEFINE y == C * d
      <3>3. D = m + y /\ y \in Nat /\ m \in Nat
        BY <1>1, <3>1, <3>2
      <3> HIDE DEF y, m
      <3> QED BY <3>3
    <2>2. \A i \in m..(D - 1) : f[i] = 0
      <3> SUFFICES ASSUME NEW i \in m..(D - 1) PROVE f[i] = 0
        OBVIOUS
      <3> DEFINE j == i \div C
                 x == i % C
      <3>1. i \in Exponents /\ i \in Nat /\ m <= i
        <4> HIDE DEF m
        <4> QED BY <1>1, <2>1
      <3>2. x \in 0..(C - 1) /\ j \in Nat /\ i = x + C * j
        BY <1>1, <3>1, Division
      <3> HIDE DEF j, x, C, L, D
      <3>3. ~(j < L)
        <4> SUFFICES ASSUME j < L PROVE FALSE
          OBVIOUS
        <4> DEFINE d == L - (j + 1)
        <4>1. d \in Nat /\ L = (j + 1) + d
          BY <1>1, <3>2
        <4> HIDE DEF d
        <4>2. C * ((j + 1) + d) = C * j + C + C * d /\ C * d \in Nat /\ C * j \in Nat
          BY <1>1, <3>2, <4>1
        <4> DEFINE y == C * d
                   z == C * j
        <4>3. m = z + C + y /\ y \in Nat /\ z \in Nat /\ i = x + z
          BY <3>2, <4>1, <4>2
        <4> HIDE DEF y, z, m
        <4> QED BY <1>1, <3>1, <3>2, <4>3
      <3> QED BY <1>7, <3>1, <3>3 DEF j, C
    <2>3. Terms(f, D)
      <3>1. D <= D
        BY <1>1
      <3> QED BY <1>1, <1>9, <3>1
    <2> HIDE DEF m, D
    <2> QED BY <1>1, <2>1, <2>2, <2>3, TotalGap DEF m
  <1> QED BY <1>3, <1>4, <1>5, <1>12, <1>13 DEF X

\* A value on the domain is a value at a power of the root.
LEMMA ValueAtRoot ==
  ASSUME NEW poly \in [Exponents -> Field], NEW e \in Exponents
  PROVE  ValueAt(poly, e) = PolyAt(poly, Pw(e)) /\ Pw(e) \in Field
  <1> DEFINE f == Values(poly, e)
             g == PolyTerms(poly, Pw(e))
  <1>1. DomainSize \in Nat /\ Exponents = 0..(DomainSize - 1) /\ e \in Nat
    BY Sizes DEF Exponents
  <1>2. Pw(e) \in Field
    BY <1>1, PwAdds
  <1>3. /\ \A i \in Exponents : f[i] = FrMul(poly[i], Pw(i * e)) /\ f[i] \in Field
        /\ ValueAt(poly, e) = FrSum(f, DomainSize)
    BY ValueIs
  <1>4. /\ \A i \in Exponents : g[i] = FrMul(poly[i], FrPow(Pw(e), i))
        /\ PolyAt(poly, Pw(e)) = FrSum(g, DomainSize)
    BY <1>2, PolyAtIs
  <1>5. \A i \in Exponents : FrPow(Pw(e), i) = Pw(i * e)
    <2> SUFFICES ASSUME NEW i \in Exponents PROVE FrPow(Pw(e), i) = Pw(i * e)
      OBVIOUS
    <2>1. i \in Nat
      BY <1>1
    <2>2. i * e = e * i
      BY <1>1, <2>1
    <2> QED BY <1>1, <2>1, <2>2, PowPow
  <1>6. Terms(f, DomainSize)
    BY <1>1, <1>3 DEF Terms
  <1>7. \A i \in 0..(DomainSize - 1) : g[i] = f[i]
    BY <1>1, <1>3, <1>4, <1>5
  <1> HIDE DEF f, g
  <1>8. FrSum(g, DomainSize) = FrSum(f, DomainSize)
    BY <1>1, <1>6, <1>7, TotalSame
  <1> QED BY <1>2, <1>3, <1>4, <1>8

\* So, at Root^e it takes the value it has at Root^(CellSize * e).
LEMMA SpreadValue ==
  ASSUME NEW sp \in Seq(Field), Len(sp) <= Cells, NEW e \in Exponents
  PROVE  /\ Spread(sp) \in [Exponents -> Field]
         /\ ValueAt(Spread(sp), e) = Poly(sp, Pw(CellSize * e))
  <1>1. e \in Nat /\ CellSize \in Nat
    BY Sizes DEF Exponents
  <1>2. Pw(e) \in Field
    BY <1>1, PwAdds
  <1>3. /\ Spread(sp) \in [Exponents -> Field]
        /\ PolyAt(Spread(sp), Pw(e)) = Poly(sp, FrPow(Pw(e), CellSize))
    BY <1>2, SpreadAt
  <1>4. ValueAt(Spread(sp), e) = PolyAt(Spread(sp), Pw(e))
    BY <1>3, ValueAtRoot
  <1>5. FrPow(Pw(e), CellSize) = Pw(CellSize * e)
    <2>1. e * CellSize = CellSize * e
      BY <1>1
    <2> QED BY <1>1, <2>1, PowPow
  <1> QED BY <1>3, <1>4, <1>5

\* The cell whose root is that of an element is the cell of the element.
LEMMA CellOf ==
  ASSUME NEW e \in Exponents
  PROVE  /\ CellAt(e) \in 0..(Cells - 1) /\ e \in Nat
         /\ \A g \in 0..(Cells - 1) : /\ BrevCell(g) \in 0..(Cells - 1)
                                     /\ BrevCell(g) = e % Cells <=> g = CellAt(e)
  <1> DEFINE L == LogCells
             C == Cells
             m == e % C
             c == Brev(e, L)
  <1>1. L \in Nat /\ LogCellSize \in Nat /\ C \in Nat \ {0} /\ C = 2 ^ L /\ e \in Nat
    BY Sizes DEF Cells, Exponents
  <1>2. CellAt(e) = c
    <2>1. Brev(e, L + LogCellSize) \div 2 ^ LogCellSize = Brev(e, L)
      BY <1>1, BrevHigh
    <2> QED BY <2>1 DEF CellAt, LogDomain, CellSize
  <1>3. \A i \in Nat : Brev(i, L) \in 0..(C - 1) /\ Brev(Brev(i, L), L) = i % C
    BY <1>1, BrevBelow, BrevTwice
  <1>4. c \in 0..(C - 1) /\ c \in Nat /\ Brev(c, L) = m /\ Brev(m, L) = c
    <2>1. c \in 0..(C - 1) /\ Brev(c, L) = m
      BY <1>1, <1>3
    <2> HIDE DEF c, m, C
    <2>2. c \in Nat /\ c % C = c
      BY <1>1, <2>1
    <2> QED BY <1>3, <2>1, <2>2
  <1>5. ASSUME NEW g \in 0..(C - 1)
        PROVE  BrevCell(g) \in 0..(C - 1) /\ (BrevCell(g) = m <=> g = c)
    <2>1. g \in Nat /\ g % C = g
      <3> HIDE DEF C
      <3> QED BY <1>1
    <2>2. BrevCell(g) = Brev(g, L)
      BY DEF BrevCell
    <2>3. Brev(g, L) \in 0..(C - 1) /\ Brev(Brev(g, L), L) = g
      BY <1>3, <2>1
    <2> HIDE DEF c, m, C, L
    <2> QED BY <1>4, <2>2, <2>3
  <1> HIDE DEF c
  <1> QED BY <1>1, <1>2, <1>4, <1>5

-----------------------------------------------------------------------------
(* The polynomial of the missing cells *)

\* The list has the missing cells, reversed, and each of them once.
LEMMA MissingIs ==
  ASSUME NEW G, G \subseteq 0..(Cells - 1)
  PROVE  /\ IsFiniteSet(G) /\ MissingList(G) \in Seq(0..(Cells - 1))
         /\ Len(MissingList(G)) = Cardinality(G)
         /\ \A x : (\E k \in 1..Len(MissingList(G)) : MissingList(G)[k] = x)
                   <=> \E g \in G : x = BrevCell(g)
  <1> DEFINE C == Cells
             S == 0..(C - 1)
             none == <<>>
             Step(h) == [i \in 0..C |->
               IF i = 0 THEN <<>>
               ELSE IF i - 1 \in G THEN Append(h[i - 1], BrevCell(i - 1)) ELSE h[i - 1]]
             r == CHOOSE h : h = Step(h)
             F == [x \in (1..C) \X Seq(S) |->
                    IF x[1] - 1 \in G THEN Append(x[2], BrevCell(x[1] - 1)) ELSE x[2]]
  <1>1. C \in Nat /\ none \in Seq(S) /\ Len(none) = 0 /\ 0 \in 0..C /\ C \in 0..C
    BY Sizes
  <1>2. \A g \in S : BrevCell(g) \in S
    <2>1. \A g \in 0..(Cells - 1) : BrevCell(g) \in 0..(Cells - 1)
      <3> SUFFICES ASSUME NEW g \in 0..(Cells - 1) PROVE BrevCell(g) \in 0..(Cells - 1)
        OBVIOUS
      <3>1. LogCells \in Nat /\ g \in Nat /\ Cells = 2 ^ LogCells
        BY Sizes DEF Cells
      <3> QED BY <3>1, BrevBelow DEF BrevCell
    <2> QED BY <2>1
  <1>3. \A i \in 1..C : i - 1 \in S /\ i - 1 \in 0..C /\ i # 0 /\ i \in 0..C
    BY <1>1
  <1>4. F \in [(1..C) \X Seq(S) -> Seq(S)]
    <2>1. ASSUME NEW i \in 1..C, NEW s \in Seq(S)
          PROVE  (IF i - 1 \in G THEN Append(s, BrevCell(i - 1)) ELSE s) \in Seq(S)
      <3>1. BrevCell(i - 1) \in S
        BY <1>2, <1>3
      <3> HIDE DEF S, C
      <3> QED BY <3>1
    <2> HIDE DEF S, C
    <2> QED BY <2>1
  <1>5. PICK f \in [0..C -> Seq(S)] : Follows(f, C, none, F)
    <2> HIDE DEF C, S, none, F
    <2> QED BY <1>1, <1>4, Recursion, Zenon
  <1>6. f = Step(f)
    <2>1. ASSUME NEW i \in 0..C, i # 0
          PROVE  f[i] = IF i - 1 \in G THEN Append(f[i - 1], BrevCell(i - 1)) ELSE f[i - 1]
      <3>1. i \in 1..C /\ i - 1 \in 0..C
        BY <1>1, <2>1
      <3> HIDE DEF C, S
      <3>2. <<i, f[i - 1]>> \in (1..C) \X Seq(S) /\ f[i] = F[<<i, f[i - 1]>>]
        BY <1>5, <3>1 DEF Follows
      <3> QED BY <3>2
    <2>2. f[0] = <<>>
      BY <1>5 DEF Follows
    <2>3. f = [i \in 0..C |-> f[i]]
      OBVIOUS
    <2> HIDE DEF C, S, F
    <2> QED BY <2>1, <2>2, <2>3
  <1>7. r = Step(r)
    <2> HIDE DEF Step
    <2> QED BY <1>6
  <1>8. MissingList(G) = r[C]
    BY DEF MissingList
  <1> HIDE DEF r, F
  <1>9. r[0] = <<>>
    BY <1>1, <1>7
  <1>10. \A i \in 1..C : r[i] = IF i - 1 \in G THEN Append(r[i - 1], BrevCell(i - 1)) ELSE r[i - 1]
    BY <1>3, <1>7
  <1> HIDE DEF Step
  <1> DEFINE Below(n) == {g \in G : g < n}
             Good(n) == /\ r[n] \in Seq(S) /\ IsFiniteSet(Below(n))
                        /\ Len(r[n]) = Cardinality(Below(n))
                        /\ \A x : (\E k \in 1..Len(r[n]) : r[n][k] = x)
                                  <=> \E g \in Below(n) : x = BrevCell(g)
             T == {n \in Nat : n <= C => Good(n)}
  <1> HIDE DEF Good
  <1>11. 0 \in T
    <2>1. Below(0) = {}
      <3>1. \A g \in G : g \in Nat /\ ~(g < 0)
        BY <1>1
      <3> QED BY <3>1
    <2> HIDE DEF Below, S
    <2>2. r[0] \in Seq(S) /\ Len(r[0]) = 0 /\ 1..0 = {}
      BY <1>1, <1>9
    <2>3. IsFiniteSet({}) /\ Cardinality({}) = 0
      BY FS_EmptySet
    <2>4. Good(0)
      BY <2>1, <2>2, <2>3 DEF Good
    <2> QED BY <2>4
  <1>12. ASSUME NEW n \in Nat, n \in T PROVE n + 1 \in T
    <2> SUFFICES ASSUME n + 1 <= C PROVE Good(n + 1)
      OBVIOUS
    <2> DEFINE m == n + 1
    <2>1. m \in 1..C /\ m - 1 = n /\ n <= C /\ n \in S
      BY <1>1
    <2>2. Good(n)
      BY <1>12, <2>1
    <2>3. \A g \in G : g \in Nat
      BY <1>1
    <2>4. CASE n \in G
      <3>1. Below(m) = Below(n) \cup {n} /\ n \notin Below(n)
        <4>1. ~(n < n) /\ \A g \in G : g < m <=> g < n \/ g = n
          BY <2>3
        <4> HIDE DEF m, T
        <4> QED BY <2>4, <4>1
      <3> HIDE DEF Below, m
      <3>2. IsFiniteSet(Below(m)) /\ Cardinality(Below(m)) = Cardinality(Below(n)) + 1
        BY <2>2, <3>1, FS_AddElement DEF Good
      <3>3. r[m] = Append(r[n], BrevCell(n)) /\ BrevCell(n) \in S
        BY <1>2, <1>10, <2>1, <2>4
      <3> DEFINE s == r[n]
                 t == r[m]
                 y == BrevCell(n)
      <3>4. s \in Seq(S) /\ y \in S /\ t = Append(s, y)
        BY <2>2, <3>3 DEF Good
      <3> HIDE DEF s, t, y, S
      <3>5. /\ t \in Seq(S) /\ Len(t) = Len(s) + 1 /\ Len(s) \in Nat /\ t[Len(s) + 1] = y
            /\ \A k \in 1..Len(s) : t[k] = s[k]
        BY <3>4
      <3>6. 1..Len(t) = (1..Len(s)) \cup {Len(s) + 1}
        BY <3>5
      <3>7. \A x : (\E k \in 1..Len(t) : t[k] = x) <=> (\E k \in 1..Len(s) : s[k] = x) \/ x = y
        BY <3>5, <3>6
      <3>8. \A x : (\E k \in 1..Len(s) : s[k] = x) <=> \E g \in Below(n) : x = BrevCell(g)
        BY <2>2 DEF s, Good
      <3>9. \A x : (\E k \in 1..Len(t) : t[k] = x) <=> \E g \in Below(m) : x = BrevCell(g)
        BY <3>1, <3>7, <3>8 DEF y
      <3>10. Len(s) = Cardinality(Below(n))
        BY <2>2 DEF s, Good
      <3>11. Good(m)
        BY <3>2, <3>5, <3>9, <3>10 DEF t, Good
      <3> QED BY <3>11 DEF m
    <2>5. CASE n \notin G
      <3>1. Below(m) = Below(n)
        <4>1. \A g \in G : g < m <=> g < n \/ g = n
          BY <2>3
        <4> HIDE DEF m, T
        <4> QED BY <2>5, <4>1
      <3>2. r[m] = r[n]
        <4> HIDE DEF m
        <4> QED BY <1>10, <2>1, <2>5
      <3> HIDE DEF Below
      <3> QED BY <2>2, <3>1, <3>2 DEF Good
    <2> QED BY <2>4, <2>5
  <1>13. Good(C)
    <2>1. Nat \subseteq T
      <3> HIDE DEF T
      <3> QED BY <1>11, <1>12, Induction
    <2>2. C <= C
      BY <1>1
    <2> QED BY <1>1, <2>1, <2>2
  <1>14. Below(C) = G
    <2>1. \A g \in G : g < C
      BY <1>1
    <2> HIDE DEF C, T
    <2> QED BY <2>1
  <1> HIDE DEF Below, T
  <1> QED BY <1>8, <1>13, <1>14 DEF Good

\* It is zero on the missing cells' elements and nowhere else.
LEMMA VanishesOnMissing ==
  ASSUME NEW G, G \subseteq 0..(Cells - 1), Cardinality(G) <= Cells \div 2
  PROVE  LET sp == Short(MissingList(G)) IN
         /\ Spread(sp) \in [Exponents -> Field]
         /\ \A e \in Exponents : ValueAt(Spread(sp), e) = 0 <=> CellAt(e) \in G
  <1> DEFINE list == MissingList(G)
             sp == Short(list)
             C == CellSize
             N == Cells
  <1>1. /\ list \in Seq(0..(N - 1)) /\ Len(list) = Cardinality(G) /\ IsFiniteSet(G)
        /\ \A x : (\E k \in 1..Len(list) : list[k] = x) <=> \E g \in G : x = BrevCell(g)
    BY MissingIs
  <1>2. C \in Nat \ {0} /\ N \in Nat /\ DomainSize = C * N /\ DomainSize = N * C /\ N >= 2
    <2>1. LogCells - 1 \in Nat /\ (LogCells - 1) + 1 = LogCells
      BY Sizes
    <2> DEFINE h == 2 ^ (LogCells - 1)
    <2>2. h \in Nat \ {0} /\ N = 2 * h
      BY <2>1, PowersOfTwo DEF Cells
    <2> HIDE DEF h
    <2>3. N >= 2
      BY <2>2
    <2> QED BY <2>3, Sizes
  <1>3. Len(list) + 1 <= N
    <2>1. Len(list) \in Nat /\ Len(list) <= N \div 2
      BY <1>1, FS_CardinalityType
    <2> DEFINE l == Len(list)
    <2> HIDE DEF l, N
    <2> QED BY <1>2, <2>1 DEF l
  <1> HIDE DEF list
  <1>4. ASSUME NEW X \in Field
        PROVE  /\ sp \in Seq(Field) /\ Len(sp) <= N
               /\ Poly(sp, X) = 0 <=> \E k \in 1..Len(list) : X = Pw(list[k] * CellSize)
    BY <1>1, <1>3, ShortIs
  <1>5. sp \in Seq(Field) /\ Len(sp) <= N
    BY <1>4, Closed
  <1>6. ASSUME NEW e \in Exponents
        PROVE  Spread(sp) \in [Exponents -> Field] /\ ValueAt(Spread(sp), e) = Poly(sp, Pw(C * e))
    <2> HIDE DEF sp
    <2> QED BY <1>5, SpreadValue
  <1>7. Spread(sp) \in [Exponents -> Field]
    <2>1. 0 \in Exponents
      BY Sizes DEF Exponents
    <2> QED BY <1>6, <2>1
  <1> HIDE DEF sp
  <1>8. ASSUME NEW e \in Exponents PROVE ValueAt(Spread(sp), e) = 0 <=> CellAt(e) \in G
    <2> DEFINE m == e % N
               t == e \div N
               X == Pw(C * e)
    <2>1. e \in Nat /\ m \in 0..(N - 1) /\ t \in Nat /\ e = m + N * t
      <3>1. e \in Nat
        BY Sizes DEF Exponents
      <3>2. N \in Nat \ {0}
        BY <1>2
      <3> HIDE DEF N
      <3> QED BY <3>1, <3>2, Division
    <2> HIDE DEF m, t
    <2>2. X = Pw(m * CellSize) /\ X \in Field
      <3>1. C * e = m * C + DomainSize * t /\ m * C \in Nat
        <4> HIDE DEF C, N
        <4>1. C * (m + N * t) = m * C + (C * N) * t /\ m * C \in Nat
          BY <1>2, <2>1
        <4> QED BY <1>2, <2>1, <4>1
      <3>2. Pw(m * C + DomainSize * t) = Pw(m * C)
        BY <2>1, <3>1, PwPeriod
      <3> QED BY <3>1, <3>2, PwAdds
    <2> HIDE DEF X
    <2>3. ASSUME NEW i \in 0..(N - 1) PROVE X = Pw(i * CellSize) <=> i = m
      <3>1. i * CellSize \in Exponents /\ m * CellSize \in Exponents
        BY <2>1, CellRoot
      <3>2. X = Pw(i * CellSize) => i * CellSize = m * CellSize
        BY <2>2, <3>1, PwDistinct
      <3>3. i * CellSize = m * CellSize => i = m
        <4> SUFFICES ASSUME i * C = m * C, i # m PROVE FALSE
          OBVIOUS
        <4> DEFINE d == i - m
        <4>1. i \in Int /\ m \in Int /\ C \in Int /\ C > 0 /\ d \in Int /\ d # 0
          BY <1>2, <2>1
        <4> HIDE DEF C
        <4>2. (i - m) * C = i * C - m * C /\ i * C \in Int /\ m * C \in Int
          BY <4>1
        <4> DEFINE x == i * C
                   y == m * C
        <4>3. x \in Int /\ x = y /\ d * C = x - y
          BY <4>2
        <4> HIDE DEF x, y, d
        <4>4. d * C = 0
          BY <4>3
        <4>5. d >= 1 => d * C >= C
          BY <4>1
        <4>6. d <= -1 => d * C <= -C
          BY <4>1
        <4> DEFINE z == d * C
        <4>7. z = 0 /\ (d >= 1 => z >= C) /\ (d <= -1 => z <= -C)
          BY <4>4, <4>5, <4>6
        <4> HIDE DEF z
        <4> QED BY <4>1, <4>7
      <3> QED BY <2>2, <3>2, <3>3
    <2>4. \A k \in 1..Len(list) : list[k] \in 0..(N - 1)
      <3> DEFINE S == 0..(N - 1)
      <3>1. list \in Seq(S)
        BY <1>1
      <3> HIDE DEF S
      <3>2. \A k \in 1..Len(list) : list[k] \in S
        BY <3>1
      <3> QED BY <3>2 DEF S
    <2>5. ValueAt(Spread(sp), e) = 0 <=> \E k \in 1..Len(list) : X = Pw(list[k] * CellSize)
      BY <1>4, <1>6, <2>2 DEF X
    <2>6. (\E k \in 1..Len(list) : X = Pw(list[k] * CellSize)) <=> \E k \in 1..Len(list) : list[k] = m
      BY <2>3, <2>4
    <2>7. (\E k \in 1..Len(list) : list[k] = m) <=> \E g \in G : m = BrevCell(g)
      BY <1>1
    <2>8. \A g \in G : m = BrevCell(g) <=> g = CellAt(e)
      BY CellOf DEF m
    <2> QED BY <2>5, <2>6, <2>7, <2>8
  <1> QED BY <1>7, <1>8 DEF sp, list

-----------------------------------------------------------------------------
(* A blob's polynomial *)

\* The polynomial of a blob, with the coefficients it has not.
Padded(p) == [i \in Exponents |-> IF i < BlobSize THEN p[i] ELSE 0]

\* The half of the domain a blob fills.
LEMMA BlobIs ==
  /\ BlobSize \in Nat /\ DomainSize = BlobSize + BlobSize /\ DomainSize \in Nat
  /\ Exponents = 0..(DomainSize - 1) /\ BlobExponents = 0..(BlobSize - 1)
  /\ BlobExponents \subseteq Exponents /\ Cardinality(BlobExponents) = BlobSize
  <1> DEFINE n == BlobSize
  <1>1. n \in Nat \ {0} /\ DomainSize = 2 * n
    BY Halves DEF BlobSize
  <1>2. Cardinality(0..(n - 1)) = n
    <2>1. Cardinality(0..(n - 1)) = IF 0 > n - 1 THEN 0 ELSE (n - 1) - 0 + 1
      <3>1. 0 \in Int /\ n - 1 \in Int
        BY <1>1
      <3> HIDE DEF n
      <3> QED BY <3>1, FS_Interval
    <2> HIDE DEF n
    <2> QED BY <1>1, <2>1
  <1>3. 2 * n = n + n /\ 2 * n \in Nat
    <2> HIDE DEF n
    <2> QED BY <1>1
  <1> QED BY <1>1, <1>2, <1>3 DEF Exponents, BlobExponents

\* Its values on the domain.
LEMMA BlobValues ==
  ASSUME NEW p \in [BlobExponents -> Field], NEW e \in Exponents
  PROVE  /\ Padded(p) \in [Exponents -> Field]
         /\ ValueAt(p, e) = PolyAt(Padded(p), Pw(e)) /\ ValueAt(p, e) \in Field
  <1> DEFINE D == DomainSize
             B == BlobSize
             X == Pw(e)
             f == PolyTerms(Padded(p), X)
             g == [i \in DOMAIN p |-> FrMul(p[i], RootPowers[((i * e) % DomainSize) + 1])]
  <1>1. /\ B \in Nat /\ D \in Nat /\ B <= D /\ Exponents = 0..(D - 1) /\ BlobExponents = 0..(B - 1)
        /\ e \in Nat
    BY BlobIs
  <1>2. Padded(p) \in [Exponents -> Field]
    <2> SUFFICES ASSUME NEW i \in Exponents, i < BlobSize PROVE p[i] \in Field
      BY Closed DEF Padded
    <2>1. i \in BlobExponents
      BY <1>1
    <2> QED BY <2>1
  <1>3. X \in Field
    BY <1>1, PwAdds
  <1>4. /\ \A i \in Exponents : f[i] = FrMul(Padded(p)[i], FrPow(X, i)) /\ f[i] \in Field
        /\ \A i \in Exponents : FrPow(X, i) \in Field
        /\ Terms(f, D) /\ PolyAt(Padded(p), X) = FrSum(f, D) /\ FrSum(f, D) \in Field
    <2> HIDE DEF X
    <2> QED BY <1>2, <1>3, PolyAtIs
  <1> HIDE DEF f
  <1>5. ASSUME NEW i \in 0..(B - 1) PROVE g[i] = f[i]
    <2>1. i \in Exponents /\ i \in BlobExponents /\ i \in Nat /\ i < BlobSize
      BY <1>1
    <2>2. Padded(p)[i] = p[i]
      BY <2>1 DEF Padded
    <2> DEFINE n == i * e
    <2>3. n \in Nat /\ n = e * i
      BY <1>1, <2>1
    <2>4. g[i] = FrMul(p[i], RootPowers[(n % DomainSize) + 1])
      BY <2>1
    <2>5. FrPow(X, i) = Pw(n)
      BY <1>1, <2>1, <2>3, PowPow
    <2> HIDE DEF n
    <2>6. RootPowers[(n % DomainSize) + 1] = Pw(n)
      BY <2>3, PwReduced, RootEntries
    <2> QED BY <1>4, <2>1, <2>2, <2>4, <2>5, <2>6
  <1>6. ValueAt(p, e) = FrSum(g, B)
    <2>1. DOMAIN p = BlobExponents /\ Cardinality(BlobExponents) = B
      BY BlobIs
    <2> QED BY <2>1 DEF ValueAt
  <1>7. ASSUME NEW i \in B..(D - 1) PROVE f[i] = 0
    <2>1. i \in Exponents /\ ~(i < BlobSize)
      BY <1>1
    <2>2. Padded(p)[i] = 0
      BY <2>1 DEF Padded
    <2> QED BY <1>4, <2>1, <2>2, Neutral
  <1>8. Terms(f, B)
    BY <1>1, <1>4 DEF Terms
  <1> HIDE DEF g, X, B, D
  <1>9. FrSum(g, B) = FrSum(f, B)
    BY <1>1, <1>5, <1>8, TotalSame
  <1>10. FrSum(f, D) = FrSum(f, B)
    BY <1>1, <1>4, <1>7, TotalGap
  <1> QED BY <1>2, <1>4, <1>6, <1>9, <1>10 DEF X

\* A transform forward has the values of a polynomial on the domain; of one whose
\* coefficients were multiplied by the powers of c, those on c times the domain.
LEMMA DftValues ==
  ASSUME NEW poly \in [Exponents -> Field], NEW c \in Field, NEW k \in Exponents
  PROVE  /\ Dft(poly, RootsFwd)[k] = PolyAt(poly, Pw(k))
         /\ [i \in Exponents |-> FrMul(poly[i], FrPow(c, i))] \in [Exponents -> Field]
         /\ Dft([i \in Exponents |-> FrMul(poly[i], FrPow(c, i))], RootsFwd)[k]
              = PolyAt(poly, FrMul(c, Pw(k)))
  <1> DEFINE R == RootsFwd
             y == [i \in Exponents |-> FrMul(poly[i], FrPow(c, i))]
             Z == FrMul(c, Pw(k))
  <1>1. DomainSize \in Nat /\ Exponents = 0..(DomainSize - 1) /\ k \in Nat /\ R \in RootTables
    BY Sizes, BothWays DEF Exponents
  <1>2. Pw(k) \in Field
    BY <1>1, PwAdds
  <1>3. Z \in Field
    BY <1>2, Closed
  <1>4. \A i \in Exponents : i \in Nat /\ poly[i] \in Field
    BY <1>1
  <1>5. y \in [Exponents -> Field]
    <2> DEFINE F(i) == FrMul(poly[i], FrPow(c, i))
    <2>1. \A i \in Exponents : F(i) \in Field
      BY <1>4, PowNext, Closed
    <2> HIDE DEF F
    <2>2. [i \in Exponents |-> F(i)] \in [Exponents -> Field]
      BY <2>1
    <2> QED BY <2>2 DEF F
  <1>6. ASSUME NEW i \in Exponents
        PROVE  RootAt(R, i * k) = FrPow(Pw(k), i) /\ FrPow(Pw(k), i) \in Field
    <2> DEFINE n == i * k
    <2>1. n \in Nat /\ n = k * i
      BY <1>1, <1>4
    <2>2. RootAt(R, n) = Pw(n)
      <3> HIDE DEF n
      <3> QED BY <2>1, BothWays
    <2>3. FrPow(Pw(k), i) = Pw(n)
      BY <1>1, <1>4, <2>1, PowPow
    <2>4. FrPow(Pw(k), i) \in Field
      BY <1>2, <1>4, PowNext
    <2> QED BY <2>2, <2>3, <2>4
  <1>7. Dft(poly, R)[k] = PolyAt(poly, Pw(k))
    <2> DEFINE f == DftTerms(poly, R, k)
               g == PolyTerms(poly, Pw(k))
    <2>1. \A i \in Exponents : f[i] = g[i]
      BY <1>6 DEF DftTerms, PolyTerms
    <2>2. Terms(g, DomainSize) /\ PolyAt(poly, Pw(k)) = FrSum(g, DomainSize)
      <3> HIDE DEF g
      <3> QED BY <1>2, PolyAtIs DEF g
    <2>3. Dft(poly, R)[k] = FrSum(f, DomainSize)
      BY DEF Dft
    <2> HIDE DEF f, g
    <2>4. FrSum(f, DomainSize) = FrSum(g, DomainSize)
      BY <1>1, <2>1, <2>2, TotalSame
    <2> QED BY <2>2, <2>3, <2>4
  <1>8. Dft(y, R)[k] = PolyAt(poly, Z)
    <2> DEFINE f == DftTerms(y, R, k)
               g == PolyTerms(poly, Z)
    <2>1. ASSUME NEW i \in Exponents PROVE f[i] = g[i]
      <3> DEFINE u == poly[i]
                 v == FrPow(c, i)
                 w == FrPow(Pw(k), i)
      <3>1. u \in Field /\ v \in Field /\ w \in Field
        BY <1>4, <1>6, PowNext
      <3>2. f[i] = FrMul(FrMul(u, v), w)
        BY <1>6 DEF DftTerms
      <3>3. FrPow(Z, i) = FrMul(v, w)
        BY <1>2, <1>4, PowsOf
      <3>4. g[i] = FrMul(u, FrMul(v, w))
        BY <3>3 DEF PolyTerms
      <3> HIDE DEF u, v, w, f, g
      <3>5. FrMul(FrMul(u, v), w) = FrMul(u, FrMul(v, w))
        BY <3>1, MulAssociates
      <3> QED BY <3>2, <3>4, <3>5
    <2>2. Terms(g, DomainSize) /\ PolyAt(poly, Z) = FrSum(g, DomainSize)
      <3> HIDE DEF Z
      <3> QED BY <1>3, PolyAtIs
    <2>3. Dft(y, R)[k] = FrSum(f, DomainSize)
      BY DEF Dft
    <2> HIDE DEF f, g, Z, y
    <2>4. FrSum(f, DomainSize) = FrSum(g, DomainSize)
      BY <1>1, <2>1, <2>2, TotalSame
    <2> QED BY <2>2, <2>3, <2>4
  <1> QED BY <1>5, <1>7, <1>8

-----------------------------------------------------------------------------
(* Products *)

\* A polynomial of degree at most BlobSize times X^n.
Raised(z, n) == [i \in Exponents |-> IF i < n THEN 0 ELSE z[i - n]]

\* Its values.
LEMMA RaisedAt ==
  ASSUME NEW z \in [Exponents -> Field], \A i \in Exponents : i > BlobSize => z[i] = 0,
         NEW n \in BlobExponents
  PROVE  /\ Raised(z, n) \in [Exponents -> Field]
         /\ \A X \in Field : PolyAt(Raised(z, n), X) = FrMul(FrPow(X, n), PolyAt(z, X))
  <1> DEFINE D == DomainSize
             y == Raised(z, n)
             m == D - n
  <1>1. /\ D \in Nat /\ Exponents = 0..(D - 1) /\ n \in Nat /\ m \in Nat /\ D = n + m
        /\ n < BlobSize /\ BlobSize \in Nat /\ m > BlobSize /\ m <= D
    BY BlobIs
  <1>2. y \in [Exponents -> Field]
    <2> SUFFICES ASSUME NEW i \in Exponents, ~(i < n) PROVE z[i - n] \in Field
      BY Closed DEF Raised
    <2>1. i - n \in Exponents
      BY <1>1
    <2> QED BY <2>1
  <1>3. ASSUME NEW X \in Field PROVE PolyAt(y, X) = FrMul(FrPow(X, n), PolyAt(z, X))
    <2> DEFINE f == PolyTerms(y, X)
               g == PolyTerms(z, X)
               h == [i \in 0..(m - 1) |-> f[n + i]]
               w == FrPow(X, n)
    <2>1. w \in Field
      BY <1>1, PowNext
    <2>2. /\ \A i \in Exponents : f[i] = FrMul(y[i], FrPow(X, i)) /\ FrPow(X, i) \in Field
          /\ Terms(f, D) /\ PolyAt(y, X) = FrSum(f, D)
      <3> HIDE DEF y
      <3> QED BY <1>2, PolyAtIs
    <2>3. /\ \A i \in Exponents : g[i] = FrMul(z[i], FrPow(X, i)) /\ z[i] \in Field
          /\ Terms(g, D) /\ PolyAt(z, X) = FrSum(g, D)
      BY PolyAtIs
    <2> HIDE DEF f, g
    <2>4. \A i \in 0..(n - 1) : f[i] = 0
      <3> SUFFICES ASSUME NEW i \in 0..(n - 1) PROVE f[i] = 0
        OBVIOUS
      <3>1. i \in Exponents /\ i < n
        BY <1>1
      <3>2. y[i] = 0
        BY <3>1 DEF Raised
      <3> QED BY <2>2, <3>1, <3>2, Neutral
    <2>5. ASSUME NEW i \in 0..(m - 1) PROVE h[i] = FrMul(w, g[i])
      <3>1. i \in Exponents /\ n + i \in Exponents /\ i \in Nat /\ ~(n + i < n) /\ (n + i) - n = i
        BY <1>1
      <3>2. y[n + i] = z[i]
        BY <3>1 DEF Raised
      <3>3. FrPow(X, n + i) = FrMul(w, FrPow(X, i))
        BY <1>1, <3>1, PowAdds
      <3>4. h[i] = FrMul(z[i], FrMul(w, FrPow(X, i)))
        BY <2>2, <3>1, <3>2, <3>3
      <3>5. z[i] \in Field /\ FrPow(X, i) \in Field
        BY <2>2, <3>1
      <3> HIDE DEF w, h
      <3>6. FrMul(z[i], FrMul(w, FrPow(X, i))) = FrMul(w, FrMul(z[i], FrPow(X, i)))
        BY <2>1, <3>5, MulSwapped
      <3> QED BY <2>3, <3>1, <3>4, <3>6
    <2>6. \A i \in m..(D - 1) : g[i] = 0
      <3> SUFFICES ASSUME NEW i \in m..(D - 1) PROVE g[i] = 0
        OBVIOUS
      <3>1. i \in Exponents /\ i > BlobSize
        BY <1>1
      <3>2. z[i] = 0 /\ FrPow(X, i) \in Field
        BY <2>2, <3>1
      <3> QED BY <2>3, <3>1, <3>2, Neutral
    <2>7. \A i \in 0..(m - 1) : h[i] = f[n + i]
      OBVIOUS
    <2> HIDE DEF h, m, D, w
    <2>8. Terms(g, m)
      BY <1>1, <2>3 DEF Terms
    <2>9. FrSum(f, n + m) = FrAdd(FrSum(f, n), FrSum(h, m)) /\ Terms(f, n)
      <3>1. Terms(f, n + m) /\ n \in Nat /\ m \in Nat
        BY <1>1, <2>2
      <3> QED BY <2>7, <3>1, TotalSplit
    <2>10. FrSum(f, n) = 0
      <3>1. 0 \in Nat /\ 0 <= n
        BY <1>1
      <3>2. FrSum(f, n) = FrSum(f, 0)
        BY <1>1, <2>4, <2>9, <3>1, TotalGap
      <3> QED BY <3>2, TotalNone
    <2>11. FrSum(h, m) = FrMul(w, FrSum(g, m)) /\ Terms(h, m)
      BY <1>1, <2>1, <2>5, <2>8, TotalScales
    <2>12. FrSum(g, D) = FrSum(g, m)
      BY <1>1, <2>3, <2>6, TotalGap
    <2>13. FrAdd(0, FrSum(h, m)) = FrSum(h, m)
      <3>1. FrSum(h, m) \in Field
        BY <1>1, <2>11, TotalIn
      <3> QED BY <3>1, Neutral
    <2> QED BY <1>1, <2>2, <2>3, <2>9, <2>10, <2>11, <2>12, <2>13 DEF w
  <1> QED BY <1>2, <1>3

\* A blob's polynomial times one of degree at most BlobSize fits in the domain.
LEMMA ProductExists ==
  ASSUME NEW p \in [BlobExponents -> Field],
         NEW z \in [Exponents -> Field], \A i \in Exponents : i > BlobSize => z[i] = 0
  PROVE  \E r \in [Exponents -> Field] :
           \A X \in Field : PolyAt(r, X) = FrMul(PolyAt(Padded(p), X), PolyAt(z, X))
  <1> DEFINE D == DomainSize
             B == BlobSize
             y == Padded(p)
             T == {n \in Nat : n <= B => \E r \in [Exponents -> Field] :
                     \A X \in Field : PolyAt(r, X) = FrMul(FrSum(PolyTerms(y, X), n), PolyAt(z, X))}
  <1>1. /\ B \in Nat /\ D \in Nat /\ B <= D /\ Exponents = 0..(D - 1) /\ BlobExponents = 0..(B - 1)
        /\ 0 \in Exponents \/ D = 0
    BY BlobIs
  <1>2. y \in [Exponents -> Field]
    <2>1. 0 \in Exponents
      BY Sizes DEF Exponents
    <2> QED BY <2>1, BlobValues
  <1>3. ASSUME NEW X \in Field
        PROVE  /\ Terms(PolyTerms(y, X), D) /\ PolyAt(y, X) = FrSum(PolyTerms(y, X), D)
               /\ PolyAt(z, X) \in Field
               /\ \A i \in Exponents : PolyTerms(y, X)[i] = FrMul(y[i], FrPow(X, i))
                                       /\ FrPow(X, i) \in Field /\ y[i] \in Field
    <2> HIDE DEF y
    <2> QED BY <1>2, PolyAtIs
  <1>4. 0 \in T
    <2> DEFINE r == [i \in Exponents |-> 0]
    <2>1. r \in [Exponents -> Field]
      BY Closed
    <2>2. ASSUME NEW X \in Field PROVE PolyAt(r, X) = FrMul(FrSum(PolyTerms(y, X), 0), PolyAt(z, X))
      <3> DEFINE f == PolyTerms(r, X)
      <3>1. /\ \A i \in Exponents : f[i] = FrMul(r[i], FrPow(X, i)) /\ FrPow(X, i) \in Field
            /\ Terms(f, D) /\ PolyAt(r, X) = FrSum(f, D)
        <4> HIDE DEF r
        <4> QED BY <2>1, PolyAtIs
      <3> HIDE DEF f
      <3>2. \A i \in 0..(D - 1) : f[i] = 0
        BY <1>1, <3>1, Neutral
      <3>3. FrSum(f, D) = FrSum(f, 0)
        <4>1. 0 \in Nat /\ 0 <= D
          BY <1>1
        <4> HIDE DEF D
        <4> QED BY <1>1, <3>1, <3>2, <4>1, TotalGap
      <3>4. FrMul(0, PolyAt(z, X)) = 0
        BY <1>3, Neutral
      <3> QED BY <3>1, <3>3, <3>4, TotalNone
    <2> HIDE DEF r
    <2> QED BY <2>1, <2>2
  <1>5. ASSUME NEW n \in Nat, n \in T PROVE n + 1 \in T
    <2> DEFINE Holds(r, k) ==
          \A X \in Field : PolyAt(r, X) = FrMul(FrSum(PolyTerms(y, X), k), PolyAt(z, X))
    <2> SUFFICES ASSUME n + 1 <= B PROVE \E r \in [Exponents -> Field] : Holds(r, n + 1)
      OBVIOUS
    <2>1. n < D /\ n <= B /\ n \in Exponents /\ n \in BlobExponents
      BY <1>1
    <2>2. PICK s \in [Exponents -> Field] : Holds(s, n)
      BY <1>5, <2>1
    <2> DEFINE c == y[n]
               t == Raised(z, n)
               r == [i \in Exponents |-> FrAdd(s[i], FrMul(c, t[i]))]
    <2>3. c \in Field
      BY <1>2, <2>1
    <2>4. t \in [Exponents -> Field] /\ \A X \in Field : PolyAt(t, X) = FrMul(FrPow(X, n), PolyAt(z, X))
      BY <2>1, RaisedAt
    <2> HIDE DEF c, t
    <2>5. \A i \in Exponents : s[i] \in Field /\ t[i] \in Field /\ FrMul(c, t[i]) \in Field
      BY <2>3, <2>4, Closed
    <2>6. r \in [Exponents -> Field]
      <3> DEFINE F(i) == FrAdd(s[i], FrMul(c, t[i]))
      <3>1. \A i \in Exponents : F(i) \in Field
        BY <2>5, Closed
      <3> HIDE DEF F
      <3>2. [i \in Exponents |-> F(i)] \in [Exponents -> Field]
        BY <3>1
      <3> QED BY <3>2 DEF F
    <2>7. ASSUME NEW X \in Field
          PROVE  PolyAt(r, X) = FrMul(FrSum(PolyTerms(y, X), n + 1), PolyAt(z, X))
      <3> DEFINE u == PolyTerms(s, X)
                 v == PolyTerms(t, X)
                 w == PolyTerms(r, X)
                 cv == [i \in Exponents |-> FrMul(c, v[i])]
                 S == FrSum(PolyTerms(y, X), n)
                 Z == PolyAt(z, X)
                 x == FrPow(X, n)
      <3>1. /\ \A i \in Exponents : u[i] = FrMul(s[i], FrPow(X, i)) /\ FrPow(X, i) \in Field
            /\ Terms(u, D) /\ PolyAt(s, X) = FrSum(u, D) /\ PolyAt(s, X) \in Field
        BY PolyAtIs
      <3>2. /\ \A i \in Exponents : v[i] = FrMul(t[i], FrPow(X, i))
            /\ Terms(v, D) /\ PolyAt(t, X) = FrSum(v, D) /\ PolyAt(t, X) \in Field
        BY <2>4, PolyAtIs
      <3>3. /\ \A i \in Exponents : w[i] = FrMul(r[i], FrPow(X, i))
            /\ PolyAt(r, X) = FrSum(w, D)
        <4> HIDE DEF r
        <4> QED BY <2>6, PolyAtIs
      <3>4. \A i \in Exponents : r[i] = FrAdd(s[i], FrMul(c, t[i]))
        OBVIOUS
      <3>5. \A i \in Exponents : cv[i] = FrMul(c, v[i])
        OBVIOUS
      <3> HIDE DEF u, v, w, r, cv
      <3>6. ASSUME NEW i \in Exponents PROVE w[i] = FrAdd(u[i], cv[i])
        <4> DEFINE xi == FrPow(X, i)
                   ct == FrMul(c, t[i])
        <4>1. xi \in Field /\ s[i] \in Field /\ t[i] \in Field /\ ct \in Field
          BY <2>5, <3>1
        <4>2. w[i] = FrMul(FrAdd(s[i], ct), xi)
          BY <3>3, <3>4
        <4>3. cv[i] = FrMul(c, FrMul(t[i], xi)) /\ u[i] = FrMul(s[i], xi)
          BY <3>1, <3>2, <3>5
        <4>4. FrMul(ct, xi) = FrMul(c, FrMul(t[i], xi))
          <5> HIDE DEF xi
          <5> QED BY <2>3, <4>1, MulAssociates
        <4> HIDE DEF xi, ct
        <4>5. FrMul(FrAdd(s[i], ct), xi) = FrAdd(FrMul(s[i], xi), FrMul(ct, xi))
          <5>1. FrMul(xi, FrAdd(s[i], ct)) = FrAdd(FrMul(xi, s[i]), FrMul(xi, ct))
            BY <4>1, FieldDistributes
          <5>2. FrMul(xi, s[i]) = FrMul(s[i], xi) /\ FrMul(xi, ct) = FrMul(ct, xi)
            BY <4>1, Commutes
          <5>3. FrAdd(s[i], ct) \in Field
            BY <4>1, Closed
          <5>4. FrMul(FrAdd(s[i], ct), xi) = FrMul(xi, FrAdd(s[i], ct))
            BY <4>1, <5>3, Commutes
          <5> QED BY <5>1, <5>2, <5>4
        <4> QED BY <4>2, <4>3, <4>4, <4>5
      <3>7. Terms(cv, D) /\ FrSum(cv, D) = FrMul(c, FrSum(v, D))
        <4> HIDE DEF D
        <4> QED BY <1>1, <2>3, <3>2, <3>5, TotalScales
      <3>8. FrSum(w, D) = FrAdd(FrSum(u, D), FrSum(cv, D))
        <4> HIDE DEF D
        <4> QED BY <1>1, <3>1, <3>6, <3>7, TotalAdds
      <3>9. PolyAt(s, X) = FrMul(S, Z) /\ PolyAt(t, X) = FrMul(x, Z)
        BY <2>2, <2>4
      <3>10. FrSum(PolyTerms(y, X), n + 1) = FrAdd(S, FrMul(c, x)) /\ S \in Field /\ x \in Field /\ Z \in Field
        <4>1. Terms(PolyTerms(y, X), D) /\ PolyTerms(y, X)[n] = FrMul(y[n], FrPow(X, n)) /\ x \in Field
          BY <1>3, <2>1
        <4> DEFINE f == PolyTerms(y, X)
        <4> HIDE DEF f, D, y
        <4>2. FrSum(f, n + 1) = FrAdd(FrSum(f, n), f[n]) /\ FrSum(f, n) \in Field
          BY <1>1, <2>1, <4>1, TotalStep DEF f
        <4>3. Z \in Field
          BY <1>3
        <4> QED BY <4>1, <4>2, <4>3 DEF f, c
      <3> HIDE DEF S, x, Z
      <3>11. FrMul(FrAdd(S, FrMul(c, x)), Z) = FrAdd(FrMul(S, Z), FrMul(c, FrMul(x, Z)))
        <4> DEFINE cx == FrMul(c, x)
        <4>1. cx \in Field /\ FrAdd(S, cx) \in Field
          BY <2>3, <3>10, Closed
        <4>2. FrMul(cx, Z) = FrMul(c, FrMul(x, Z))
          BY <2>3, <3>10, MulAssociates
        <4> HIDE DEF cx
        <4>3. FrMul(Z, FrAdd(S, cx)) = FrAdd(FrMul(Z, S), FrMul(Z, cx))
          BY <3>10, <4>1, FieldDistributes
        <4>4. /\ FrMul(Z, FrAdd(S, cx)) = FrMul(FrAdd(S, cx), Z)
              /\ FrMul(Z, S) = FrMul(S, Z) /\ FrMul(Z, cx) = FrMul(cx, Z)
          BY <3>10, <4>1, Commutes
        <4> QED BY <4>2, <4>3, <4>4 DEF cx
      <3> QED BY <3>2, <3>1, <3>3, <3>7, <3>8, <3>9, <3>10, <3>11 DEF Z
    <2>8. Holds(r, n + 1)
      <3> HIDE DEF r
      <3> QED BY <2>7
    <2> HIDE DEF r, Holds
    <2> QED BY <2>6, <2>8
  <1>6. Nat \subseteq T
    <2> HIDE DEF T
    <2> QED BY <1>4, <1>5, Induction
  <1>7. PICK r \in [Exponents -> Field] :
          \A X \in Field : PolyAt(r, X) = FrMul(FrSum(PolyTerms(y, X), B), PolyAt(z, X))
    <2>1. B \in T /\ B \in Nat
      <3> HIDE DEF T, B
      <3> QED BY <1>1, <1>6
    <2>2. B <= B
      BY <2>1
    <2> QED BY <2>1, <2>2
  <1>8. ASSUME NEW X \in Field PROVE FrSum(PolyTerms(y, X), B) = PolyAt(y, X)
    <2> DEFINE f == PolyTerms(y, X)
    <2>1. \A i \in B..(D - 1) : f[i] = 0
      <3> SUFFICES ASSUME NEW i \in B..(D - 1) PROVE f[i] = 0
        OBVIOUS
      <3>1. i \in Exponents /\ ~(i < BlobSize)
        BY <1>1
      <3>2. y[i] = 0
        BY <3>1 DEF Padded
      <3>3. f[i] = FrMul(y[i], FrPow(X, i)) /\ FrPow(X, i) \in Field
        BY <1>3, <3>1
      <3> QED BY <3>2, <3>3, Neutral
    <2>2. Terms(f, D) /\ PolyAt(y, X) = FrSum(f, D)
      BY <1>3
    <2> HIDE DEF f, D, B, y
    <2>3. FrSum(f, D) = FrSum(f, B)
      BY <1>1, <2>1, <2>2, TotalGap
    <2> QED BY <2>2, <2>3 DEF f
  <1> QED BY <1>7, <1>8

-----------------------------------------------------------------------------
(* The vanishing polynomial off the domain *)

\* When at most half the cells are missing, the spread polynomial's degree is at most
\* BlobSize.
LEMMA SpreadDegree ==
  ASSUME NEW sp \in Seq(Field), Len(sp) <= Cells \div 2 + 1, NEW i \in Exponents, i > BlobSize
  PROVE  Spread(sp)[i] = 0
  <1> DEFINE C == CellSize
             H == Cells \div 2
             j == i \div C
  <1>1. H \in Nat /\ C \in Nat \ {0} /\ BlobSize = H * C /\ i \in Nat /\ Len(sp) \in Nat
    BY Halves, Sizes DEF Exponents
  <1>2. i % C \in 0..(C - 1) /\ j \in Nat /\ i = (i % C) + C * j
    BY <1>1, Division
  <1>3. ASSUME i % C = 0, j < Len(sp) PROVE FALSE
    <2> DEFINE d == H - j
    <2>1. d \in Nat /\ H = j + d
      <3> HIDE DEF H, j
      <3> QED BY <1>1, <1>2, <1>3 DEF H
    <2> HIDE DEF d
    <2>2. (j + d) * C = C * j + d * C /\ d * C \in Nat /\ C * j \in Nat
      <3> HIDE DEF j, C
      <3> QED BY <1>1, <1>2, <2>1
    <2> DEFINE x == d * C
               y == C * j
    <2>3. BlobSize = y + x /\ x \in Nat /\ y \in Nat /\ i = 0 + y
      BY <1>1, <1>2, <1>3, <2>1, <2>2
    <2> HIDE DEF x, y
    <2> QED BY <2>3
  <1> QED BY <1>3 DEF Spread

\* It is zero nowhere on the coset of the domain by an element that is no root of
\* unity of the domain.
LEMMA CosetAvoids ==
  ASSUME NEW list \in Seq(0..(Cells - 1)), Len(list) < Cells,
         NEW c \in Field, FrPow(c, DomainSize) # 1, NEW k \in Exponents
  PROVE  PolyAt(Spread(Short(list)), FrMul(c, Pw(k))) # 0
  <1> DEFINE D == DomainSize
             C == CellSize
             Y == FrMul(c, Pw(k))
             X == FrPow(Y, C)
             sp == Short(list)
  <1>1. /\ D \in Nat /\ C \in Nat /\ Cells \in Nat /\ D = C * Cells /\ k \in Nat /\ Len(list) \in Nat
        /\ Pw(k) \in Field
    <2>1. D \in Nat /\ C \in Nat /\ Cells \in Nat /\ D = C * Cells /\ k \in Nat
      BY Sizes DEF Exponents
    <2> QED BY <2>1, PwAdds
  <1>2. Y \in Field /\ X \in Field
    <2>1. Y \in Field
      BY <1>1, Closed
    <2> HIDE DEF Y
    <2> QED BY <1>1, <2>1, PowNext
  <1>3. sp \in Seq(Field) /\ Len(sp) = Len(list) + 1
    BY <1>2, ShortIs
  <1>4. PolyAt(Spread(sp), Y) = Poly(sp, X)
    <2>1. Len(sp) <= Cells
      BY <1>1, <1>3
    <2> HIDE DEF sp, Y
    <2> QED BY <1>2, <1>3, <2>1, SpreadAt
  <1>5. FrPow(X, Cells) = FrPow(c, D)
    <2>1. FrPow(X, Cells) = FrPow(Y, D)
      <3> HIDE DEF Y
      <3> QED BY <1>1, <1>2, PowsOf
    <2>2. FrPow(Y, D) = FrMul(FrPow(c, D), FrPow(Pw(k), D))
      BY <1>1, PowsOf
    <2>3. FrPow(Pw(k), D) = 1
      <3>1. FrPow(Pw(k), D) = Pw(k * D)
        BY <1>1, PowPow
      <3>2. k * D = 0 + DomainSize * k
        <4>1. k * D = D * k /\ D * k \in Nat
          <5> HIDE DEF D
          <5> QED BY <1>1
        <4> DEFINE z == D * k
        <4>2. z \in Nat /\ z = 0 + z
          <5>1. z \in Nat
            BY <4>1
          <5> HIDE DEF z
          <5> QED BY <5>1
        <4> QED BY <4>1, <4>2
      <3>3. Pw(0 + DomainSize * k) = Pw(0)
        BY <1>1, PwPeriod
      <3> QED BY <3>1, <3>2, <3>3, PwAdds
    <2>4. FrPow(c, D) \in Field
      BY <1>1, PowNext
    <2>5. FrMul(FrPow(c, D), 1) = FrPow(c, D)
      <3> DEFINE z == FrPow(c, D)
      <3> HIDE DEF z
      <3> QED BY <2>4, Neutral DEF z
    <2> QED BY <2>1, <2>2, <2>3, <2>5
  <1>6. ASSUME NEW j \in 1..Len(list), X = Pw(list[j] * CellSize) PROVE FALSE
    <2> DEFINE g == list[j]
               S == 0..(Cells - 1)
    <2>1. g \in Nat
      <3>1. list \in Seq(S)
        OBVIOUS
      <3> HIDE DEF S
      <3>2. g \in S
        BY <3>1
      <3> QED BY <1>1, <3>2 DEF S
    <2> HIDE DEF g
    <2> DEFINE n == g * C
    <2>2. n \in Nat /\ n * Cells = DomainSize * g
      <3>1. (g * C) * Cells = (C * Cells) * g /\ g * C \in Nat
        <4> HIDE DEF C
        <4> QED BY <1>1, <2>1
      <3> QED BY <1>1, <3>1
    <2>3. FrPow(Pw(n), Cells) = Pw(n * Cells)
      <3> HIDE DEF n
      <3> QED BY <1>1, <2>2, PowPow
    <2>4. Pw(0 + DomainSize * g) = 1 /\ 0 + DomainSize * g = DomainSize * g
      <3>1. Pw(0 + DomainSize * g) = Pw(0)
        BY <2>1, PwPeriod
      <3>2. DomainSize * g \in Nat
        BY <1>1, <2>1
      <3> DEFINE z == DomainSize * g
      <3>3. 0 + z = z
        <4>1. z \in Nat
          BY <3>2
        <4> HIDE DEF z
        <4> QED BY <4>1
      <3> QED BY <3>1, <3>3, PwAdds
    <2>5. X = Pw(n)
      BY <1>6 DEF g
    <2> HIDE DEF X, n
    <2> QED BY <1>5, <2>2, <2>3, <2>4, <2>5
  <1> HIDE DEF X, sp
  <1>7. Poly(sp, X) # 0
    BY <1>2, <1>6, ShortIs DEF sp
  <1> QED BY <1>4, <1>7 DEF sp
=============================================================================
