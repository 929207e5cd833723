----------------------------- MODULE MsmProofs ------------------------------
(***************************************************************************)
(* Theorems about PhaseASort and Msm, under the specification of Msm: for  *)
(* any scalars, digit base, number of digits, terms, lanes, and any order  *)
(* the invocations run in between the barriers, no digit is lost, doubled  *)
(* or overwritten, the buckets come ordered by load, and the output of     *)
(* phase A is the sum of the scalars times their points.                   *)
(*                                                                         *)
(* First the sort: what a bucket's slots hold are digits, each once. Then  *)
(* each sum the kernels work out is followed, one component of the points  *)
(* at a time: what a bucket's slots add up to is what its digits weigh; a  *)
(* lane's two sums are those of its slice; two joined lanes have those of  *)
(* both slices; and what the digits weigh, each times its bucket's factor, *)
(* is the scalar.                                                          *)
(***************************************************************************)
EXTENDS Msm, Arithmetic

-----------------------------------------------------------------------------
(* The digits of a scalar *)

DigitState == [digit : (1 - NumBuckets)..NumBuckets, carry : {0, 1}, rest : Nat]

\* One call of recode_digit: the digit's bounds, and that nothing is lost.
LEMMA RecodeDigitStep ==
  ASSUME NEW st \in DigitState
  PROVE  LET next == RecodeDigit(st) IN
         /\ next \in DigitState
         /\ st.rest + st.carry = next.digit + Base * (next.rest + next.carry)
  <1> DEFINE low == st.rest % Base
             left == st.rest \div Base
             v == low + st.carry
  <1>1. Base \in Nat \ {0} /\ NumBuckets \in Nat \ {0} /\ Base = 2 * NumBuckets
    BY DigitsAssumption DEF Base
  <1>2. st.rest \in Nat /\ st.carry \in {0, 1}
    BY DEF DigitState
  <1>3. low \in 0..(Base - 1) /\ left \in Nat /\ st.rest = low + Base * left
    BY <1>1, <1>2, Division
  <1> HIDE DEF low, left
  <1>4. v \in 0..Base
    BY <1>1, <1>2, <1>3
  <1>5. CASE OverHalf(v)
    <2>1. RecodeDigit(st) = [digit |-> v - Base, carry |-> 1, rest |-> left]
      BY <1>5 DEF RecodeDigit, low, left
    <2>2. v - Base \in (1 - NumBuckets)..NumBuckets
      BY <1>1, <1>4, <1>5 DEF OverHalf
    <2>3. Base * (left + 1) = Base * left + Base
      BY <1>1, <1>3
    <2>4. Base * left \in Nat
      BY <1>1, <1>3
    <2>5. st.rest + st.carry = (v - Base) + Base * (left + 1)
      BY <1>1, <1>2, <1>3, <2>3, <2>4
    <2> HIDE DEF v
    <2> QED BY <1>3, <2>1, <2>2, <2>5 DEF DigitState
  <1>6. CASE ~OverHalf(v)
    <2>1. RecodeDigit(st) = [digit |-> v, carry |-> 0, rest |-> left]
      BY <1>6 DEF RecodeDigit, low, left
    <2>2. v \in (1 - NumBuckets)..NumBuckets
      BY <1>1, <1>4, <1>6 DEF OverHalf
    <2>3. Base * left \in Nat /\ left + 0 = left
      BY <1>1, <1>3
    <2>4. st.rest + st.carry = v + Base * (left + 0)
      BY <1>1, <1>2, <1>3, <2>3
    <2> HIDE DEF v
    <2> QED BY <1>3, <2>1, <2>2, <2>4 DEF DigitState
  <1> QED BY <1>5, <1>6

\* The calls for one scalar.
LEMMA RecodingSteps ==
  ASSUME NEW s \in Nat
  PROVE  /\ Recoding(s) \in [0..NumDigits -> DigitState]
         /\ Recoding(s)[0] = [digit |-> 0, carry |-> 0, rest |-> s]
         /\ \A n \in 1..NumDigits : Recoding(s)[n] = RecodeDigit(Recoding(s)[n - 1])
  <1> DEFINE first == [digit |-> 0, carry |-> 0, rest |-> s]
             G == [x \in (1..NumDigits) \X DigitState |-> RecodeDigit(x[2])]
             Step(f) == [n \in 0..NumDigits |-> IF n = 0 THEN first ELSE RecodeDigit(f[n - 1])]
  <1>1. NumDigits \in Nat /\ NumBuckets \in Nat \ {0}
    BY DigitsAssumption
  <1>2. first \in DigitState
    BY <1>1 DEF DigitState
  <1>3. G \in [(1..NumDigits) \X DigitState -> DigitState]
    BY RecodeDigitStep
  <1>4. PICK f \in [0..NumDigits -> DigitState] : Follows(f, NumDigits, first, G)
    <2> HIDE DEF first, G
    <2> QED BY <1>1, <1>2, <1>3, Recursion, Zenon
  <1>5. \A n \in 1..NumDigits : f[n] = RecodeDigit(f[n - 1])
    <2> SUFFICES ASSUME NEW n \in 1..NumDigits PROVE f[n] = RecodeDigit(f[n - 1])
      OBVIOUS
    <2>1. n - 1 \in 0..NumDigits
      BY <1>1
    <2>2. f[n - 1] \in DigitState
      BY <2>1
    <2>3. G[<<n, f[n - 1]>>] = RecodeDigit(f[n - 1])
      BY <2>2
    <2> QED BY <1>4, <2>3 DEF Follows
  <1>6. f = Step(f)
    <2> HIDE DEF first
    <2>1. ASSUME NEW n \in 0..NumDigits
          PROVE  f[n] = IF n = 0 THEN first ELSE RecodeDigit(f[n - 1])
      <3>1. n # 0 => n \in 1..NumDigits
        BY <1>1
      <3> QED BY <1>4, <1>5, <3>1, Zenon DEF Follows
    <2> QED BY <2>1
  <1>7. Recoding(s) = CHOOSE g : g = Step(g)
    BY DEF Recoding
  <1>8. Recoding(s) = Step(Recoding(s))
    <2> HIDE DEF Step
    <2> QED BY <1>6, <1>7
  <1> DEFINE r == Recoding(s)
  <1>9. \A n \in 0..NumDigits : r[n] = IF n = 0 THEN first ELSE RecodeDigit(r[n - 1])
    <2> HIDE DEF r, first
    <2>1. r = Step(r)
      BY <1>8 DEF r
    <2> QED BY <2>1
  <1>10. DOMAIN r = 0..NumDigits
    <2> HIDE DEF r, first
    <2>1. r = Step(r)
      BY <1>8 DEF r
    <2> QED BY <2>1
  <1> HIDE DEF r, first
  <1>11. Nat \subseteq {n \in Nat : n <= NumDigits => r[n] \in DigitState}
    <2> DEFINE T == {n \in Nat : n <= NumDigits => r[n] \in DigitState}
    <2>1. 0 \in T
      BY <1>1, <1>2, <1>9
    <2>2. ASSUME NEW n \in Nat, n \in T PROVE n + 1 \in T
      <3> SUFFICES ASSUME n + 1 <= NumDigits PROVE r[n + 1] \in DigitState
        OBVIOUS
      <3>1. r[n] \in DigitState /\ n + 1 \in 0..NumDigits /\ n + 1 # 0 /\ (n + 1) - 1 = n
        BY <1>1, <2>2
      <3>2. r[n + 1] = RecodeDigit(r[n])
        BY <1>9, <3>1
      <3> QED BY <3>1, <3>2, RecodeDigitStep
    <2> HIDE DEF T
    <2>3. Nat \subseteq T
      BY <2>1, <2>2, Induction
    <2> QED BY <2>3 DEF T
  <1>12. \A n \in 0..NumDigits : r[n] \in DigitState
    BY <1>1, <1>11
  <1>13. r \in [0..NumDigits -> DigitState]
    <2>1. r = [n \in 0..NumDigits |-> r[n]]
      BY <1>8 DEF r
    <2> QED BY <2>1, <1>12
  <1>14. r[0] = first /\ \A n \in 1..NumDigits : r[n] = RecodeDigit(r[n - 1])
    BY <1>1, <1>9
  <1> QED BY <1>13, <1>14 DEF r, first

\* A digit is between 1 - L_NUM_BUCKETS and L_NUM_BUCKETS.
LEMMA DigitRange ==
  ASSUME NEW s \in Nat, NEW n \in 1..NumDigits
  PROVE  Recoded(s)[n] \in (1 - NumBuckets)..NumBuckets
  <1>1. Recoded(s)[n] = Recoding(s)[n].digit
    BY DEF Recoded
  <1>2. Recoding(s)[n] \in DigitState
    <2>1. n \in 0..NumDigits
      BY DigitsAssumption
    <2> QED BY <2>1, RecodingSteps
  <1> QED BY <1>1, <1>2 DEF DigitState

\* The digits are those of the scalar: each call gives up as much of it as the digit
\* and the carry account for.
LEMMA RecodingExact ==
  ASSUME NEW s \in Nat, NEW n \in 1..NumDigits
  PROVE  LET before == Recoding(s)[n - 1]
             after == Recoding(s)[n] IN
         before.rest + before.carry = Recoded(s)[n] + Base * (after.rest + after.carry)
  <1>1. n - 1 \in 0..NumDigits
    BY DigitsAssumption
  <1>2. Recoding(s)[n - 1] \in DigitState /\ Recoding(s)[n] = RecodeDigit(Recoding(s)[n - 1])
    BY <1>1, RecodingSteps
  <1>3. Recoded(s)[n] = Recoding(s)[n].digit
    BY DEF Recoded
  <1> QED BY <1>2, <1>3, RecodeDigitStep

-----------------------------------------------------------------------------
(* The prefix sums of the counters *)

\* What Order makes of the counters.
LEMMA StartsSteps ==
  ASSUME count \in [Buckets -> Nat]
  PROVE  /\ Starts \in [0..NumBuckets -> Nat]
         /\ Starts[0] = 0
         /\ \A k \in 1..NumBuckets : Starts[k] = Starts[k - 1] + count[k - 1]
  <1> DEFINE G == [x \in (1..NumBuckets) \X Nat |-> x[2] + count[x[1] - 1]]
             Step(f) == [k \in 0..NumBuckets |-> IF k = 0 THEN 0 ELSE f[k - 1] + count[k - 1]]
  <1>1. NumBuckets \in Nat
    BY DigitsAssumption
  <1>2. \A k \in 1..NumBuckets : k - 1 \in Buckets /\ k - 1 \in 0..NumBuckets
    BY <1>1 DEF Buckets
  <1>3. G \in [(1..NumBuckets) \X Nat -> Nat]
    <2> SUFFICES ASSUME NEW k \in 1..NumBuckets, NEW m \in Nat PROVE m + count[k - 1] \in Nat
      OBVIOUS
    <2>1. count[k - 1] \in Nat
      BY <1>2
    <2> QED BY <2>1
  <1>4. PICK f \in [0..NumBuckets -> Nat] : Follows(f, NumBuckets, 0, G)
    <2> HIDE DEF G
    <2> DEFINE zero == 0
    <2>1. zero \in Nat
      OBVIOUS
    <2>2. \E f \in [0..NumBuckets -> Nat] : Follows(f, NumBuckets, zero, G)
      <3> HIDE DEF zero
      <3> QED BY <1>1, <1>3, <2>1, Recursion, Zenon
    <2> QED BY <2>2
  <1>5. \A k \in 1..NumBuckets : f[k] = f[k - 1] + count[k - 1]
    <2> SUFFICES ASSUME NEW k \in 1..NumBuckets PROVE f[k] = f[k - 1] + count[k - 1]
      OBVIOUS
    <2>1. f[k - 1] \in Nat
      BY <1>2
    <2>2. <<k, f[k - 1]>> \in (1..NumBuckets) \X Nat
      BY <2>1
    <2>3. G[<<k, f[k - 1]>>] = f[k - 1] + count[k - 1]
      BY <2>2
    <2> QED BY <1>4, <2>3 DEF Follows
  <1>6. f = Step(f)
    <2>1. ASSUME NEW k \in 0..NumBuckets
          PROVE  f[k] = IF k = 0 THEN 0 ELSE f[k - 1] + count[k - 1]
      <3>1. k # 0 => k \in 1..NumBuckets
        BY <1>1
      <3> QED BY <1>4, <1>5, <3>1, Zenon DEF Follows
    <2> QED BY <2>1
  <1>7. Starts = CHOOSE g : g = Step(g)
    BY DEF Starts
  <1>8. Starts = Step(Starts)
    <2> HIDE DEF Step
    <2> QED BY <1>6, <1>7
  <1> DEFINE r == Starts
  <1> HIDE DEF r
  <1>9. r = Step(r)
    BY <1>8 DEF r
  <1>10. r = [k \in 0..NumBuckets |-> r[k]]
    BY <1>9
  <1>11. \A k \in 0..NumBuckets : r[k] = IF k = 0 THEN 0 ELSE r[k - 1] + count[k - 1]
    BY <1>9
  <1> HIDE DEF Step
  <1>12. r[0] = 0
    <2>1. 0 \in 0..NumBuckets
      BY <1>1
    <2> QED BY <1>11, <2>1
  <1>13. \A k \in 1..NumBuckets : r[k] = r[k - 1] + count[k - 1]
    <2>1. \A k \in 1..NumBuckets : k \in 0..NumBuckets /\ k # 0
      BY <1>1
    <2> QED BY <1>11, <2>1, Zenon
  <1> DEFINE T == {k \in Nat : k <= NumBuckets => r[k] \in Nat}
  <1>14. Nat \subseteq T
    <2>1. 0 \in T
      BY <1>12
    <2>2. ASSUME NEW k \in Nat, k \in T PROVE k + 1 \in T
      <3> SUFFICES ASSUME k + 1 <= NumBuckets PROVE r[k + 1] \in Nat
        OBVIOUS
      <3>1. r[k] \in Nat /\ k + 1 \in 1..NumBuckets /\ (k + 1) - 1 = k
        BY <1>1, <2>2
      <3>2. count[k] \in Nat
        BY <1>2, <3>1
      <3>3. r[k + 1] = r[k] + count[k]
        BY <1>13, <3>1
      <3> QED BY <3>1, <3>2, <3>3
    <2> HIDE DEF T
    <2> QED BY <2>1, <2>2, Induction
  <1>15. \A k \in 0..NumBuckets : r[k] \in Nat
    BY <1>1, <1>14
  <1>16. r \in [0..NumBuckets -> Nat]
    BY <1>10, <1>15
  <1> QED BY <1>12, <1>13, <1>16 DEF r

-----------------------------------------------------------------------------
(* Where the digits belong *)

\* A digit, by its invocation and position.
Pairs == Tids \X Digits

Kept(x) == Digit(x[1], x[2]) # 0
In(x) == BucketOf(x[1], x[2])

Of(k) == {x \in Pairs : Kept(x) /\ In(x) = k}
Below(k) == {x \in Pairs : Kept(x) /\ In(x) < k}

\* What the components of a pair are.
LEMMA PairParts ==
  ASSUME NEW x \in Pairs
  PROVE  x[1] \in Tids /\ x[2] \in Digits /\ x = <<x[1], x[2]>>
  BY DEF Pairs

\* A pair, by its components.
LEMMA PairIn ==
  ASSUME NEW t \in Tids, NEW d \in Digits, NEW x, x = <<t, d>>
  PROVE  x \in Pairs /\ x[1] = t /\ x[2] = d
  BY DEF Pairs

\* There are NumItems of them.
LEMMA PairsFinite == IsFiniteSet(Pairs) /\ Cardinality(Pairs) = NumItems /\ NumItems \in Nat
  <1>1. Terms \in Nat \ {0} /\ NumDigits \in Nat \ {0}
    BY SortAssumption, DigitsAssumption
  <1>2. IsFiniteSet(Tids) /\ Cardinality(Tids) = Terms
    <2>1. IsFiniteSet(0..(Terms - 1))
          /\ Cardinality(0..(Terms - 1)) = IF 0 > Terms - 1 THEN 0 ELSE (Terms - 1) - 0 + 1
      BY <1>1, FS_Interval
    <2> QED BY <1>1, <2>1 DEF Tids
  <1>3. IsFiniteSet(Digits) /\ Cardinality(Digits) = NumDigits
    <2>1. IsFiniteSet(0..(NumDigits - 1))
          /\ Cardinality(0..(NumDigits - 1))
               = IF 0 > NumDigits - 1 THEN 0 ELSE (NumDigits - 1) - 0 + 1
      BY <1>1, FS_Interval
    <2> QED BY <1>1, <2>1 DEF Digits
  <1>4. IsFiniteSet(Pairs) /\ Cardinality(Pairs) = Terms * NumDigits
    BY <1>2, <1>3, FS_Product DEF Pairs
  <1> QED BY <1>1, <1>4 DEF NumItems

\* A digit that is kept has a bucket.
LEMMA InBuckets ==
  ASSUME scalar \in [Tids -> Scalars], NEW x \in Pairs, Kept(x)
  PROVE  In(x) \in Buckets
  <1>1. scalar[x[1]] \in Nat /\ x[2] + 1 \in 1..NumDigits
    BY PairParts, SortAssumption, DigitsAssumption DEF Digits
  <1>2. Digit(x[1], x[2]) \in (1 - NumBuckets)..NumBuckets
    BY <1>1, DigitRange DEF Digit
  <1>3. NumBuckets \in Nat
    BY DigitsAssumption
  <1> QED BY <1>2, <1>3 DEF In, BucketOf, Abs, Kept, Buckets

\* Subsets of the digits, and how many they have.
LEMMA SubsetFinite ==
  ASSUME NEW S, NEW T, S \subseteq T, T \subseteq Pairs
  PROVE  /\ IsFiniteSet(S) /\ Cardinality(S) \in Nat
         /\ Cardinality(S) <= Cardinality(T) /\ Cardinality(T) \in Nat
         /\ Cardinality(T) <= NumItems
         /\ Cardinality(S) = Cardinality(T) => S = T
  <1>1. IsFiniteSet(T) /\ Cardinality(T) <= NumItems
    BY PairsFinite, FS_Subset
  <1>2. /\ IsFiniteSet(S) /\ Cardinality(S) <= Cardinality(T)
        /\ Cardinality(T) = Cardinality(S) => T = S
    BY <1>1, FS_Subset
  <1> QED BY <1>1, <1>2, FS_CardinalityType

\* The digits below a bucket are those below the one before it and that one's.
LEMMA BelowNext ==
  ASSUME scalar \in [Tids -> Scalars], NEW k \in Buckets
  PROVE  Cardinality(Below(k + 1)) = Cardinality(Below(k)) + Cardinality(Of(k))
  <1>1. \A x \in Pairs : Kept(x) => (In(x) < k + 1 <=> In(x) < k \/ In(x) = k)
    BY InBuckets, DigitsAssumption DEF Buckets
  <1>2. Below(k + 1) = Below(k) \cup Of(k)
    BY <1>1, Zenon DEF Below, Of
  <1>3. Below(k) \cap Of(k) = {}
    BY InBuckets, DigitsAssumption DEF Below, Of, Buckets
  <1>4. IsFiniteSet(Below(k)) /\ IsFiniteSet(Of(k))
    BY SubsetFinite DEF Below, Of
  <1>5. Cardinality(Below(k)) \in Nat /\ Cardinality(Of(k)) \in Nat
    BY <1>4, FS_CardinalityType
  <1>6. Cardinality(Below(k) \cup Of(k))
          = Cardinality(Below(k)) + Cardinality(Of(k)) - Cardinality(Below(k) \cap Of(k))
    BY <1>4, FS_Union
  <1>7. Cardinality(Below(k) \cap Of(k)) = 0
    BY <1>3, FS_EmptySet
  <1>8. Cardinality(Below(k + 1)) = Cardinality(Below(k)) + Cardinality(Of(k)) - 0
    BY <1>2, <1>6, <1>7, Zenon
  <1> QED BY <1>5, <1>8

\* There are none below the first bucket.
LEMMA BelowFirst ==
  ASSUME scalar \in [Tids -> Scalars] PROVE Cardinality(Below(0)) = 0
  <1>1. Below(0) = {}
    BY InBuckets, DigitsAssumption DEF Below, Buckets
  <1> QED BY <1>1, FS_EmptySet

\* There are no fewer below a later one.
LEMMA BelowGrows ==
  ASSUME scalar \in [Tids -> Scalars], NEW i \in 0..NumBuckets, NEW j \in 0..NumBuckets, i <= j
  PROVE  /\ Cardinality(Below(i)) <= Cardinality(Below(j))
         /\ Cardinality(Below(i)) \in 0..NumItems /\ Cardinality(Below(j)) \in 0..NumItems
  <1>1. Below(i) \subseteq Below(j)
    BY InBuckets, DigitsAssumption DEF Below, Buckets
  <1>2. Below(j) \subseteq Pairs
    BY DEF Below
  <1> QED BY <1>1, <1>2, SubsetFinite, PairsFinite

\* When each counter is the number of its bucket's digits, the prefix sums are the
\* numbers of those below.
LEMMA PrefixSums ==
  ASSUME scalar \in [Tids -> Scalars], count \in [Buckets -> Nat],
         \A k \in Buckets : count[k] = Cardinality(Of(k))
  PROVE  \A k \in 0..NumBuckets : Starts[k] = Cardinality(Below(k))
  <1> DEFINE T == {k \in Nat : k <= NumBuckets => Starts[k] = Cardinality(Below(k))}
  <1>1. NumBuckets \in Nat
    BY DigitsAssumption
  <1>2. 0 \in T
    BY BelowFirst, StartsSteps
  <1>3. ASSUME NEW k \in Nat, k \in T PROVE k + 1 \in T
    <2> SUFFICES ASSUME k + 1 <= NumBuckets PROVE Starts[k + 1] = Cardinality(Below(k + 1))
      OBVIOUS
    <2>1. k \in Buckets /\ k + 1 \in 1..NumBuckets /\ (k + 1) - 1 = k
      BY <1>1 DEF Buckets
    <2>2. Starts[k + 1] = Starts[k] + count[k]
      BY <2>1, StartsSteps
    <2>3. Starts[k] = Cardinality(Below(k))
      BY <1>1, <1>3
    <2> QED BY <2>1, <2>2, <2>3, BelowNext
  <1>4. Nat \subseteq T
    <2> HIDE DEF T
    <2> QED BY <1>2, <1>3, Induction
  <1> QED BY <1>1, <1>4

-----------------------------------------------------------------------------
(* The order of the buckets *)

\* The smaller of two.
LEMMA MinOfTwo ==
  ASSUME NEW a \in Int, NEW b \in Int
  PROVE  Min({a, b}) = IF a <= b THEN a ELSE b
  <1>1. \E x \in {a, b} : \A y \in {a, b} : x =< y
    OBVIOUS
  <1>2. Min({a, b}) \in {a, b} /\ \A y \in {a, b} : Min({a, b}) =< y
    BY <1>1, Zenon DEF Min
  <1> QED BY <1>2

\* Bucket i comes before bucket k.
Ahead(i, k) ==
  \/ LoadClass(i) > LoadClass(k)
  \/ LoadClass(i) = LoadClass(k) /\ i < k
AheadOf(k) == {i \in Buckets : Ahead(i, k)}

\* Buckets, and how many there are.
LEMMA BucketsFinite ==
  IsFiniteSet(Buckets) /\ Cardinality(Buckets) = NumBuckets /\ NumBuckets \in Nat \ {0}
  <1>1. NumBuckets \in Nat \ {0}
    BY DigitsAssumption
  <1>2. IsFiniteSet(0..(NumBuckets - 1))
        /\ Cardinality(0..(NumBuckets - 1))
             = IF 0 > NumBuckets - 1 THEN 0 ELSE (NumBuckets - 1) - 0 + 1
    BY <1>1, FS_Interval
  <1> QED BY <1>1, <1>2 DEF Buckets

\* A bucket's class.
LEMMA LoadClassIs ==
  ASSUME count \in [Buckets -> Nat], NEW k \in Buckets
  PROVE  /\ LoadClass(k) \in Nat
         /\ Starts[k + 1] - Starts[k] \in Nat
         /\ LoadClass(k) <= Starts[k + 1] - Starts[k]
         /\ LoadClass(k) = Min({Starts[k + 1] - Starts[k], LoadClasses - 1})
  <1>1. k + 1 \in 1..NumBuckets /\ (k + 1) - 1 = k /\ k \in 0..NumBuckets
    BY BucketsFinite DEF Buckets
  <1>2. Starts[k + 1] = Starts[k] + count[k] /\ Starts[k] \in Nat /\ count[k] \in Nat
    BY <1>1, StartsSteps
  <1>3. Starts[k + 1] - Starts[k] = count[k]
    BY <1>2
  <1>4. LoadClasses - 1 \in Nat
    BY SortAssumption
  <1>5. Min({count[k], LoadClasses - 1})
          = IF count[k] <= LoadClasses - 1 THEN count[k] ELSE LoadClasses - 1
    BY <1>2, <1>4, MinOfTwo
  <1>6. LoadClass(k) = Min({count[k], LoadClasses - 1})
    BY <1>3, Zenon DEF LoadClass
  <1>7. LoadClass(k) = Min({Starts[k + 1] - Starts[k], LoadClasses - 1})
    BY Zenon DEF LoadClass
  <1>8. LoadClass(k) \in Nat /\ LoadClass(k) <= count[k]
    BY <1>2, <1>4, <1>5, <1>6
  <1> QED BY <1>2, <1>3, <1>7, <1>8

\* The ranks number the buckets, those ahead first.
LEMMA Ranks ==
  ASSUME count \in [Buckets -> Nat]
  PROVE  /\ \A k \in Buckets : Rank(k) \in Buckets
         /\ \A j, k \in Buckets : Rank(j) < Rank(k) => Ahead(j, k)
         /\ \A j, k \in Buckets : Rank(j) = Rank(k) => j = k
         /\ \A i \in Buckets : \E k \in Buckets : Rank(k) = i
  <1>1. \A k \in Buckets : Rank(k) = Cardinality(AheadOf(k))
    BY Zenon DEF Rank, AheadOf, Ahead
  <1>2. \A k \in Buckets : LoadClass(k) \in Nat /\ k \in Nat
    <2>1. \A k \in Buckets : k \in Nat
      BY DEF Buckets
    <2> QED BY <2>1, LoadClassIs, Zenon
  <1>3. \A k \in Buckets : IsFiniteSet(AheadOf(k)) /\ Rank(k) \in Nat
    <2> SUFFICES ASSUME NEW k \in Buckets
                 PROVE  IsFiniteSet(AheadOf(k)) /\ Rank(k) \in Nat
      OBVIOUS
    <2>1. IsFiniteSet(AheadOf(k))
      BY BucketsFinite, FS_Subset DEF AheadOf
    <2> QED BY <1>1, <2>1, FS_CardinalityType
  <1>4. ASSUME NEW k \in Buckets PROVE Rank(k) \in Buckets
    <2>1. AheadOf(k) \subseteq Buckets \ {k}
      BY <1>2 DEF AheadOf, Ahead
    <2>2. IsFiniteSet(Buckets \ {k}) /\ Cardinality(Buckets \ {k}) = NumBuckets - 1
      BY BucketsFinite, FS_RemoveElement
    <2>3. Cardinality(AheadOf(k)) <= NumBuckets - 1
      BY <2>1, <2>2, FS_Subset
    <2> QED BY <1>1, <1>3, <2>3, BucketsFinite DEF Buckets
  <1>5. ASSUME NEW j \in Buckets, NEW k \in Buckets, Ahead(j, k) PROVE Rank(j) < Rank(k)
    <2>1. AheadOf(j) \subseteq AheadOf(k)
      BY <1>2, <1>5 DEF AheadOf, Ahead
    <2>2. j \in AheadOf(k) /\ j \notin AheadOf(j)
      BY <1>2, <1>5 DEF AheadOf, Ahead
    <2>3. /\ Cardinality(AheadOf(j)) <= Cardinality(AheadOf(k))
          /\ Cardinality(AheadOf(k)) = Cardinality(AheadOf(j)) => AheadOf(k) = AheadOf(j)
      BY <1>3, <2>1, FS_Subset
    <2> QED BY <1>1, <1>3, <2>2, <2>3
  <1>6. \A j, k \in Buckets : j = k \/ Ahead(j, k) \/ Ahead(k, j)
    <2> SUFFICES ASSUME NEW j \in Buckets, NEW k \in Buckets
                 PROVE  j = k \/ Ahead(j, k) \/ Ahead(k, j)
      OBVIOUS
    <2>1. LoadClass(j) \in Nat /\ LoadClass(k) \in Nat /\ j \in Nat /\ k \in Nat
      BY <1>2
    <2> QED BY <2>1 DEF Ahead
  <1>7. \A j, k \in Buckets : Rank(j) < Rank(k) => Ahead(j, k)
    BY <1>3, <1>5, <1>6
  <1>8. \A j, k \in Buckets : Rank(j) = Rank(k) => j = k
    BY <1>3, <1>5, <1>6
  <1>9. \A i \in Buckets : \E k \in Buckets : Rank(k) = i
    <2> DEFINE f == [k \in Buckets |-> Rank(k)]
    <2>1. f \in Injection(Buckets, Buckets)
      BY <1>4, <1>8 DEF Injection, IsInjective
    <2>2. f \in Surjection(Buckets, Buckets)
      BY <2>1, BucketsFinite, FS_Injection
    <2>3. \A i \in Buckets : \E k \in Buckets : f[k] = i
      BY <2>2 DEF Surjection
    <2> QED BY <2>3
  <1> QED BY <1>4, <1>7, <1>8, <1>9

-----------------------------------------------------------------------------
(* The inductive invariant *)

Types ==
  /\ scalar \in [Tids -> Scalars]
  /\ phase \in [Tids -> 0..7]
  /\ dd \in [Tids -> 0..NumDigits]
  /\ \A t \in Tids : phase[t] \in {2, 6} => dd[t] \in Digits
  /\ count \in [Buckets -> Nat]
  /\ starts \in [0..NumBuckets -> Nat]
  /\ perm \in [Buckets -> Buckets]
  /\ items \in [Slots -> (Tids \X Digits \X BOOLEAN) \cup {NoItem}]

\* Nobody is past a barrier that somebody has not come to.
Barriers == \A t, u \in Tids :
  /\ phase[t] > 1 => phase[u] >= 1
  /\ phase[t] > 3 => phase[u] >= 3
  /\ phase[t] > 5 => phase[u] >= 5

\* Digit x has been dealt with in the loop of phase p: 2 counts, 6 scatters.
Done(x, p) == phase[x[1]] > p \/ (phase[x[1]] = p /\ x[2] < dd[x[1]])
DoneOf(k, p) == {x \in Of(k) : Done(x, p)}

Cleared1 ==
  (\E u \in Tids : phase[u] = 0) =>
    \A t \in Tids : phase[t] >= 1 => \A k \in Cleared(t) : count[k] = 0

Counted ==
  (\A u \in Tids : phase[u] >= 1) /\ phase[0] <= 4 =>
    \A k \in Buckets : count[k] = Cardinality(DoneOf(k, 2))

Summed == phase[0] >= 5 => \A k \in 0..NumBuckets : starts[k] = Cardinality(Below(k))

Cursors == phase[0] >= 5 =>
  \A k \in Buckets : count[k] = starts[k] + Cardinality(DoneOf(k, 6))

Load(k) == starts[k + 1] - starts[k]
Ordering ==
  /\ {perm[i] : i \in Buckets} = Buckets
  /\ \A i, j \in Buckets : i < j => Load(perm[i]) >= Min({Load(perm[j]), LoadClasses - 1})
Ordered == phase[0] >= 5 => Ordering

Unwritten == phase[0] < 5 => \A s \in Slots : items[s] = NoItem

\* What is in the slots: the digits scattered so far, each in one slot; of a bucket's
\* slots those that its cursor has passed are written.
ItemOf(x) == <<x[1], x[2], Digit(x[1], x[2]) < 0>>
Origin == \A s \in Slots : items[s] # NoItem =>
            \E x \in Pairs : Done(x, 6) /\ items[s] = ItemOf(x)
Single == \A s, r \in Slots : items[s] # NoItem /\ items[s] = items[r] => s = r
Passed == \A k \in Buckets : \A s \in starts[k]..(count[k] - 1) : items[s] # NoItem
Ahead0 == \A k \in Buckets : \A s \in count[k]..(starts[k + 1] - 1) : items[s] = NoItem
Rest == \A s \in starts[NumBuckets]..(NumItems - 1) : items[s] = NoItem
Written == phase[0] >= 5 => Origin /\ Single /\ Passed /\ Ahead0 /\ Rest

SInv == /\ Types /\ Barriers /\ Cleared1 /\ Counted /\ Summed /\ Cursors /\ Ordered
        /\ Unwritten /\ Written

-----------------------------------------------------------------------------
(* What the steps share *)

\* Where the digits belong depends on the scalars alone.
LEMMA PlacesStay ==
  ASSUME scalar' = scalar
  PROVE  /\ \A t, d : Digit(t, d)' = Digit(t, d)
         /\ \A k : Of(k)' = Of(k)
         /\ \A k : Below(k)' = Below(k)
         /\ \A x : ItemOf(x)' = ItemOf(x)
  <1>1. \A t, d : Digit(t, d)' = Digit(t, d)
    BY Zenon DEF Digit
  <1>2. \A k : Of(k)' = Of(k)
    BY Zenon DEF Of, Kept, In, BucketOf, Digit
  <1>3. \A k : Below(k)' = Below(k)
    BY Zenon DEF Below, Kept, In, BucketOf, Digit
  <1>4. \A x : ItemOf(x)' = ItemOf(x)
    BY Zenon DEF ItemOf, Digit
  <1> QED BY <1>1, <1>2, <1>3, <1>4

\* An invocation that enters a loop, or goes from one phase to the next outside of
\* them, deals with no digit.
Moves(t) ==
  \/ phase'[t] = phase[t] /\ dd'[t] = dd[t]
  \/ /\ phase[t] \in {0, 1, 3, 4, 5}
     /\ phase'[t] = phase[t] + 1
     /\ phase'[t] \in {2, 6} => dd'[t] = 0

\* What is done stays the same.
LEMMA DoneStays ==
  ASSUME Types, scalar' = scalar, \A t \in Tids : Moves(t)
  PROVE  /\ \A x \in Pairs, p \in {2, 6} : Done(x, p)' <=> Done(x, p)
         /\ \A k : \A p \in {2, 6} : DoneOf(k, p)' = DoneOf(k, p)
  <1>1. ASSUME NEW x \in Pairs, NEW p \in {2, 6} PROVE Done(x, p)' <=> Done(x, p)
    <2> DEFINE t == x[1]
               d == x[2]
    <2>1. t \in Tids /\ d \in Nat
      BY PairParts, DigitsAssumption DEF Digits
    <2>2. phase[t] \in 0..7 /\ dd[t] \in Nat
      BY <2>1, DigitsAssumption DEF Types
    <2>3. Moves(t)
      BY <2>1
    <2> HIDE DEF t, d
    <2>4. (phase'[t] > p \/ (phase'[t] = p /\ d < dd'[t]))
            <=> (phase[t] > p \/ (phase[t] = p /\ d < dd[t]))
      BY <2>1, <2>2, <2>3 DEF Moves
    <2> QED BY <2>4 DEF Done, t, d
  <1>2. ASSUME NEW k, NEW p \in {2, 6} PROVE DoneOf(k, p)' = DoneOf(k, p)
    <2>1. Of(k)' = Of(k) /\ Of(k) \subseteq Pairs
      BY PlacesStay DEF Of
    <2> QED BY <1>1, <2>1, Zenon DEF DoneOf
  <1> QED BY <1>1, <1>2

\* An invocation in a loop deals with the digit it is at.
LEMMA DoneNext ==
  ASSUME Types, scalar' = scalar, NEW t \in Tids, NEW p \in {2, 6}, phase[t] = p, NextDigit(t)
  PROVE  /\ <<t, dd[t]>> \in Pairs /\ ~Done(<<t, dd[t]>>, p)
         /\ \A x \in Pairs : Done(x, p)' <=> Done(x, p) \/ x = <<t, dd[t]>>
         /\ \A q \in {2, 6} \ {p} : \A x \in Pairs : Done(x, q)' <=> Done(x, q)
  <1> DEFINE e == dd[t]
             y == <<t, e>>
  <1>1. e \in Digits /\ NumDigits \in Nat \ {0} /\ Digits = 0..(NumDigits - 1)
    BY DigitsAssumption DEF Types, Digits
  <1>2. y \in Pairs /\ y[1] = t /\ y[2] = e
    BY <1>1, PairIn
  <1>3. ~Done(y, p)
    <2> HIDE DEF y
    <2>1. ~(phase[t] > p) /\ ~(e < e)
      BY <1>1
    <2> QED BY <1>2, <2>1 DEF Done
  <1>4. /\ phase'[t] = IF e + 1 = NumDigits THEN p + 1 ELSE p
        /\ dd'[t] = e + 1
        /\ \A u \in Tids \ {t} : phase'[u] = phase[u] /\ dd'[u] = dd[u]
    BY DEF NextDigit, Types
  <1>5. ASSUME NEW x \in Pairs
        PROVE  /\ Done(x, p)' <=> Done(x, p) \/ x = y
               /\ \A q \in {2, 6} \ {p} : Done(x, q)' <=> Done(x, q)
    <2> DEFINE u == x[1]
               d == x[2]
    <2>1. u \in Tids /\ d \in Digits /\ x = <<u, d>>
      BY PairParts
    <2>2. x = y <=> u = t /\ d = e
      BY <2>1, <1>2
    <2>3. CASE u # t
      BY <1>4, <2>1, <2>2, <2>3 DEF Done
    <2>4. CASE u = t
      <3> HIDE DEF u, d, e
      <3>1. (phase'[t] > p \/ (phase'[t] = p /\ d < dd'[t])) <=> d <= e
        BY <1>1, <1>4, <2>1
      <3>2. (phase[t] > p \/ (phase[t] = p /\ d < e)) <=> d < e
        BY <1>1, <2>1
      <3>3. d <= e <=> d < e \/ d = e
        BY <1>1, <2>1
      <3>4. Done(x, p)' <=> d <= e
        BY <2>4, <3>1 DEF Done, u, d
      <3>5. Done(x, p) <=> d < e
        BY <2>4, <3>2 DEF Done, u, d, e
      <3>6. ASSUME NEW q \in {2, 6} \ {p} PROVE Done(x, q)' <=> Done(x, q)
        <4>1. (phase'[t] > q \/ (phase'[t] = q /\ d < dd'[t])) <=> phase[t] > q
          BY <1>4
        <4>2. (phase[t] > q \/ (phase[t] = q /\ d < dd[t])) <=> phase[t] > q
          OBVIOUS
        <4> QED BY <2>4, <4>1, <4>2 DEF Done, u, d
      <3> QED BY <2>2, <2>4, <3>3, <3>4, <3>5, <3>6
    <2> QED BY <2>3, <2>4
  <1> QED BY <1>2, <1>3, <1>5

\* What is done of a bucket is finite, and is no more than belongs there.
LEMMA DoneFinite ==
  ASSUME NEW k, NEW p \in {2, 6}
  PROVE  /\ IsFiniteSet(DoneOf(k, p)) /\ DoneOf(k, p) \subseteq Of(k)
         /\ Cardinality(DoneOf(k, p)) \in Nat /\ Cardinality(Of(k)) \in Nat
         /\ Cardinality(DoneOf(k, p)) <= Cardinality(Of(k))
         /\ Cardinality(DoneOf(k, p)) = Cardinality(Of(k)) => DoneOf(k, p) = Of(k)
  <1>1. DoneOf(k, p) \subseteq Of(k) /\ Of(k) \subseteq Pairs
    BY DEF DoneOf, Of
  <1> QED BY <1>1, SubsetFinite

\* Before the loop nothing is done.
LEMMA DoneNothing ==
  ASSUME Types, NEW p \in {2, 6}, \A t \in Tids : phase[t] < p
  PROVE  /\ \A x \in Pairs : ~Done(x, p)
         /\ \A k : DoneOf(k, p) = {} /\ Cardinality(DoneOf(k, p)) = 0
  <1>1. ASSUME NEW x \in Pairs PROVE ~Done(x, p)
    <2>1. x[1] \in Tids
      BY PairParts
    <2>2. phase[x[1]] \in 0..7 /\ phase[x[1]] < p
      BY <2>1 DEF Types
    <2>3. ~(phase[x[1]] > p) /\ phase[x[1]] # p
      BY <2>2
    <2> QED BY <2>3 DEF Done
  <1>2. \A k : DoneOf(k, p) = {}
    BY <1>1 DEF DoneOf, Of
  <1> QED BY <1>1, <1>2, FS_EmptySet, Zenon

\* After the loop everything is done.
LEMMA DoneEverything ==
  ASSUME NEW p \in {2, 6}, \A t \in Tids : phase[t] > p
  PROVE  \A k : DoneOf(k, p) = Of(k)
  <1>1. ASSUME NEW x \in Pairs PROVE Done(x, p)
    <2>1. x[1] \in Tids
      BY PairParts
    <2> QED BY <2>1 DEF Done
  <1> QED BY <1>1 DEF DoneOf, Of

\* An invocation in a loop adds the digit it is at to what is done of its bucket.
LEMMA DoneGrows ==
  ASSUME Types, scalar' = scalar, NEW t \in Tids, NEW p \in {2, 6}, phase[t] = p, NextDigit(t),
         NEW k
  PROVE  /\ Cardinality(DoneOf(k, p)') =
              IF Digit(t, dd[t]) # 0 /\ BucketOf(t, dd[t]) = k
              THEN Cardinality(DoneOf(k, p)) + 1 ELSE Cardinality(DoneOf(k, p))
         /\ \A q \in {2, 6} \ {p} : DoneOf(k, q)' = DoneOf(k, q)
  <1> DEFINE y == <<t, dd[t]>>
  <1>1. y \in Pairs /\ y[1] = t /\ y[2] = dd[t] /\ ~Done(y, p)
    BY DoneNext, PairParts
  <1>2. \A x \in Pairs : Done(x, p)' <=> Done(x, p) \/ x = y
    BY DoneNext, Zenon
  <1>3. \A q \in {2, 6} \ {p} : \A x \in Pairs : Done(x, q)' <=> Done(x, q)
    BY DoneNext, Zenon
  <1>4. Of(k)' = Of(k) /\ Of(k) \subseteq Pairs
    BY PlacesStay DEF Of
  <1>5. ASSUME NEW q \in {2, 6} \ {p} PROVE DoneOf(k, q)' = DoneOf(k, q)
    BY <1>3, <1>4, Zenon DEF DoneOf
  <1>6. y \in Of(k) <=> Digit(t, dd[t]) # 0 /\ BucketOf(t, dd[t]) = k
    <2> HIDE DEF y
    <2>1. Kept(y) <=> Digit(t, dd[t]) # 0
      BY <1>1, Zenon DEF Kept
    <2>2. In(y) = BucketOf(t, dd[t])
      BY <1>1, Zenon DEF In
    <2> QED BY <1>1, <2>1, <2>2 DEF Of
  <1> HIDE DEF y
  <1>7. CASE y \in Of(k)
    <2>1. DoneOf(k, p)' = DoneOf(k, p) \cup {y}
      BY <1>2, <1>4, <1>7, Zenon DEF DoneOf
    <2>2. y \notin DoneOf(k, p)
      BY <1>1 DEF DoneOf
    <2>3. Cardinality(DoneOf(k, p) \cup {y}) = Cardinality(DoneOf(k, p)) + 1
      BY <2>2, DoneFinite, FS_AddElement
    <2>4. Cardinality(DoneOf(k, p)') = Cardinality(DoneOf(k, p)) + 1
      BY <2>1, <2>3, Zenon
    <2> QED BY <1>5, <1>6, <1>7, <2>4
  <1>8. CASE y \notin Of(k)
    <2>1. DoneOf(k, p)' = DoneOf(k, p)
      BY <1>2, <1>4, <1>8, Zenon DEF DoneOf
    <2>2. Cardinality(DoneOf(k, p)') = Cardinality(DoneOf(k, p))
      BY <2>1, Zenon
    <2> QED BY <1>5, <1>6, <1>8, <2>2
  <1> QED BY <1>7, <1>8

\* A step that takes nobody past a barrier somebody has not come to.
LEMMA BarriersKept ==
  ASSUME Types, Types', Barriers,
         \A t \in Tids : phase'[t] >= phase[t],
         \A t \in Tids, b \in {1, 3, 5} :
           phase'[t] > b => phase[t] > b \/ \A u \in Tids : phase[u] >= b
  PROVE  Barriers'
  <1> SUFFICES ASSUME NEW t \in Tids, NEW u \in Tids, NEW b \in {1, 3, 5}, phase'[t] > b
               PROVE  phase'[u] >= b
    BY DEF Barriers
  <1>1. phase[u] \in Nat /\ phase'[u] \in Nat /\ phase'[u] >= phase[u]
    <2>1. \A v \in Tids : phase[v] \in 0..7
      BY Zenon DEF Types
    <2>2. \A v \in Tids : phase'[v] \in 0..7
      BY Zenon DEF Types
    <2> QED BY <2>1, <2>2
  <1>2. phase[u] >= b
    <2>1. b = 1 \/ b = 3 \/ b = 5
      OBVIOUS
    <2>2. phase[t] > b => phase[u] >= b
      BY <2>1 DEF Barriers
    <2>3. phase[t] > b \/ \A v \in Tids : phase[v] >= b
      OBVIOUS
    <2> QED BY <2>2, <2>3
  <1> QED BY <1>1, <1>2

\* Where the buckets' slots are.
LEMMA Layout ==
  ASSUME Types, Summed, Cursors, phase[0] >= 5
  PROVE  /\ \A k \in 0..NumBuckets : starts[k] \in 0..NumItems
         /\ starts[0] = 0
         /\ \A i, j \in 0..NumBuckets : i <= j => starts[i] <= starts[j]
         /\ \A k \in Buckets :
              /\ k \in 0..NumBuckets /\ k + 1 \in 0..NumBuckets
              /\ starts[k + 1] = starts[k] + Cardinality(Of(k))
              /\ starts[k] <= count[k] /\ count[k] <= starts[k + 1] /\ count[k] \in 0..NumItems
  <1>0. scalar \in [Tids -> Scalars] /\ NumBuckets \in Nat \ {0}
    BY BucketsFinite DEF Types
  <1>1. \A k \in 0..NumBuckets : starts[k] = Cardinality(Below(k))
    BY DEF Summed
  <1>2. ASSUME NEW i \in 0..NumBuckets, NEW j \in 0..NumBuckets, i <= j
        PROVE  starts[i] <= starts[j] /\ starts[i] \in 0..NumItems
    BY <1>0, <1>1, <1>2, BelowGrows
  <1>3. \A k \in 0..NumBuckets : starts[k] \in 0..NumItems
    <2>1. \A k \in 0..NumBuckets : k <= k
      OBVIOUS
    <2> QED BY <1>2, <2>1
  <1>4. starts[0] = 0
    <2>1. 0 \in 0..NumBuckets
      BY <1>0
    <2> QED BY <1>0, <1>1, <2>1, BelowFirst
  <1>5. ASSUME NEW k \in Buckets
        PROVE  /\ k \in 0..NumBuckets /\ k + 1 \in 0..NumBuckets
               /\ starts[k + 1] = starts[k] + Cardinality(Of(k))
               /\ starts[k] <= count[k] /\ count[k] <= starts[k + 1] /\ count[k] \in 0..NumItems
    <2>1. k \in 0..NumBuckets /\ k + 1 \in 0..NumBuckets
      BY <1>0 DEF Buckets
    <2>2. starts[k + 1] = starts[k] + Cardinality(Of(k))
      BY <1>0, <1>1, <2>1, BelowNext
    <2>3. count[k] = starts[k] + Cardinality(DoneOf(k, 6))
      BY DEF Cursors
    <2>4. Cardinality(DoneOf(k, 6)) \in Nat /\ Cardinality(Of(k)) \in Nat
          /\ Cardinality(DoneOf(k, 6)) <= Cardinality(Of(k))
      BY DoneFinite
    <2>5. starts[k] \in 0..NumItems /\ starts[k + 1] \in 0..NumItems
      BY <1>3, <2>1
    <2>6. NumItems \in Nat
      BY PairsFinite
    <2> QED BY <2>1, <2>2, <2>3, <2>4, <2>5, <2>6
  <1> QED BY <1>2, <1>3, <1>4, <1>5

-----------------------------------------------------------------------------
(* The steps *)

\* Invocation 0 is one of them.
LEMMA First == 0 \in Tids
  BY SortAssumption DEF Tids

\* What the passage of an invocation from one phase to the next leaves in place: all but
\* the barriers, when it is not the first step of the invocation nor the ordering.
LEMMA Stands ==
  ASSUME SInv, Types', Barriers', \A t \in Tids : Moves(t),
         UNCHANGED <<scalar, count, starts, perm, items>>,
         \A u \in Tids : phase'[u] >= 1 <=> phase[u] >= 1,
         phase'[0] >= 5 <=> phase[0] >= 5
  PROVE  SInv'
  <1> USE First
  <1>1. /\ \A x \in Pairs, p \in {2, 6} : Done(x, p)' <=> Done(x, p)
        /\ \A k : \A p \in {2, 6} : DoneOf(k, p)' = DoneOf(k, p)
    BY DoneStays DEF SInv
  <1>2. \A u \in Tids : phase[u] \in 0..7 /\ phase'[u] \in 0..7
    BY DEF SInv, Types
  <1>3. \A u \in Tids : phase'[u] = 0 <=> phase[u] = 0
    BY <1>2
  <1>4. phase'[0] <= 4 <=> phase[0] <= 4
    BY <1>2
  <1>5. phase'[0] < 5 <=> phase[0] < 5
    BY <1>2
  <1>6. Cleared1'
    BY <1>3 DEF SInv, Cleared1, Cleared
  <1>7. Counted'
    <2> SUFFICES ASSUME \A u \in Tids : phase'[u] >= 1, phase'[0] <= 4, NEW k \in Buckets
                 PROVE  count'[k] = Cardinality(DoneOf(k, 2)')
      BY Zenon DEF Counted
    <2>1. count[k] = Cardinality(DoneOf(k, 2))
      BY <1>4 DEF SInv, Counted
    <2>2. DoneOf(k, 2)' = DoneOf(k, 2) /\ count' = count
      BY <1>1
    <2> QED BY <2>1, <2>2, Zenon
  <1>8. Summed'
    BY PlacesStay DEF SInv, Summed
  <1>9. Cursors'
    <2> SUFFICES ASSUME phase'[0] >= 5, NEW k \in Buckets
                 PROVE  count'[k] = starts'[k] + Cardinality(DoneOf(k, 6)')
      BY Zenon DEF Cursors
    <2>1. count[k] = starts[k] + Cardinality(DoneOf(k, 6))
      BY DEF SInv, Cursors
    <2>2. DoneOf(k, 6)' = DoneOf(k, 6) /\ count' = count /\ starts' = starts
      BY <1>1
    <2> QED BY <2>1, <2>2, Zenon
  <1>10. Ordered'
    BY DEF SInv, Ordered, Ordering, Load
  <1>11. Unwritten'
    BY <1>5 DEF SInv, Unwritten
  <1>12. Written'
    <2> SUFFICES ASSUME phase'[0] >= 5
                 PROVE  Origin' /\ Single' /\ Passed' /\ Ahead0' /\ Rest'
      BY Zenon DEF Written
    <2>1. Origin /\ Single /\ Passed /\ Ahead0 /\ Rest
      BY DEF SInv, Written
    <2>2. Origin'
      <3> SUFFICES ASSUME NEW s \in Slots, items'[s] # NoItem
                   PROVE  \E x \in Pairs : Done(x, 6)' /\ items'[s] = ItemOf(x)'
        BY Zenon DEF Origin
      <3>1. PICK x \in Pairs : Done(x, 6) /\ items[s] = ItemOf(x)
        BY <2>1 DEF Origin
      <3>2. Done(x, 6)' /\ items'[s] = ItemOf(x)'
        BY <1>1, <3>1, PlacesStay
      <3> QED BY <3>2
    <2>3. Single' /\ Passed' /\ Ahead0' /\ Rest'
      BY <2>1 DEF Single, Passed, Ahead0, Rest
    <2> QED BY <2>2, <2>3
  <1> QED BY <1>6, <1>7, <1>8, <1>9, <1>10, <1>11, <1>12 DEF SInv

\* An invocation crosses a barrier.
LEMMA CrossKeeps == ASSUME SInv, NEW t \in Tids, Cross(t) PROVE SInv'
  <1>1. /\ phase[t] \in {1, 3, 5} /\ phase'[t] = phase[t] + 1 /\ dd'[t] = 0
        /\ \A u \in Tids \ {t} : phase'[u] = phase[u] /\ dd'[u] = dd[u]
    BY DEF SInv, Types, Cross
  <1>2. Types'
    <2>1. phase' \in [Tids -> 0..7]
      BY <1>1 DEF SInv, Types, Cross
    <2>2. dd' \in [Tids -> 0..NumDigits] /\ 0 \in Digits
      BY DigitsAssumption DEF SInv, Types, Cross, Digits
    <2>3. \A u \in Tids : phase'[u] \in {2, 6} => dd'[u] \in Digits
      BY <1>1, <2>2 DEF SInv, Types
    <2> QED BY <2>1, <2>2, <2>3 DEF SInv, Types, Cross
  <1>3. Barriers'
    <2>1. \A u \in Tids : phase[u] \in 0..7
      BY DEF SInv, Types
    <2>2. \A u \in Tids : phase'[u] >= phase[u]
      BY <1>1, <2>1
    <2>3. \A u \in Tids : phase[u] >= phase[t]
      BY DEF Cross, BarrierOpen
    <2>4. ASSUME NEW v \in Tids, NEW b \in {1, 3, 5}, phase'[v] > b
          PROVE  phase[v] > b \/ \A u \in Tids : phase[u] >= b
      BY <1>1, <2>1, <2>3, <2>4
    <2> QED BY <1>2, <2>2, <2>4, BarriersKept DEF SInv
  <1>4. \A u \in Tids : Moves(u)
    BY <1>1 DEF Moves
  <1>5. \A u \in Tids : phase'[u] >= 1 <=> phase[u] >= 1
    BY <1>1
  <1>6. phase'[0] >= 5 <=> phase[0] >= 5
    BY <1>1, First
  <1> QED BY <1>2, <1>3, <1>4, <1>5, <1>6, Stands DEF Cross

\* The others leave the ordering to invocation 0.
LEMMA SkipKeeps == ASSUME SInv, NEW t \in Tids, Skip(t) PROVE SInv'
  <1>1. /\ t # 0 /\ phase[t] = 4 /\ phase'[t] = 5 /\ dd' = dd
        /\ \A u \in Tids \ {t} : phase'[u] = phase[u]
    BY DEF SInv, Types, Skip
  <1>2. Types'
    BY <1>1 DEF SInv, Types, Skip
  <1>3. Barriers'
    <2>1. \A u \in Tids : phase[u] \in 0..7
      BY DEF SInv, Types
    <2>2. \A u \in Tids : phase'[u] >= phase[u]
      BY <1>1, <2>1
    <2>3. ASSUME NEW v \in Tids, NEW b \in {1, 3, 5}, phase'[v] > b
          PROVE  phase[v] > b \/ \A u \in Tids : phase[u] >= b
      BY <1>1, <2>1, <2>3
    <2> QED BY <1>2, <2>2, <2>3, BarriersKept DEF SInv
  <1>4. \A u \in Tids : Moves(u)
    BY <1>1 DEF Moves
  <1>5. \A u \in Tids : phase'[u] >= 1 <=> phase[u] >= 1
    BY <1>1
  <1>6. phase'[0] >= 5 <=> phase[0] >= 5
    BY <1>1, First
  <1> QED BY <1>2, <1>3, <1>4, <1>5, <1>6, Stands DEF Skip

\* Nothing moves.
LEMMA StutterKeeps == ASSUME SInv, UNCHANGED sortVars PROVE SInv'
  <1>1. UNCHANGED <<scalar, phase, dd, count, starts, perm, items>>
    BY DEF sortVars
  <1>2. Types' /\ Barriers'
    BY <1>1 DEF SInv, Types, Barriers
  <1>3. \A u \in Tids : Moves(u)
    BY <1>1 DEF Moves
  <1> QED BY <1>1, <1>2, <1>3, Stands

\* Together the invocations clear every counter.
LEMMA ClearedAll ==
  /\ \A v \in Tids : Cleared(v) \subseteq Buckets
  /\ \A k \in Buckets : \E v \in Tids : k \in Cleared(v)
  <1> DEFINE half == NumBuckets \div 2
  <1>1. half \in Nat /\ NumBuckets = 2 * half /\ half <= Terms /\ Terms \in Nat
    <2>1. NumBuckets \in Nat /\ NumBuckets % 2 = 0 /\ half <= Terms /\ Terms \in Nat
      BY SortAssumption, DigitsAssumption
    <2> QED BY <2>1
  <1>2. \A v : Cleared(v) = IF v < half THEN {v, v + half} ELSE {}
    BY DEF Cleared
  <1> HIDE DEF half
  <1>3. ASSUME NEW v \in Tids PROVE Cleared(v) \subseteq Buckets
    BY <1>1, <1>2 DEF Tids, Buckets
  <1>4. ASSUME NEW k \in Buckets PROVE \E v \in Tids : k \in Cleared(v)
    <2>1. CASE k < half
      <3>1. k \in Tids /\ k \in Cleared(k)
        BY <1>1, <1>2, <2>1 DEF Tids, Buckets
      <3> QED BY <3>1
    <2>2. CASE ~(k < half)
      <3>1. k - half \in Tids /\ k \in Cleared(k - half)
        BY <1>1, <1>2, <2>2 DEF Tids, Buckets
      <3> QED BY <3>1
    <2>3. k < half \/ ~(k < half)
      OBVIOUS
    <2> QED BY <2>1, <2>2, <2>3
  <1> QED BY <1>3, <1>4

\* An invocation clears its counters: nobody has begun to count, and when it is the last
\* every counter is zero.
LEMMA ClearKeeps == ASSUME SInv, NEW t \in Tids, Clear(t) PROVE SInv'
  <1> USE First
  <1>1. /\ phase[t] = 0 /\ phase'[t] = 1 /\ dd' = dd /\ scalar' = scalar
        /\ \A u \in Tids \ {t} : phase'[u] = phase[u]
    BY DEF SInv, Types, Clear
  <1>2. ASSUME NEW u \in Tids PROVE phase[u] \in {0, 1} /\ phase'[u] \in {0, 1}
    <2>1. phase[u] \in 0..7 /\ ~(phase[u] > 1)
      BY <1>1 DEF SInv, Types, Barriers
    <2> QED BY <1>1, <2>1
  <1>3. count' = [k \in Buckets |-> IF k \in Cleared(t) THEN 0 ELSE count[k]]
    BY DEF Clear
  <1>4. Types'
    <2>1. count' \in [Buckets -> Nat]
      BY <1>3 DEF SInv, Types
    <2>2. phase' \in [Tids -> 0..7]
      BY DEF SInv, Types, Clear
    <2>3. \A u \in Tids : ~(phase'[u] \in {2, 6})
      BY <1>2
    <2> QED BY <2>1, <2>2, <2>3 DEF SInv, Types, Clear
  <1>5. Barriers'
    <2>1. \A u \in Tids : ~(phase'[u] > 1) /\ ~(phase'[u] > 3) /\ ~(phase'[u] > 5)
      BY <1>2
    <2> QED BY <2>1 DEF Barriers
  <1>6. ASSUME NEW v \in Tids, phase'[v] >= 1, NEW k \in Cleared(v) PROVE count'[k] = 0
    <2>1. k \in Buckets
      BY ClearedAll
    <2>2. CASE v = t
      BY <1>3, <2>1, <2>2
    <2>3. CASE v # t
      <3>1. phase[v] >= 1
        BY <1>1, <1>6, <2>3
      <3>2. count[k] = 0
        BY <1>1, <3>1 DEF SInv, Cleared1
      <3> QED BY <1>3, <2>1, <3>2
    <2> QED BY <2>2, <2>3
  <1>7. Cleared1'
    BY <1>6, Zenon DEF Cleared1, Cleared
  <1>8. Counted'
    <2> SUFFICES ASSUME \A u \in Tids : phase'[u] >= 1, NEW k \in Buckets
                 PROVE  count'[k] = Cardinality(DoneOf(k, 2)')
      BY Zenon DEF Counted
    <2>1. PICK v \in Tids : k \in Cleared(v)
      BY ClearedAll
    <2>2. count'[k] = 0
      BY <1>6, <2>1
    <2>3. \A u \in Tids : Moves(u)
      BY <1>1 DEF Moves
    <2>4. DoneOf(k, 2)' = DoneOf(k, 2)
      BY <1>1, <2>3, DoneStays DEF SInv
    <2>5. \A u \in Tids : phase[u] < 2
      BY <1>2
    <2>6. Cardinality(DoneOf(k, 2)) = 0
      BY <2>5, DoneNothing DEF SInv
    <2> QED BY <2>2, <2>4, <2>6, Zenon
  <1>9. phase[0] < 5 /\ ~(phase'[0] >= 5)
    BY <1>2
  <1>10. Summed' /\ Cursors' /\ Ordered' /\ Written'
    BY <1>9, Zenon DEF Summed, Cursors, Ordered, Written
  <1>11. Unwritten'
    BY <1>9 DEF SInv, Unwritten, Clear
  <1> QED BY <1>4, <1>5, <1>7, <1>8, <1>10, <1>11 DEF SInv

\* What an invocation in a loop does to the phases.
LEMMA LoopStep ==
  ASSUME Types, Barriers, NEW t \in Tids, NEW p \in {2, 6}, phase[t] = p, NextDigit(t)
  PROVE  /\ phase' \in [Tids -> 0..7] /\ dd' \in [Tids -> 0..NumDigits]
         /\ \A u \in Tids : phase'[u] \in {2, 6} => dd'[u] \in Digits
         /\ Barriers'
         /\ phase'[t] \in {p, p + 1} /\ \A u \in Tids \ {t} : phase'[u] = phase[u]
         /\ \A u \in Tids : phase[u] >= p - 1 /\ phase'[u] >= p - 1
  <1>1. dd[t] \in Digits /\ NumDigits \in Nat \ {0} /\ Digits = 0..(NumDigits - 1)
    BY DigitsAssumption DEF Types, Digits
  <1>2. /\ phase'[t] = IF dd[t] + 1 = NumDigits THEN p + 1 ELSE p
        /\ dd'[t] = dd[t] + 1
        /\ \A u \in Tids \ {t} : phase'[u] = phase[u] /\ dd'[u] = dd[u]
    BY DEF NextDigit, Types
  <1>3. phase' \in [Tids -> 0..7]
    BY DEF NextDigit, Types
  <1>4. dd' \in [Tids -> 0..NumDigits]
    <2>1. dd[t] + 1 \in 0..NumDigits
      BY <1>1
    <2> QED BY <2>1 DEF NextDigit, Types
  <1>5. ASSUME NEW u \in Tids, phase'[u] \in {2, 6} PROVE dd'[u] \in Digits
    <2>1. CASE u = t
      <3>1. dd[t] + 1 # NumDigits
        BY <1>2, <1>5, <2>1
      <3> QED BY <1>1, <1>2, <2>1, <3>1
    <2>2. CASE u # t
      BY <1>2, <1>5, <2>2 DEF Types
    <2> QED BY <2>1, <2>2
  <1>6. phase'[t] \in {p, p + 1} /\ \A u \in Tids \ {t} : phase'[u] = phase[u]
    BY <1>2
  <1>7. ASSUME NEW u \in Tids PROVE phase[u] >= p - 1
    <2>1. phase[t] > 1 /\ phase[u] \in 0..7 /\ (p = 6 => phase[t] > 5)
      BY DEF Types
    <2> QED BY <2>1 DEF Barriers
  <1>8. \A u \in Tids : phase[u] \in 0..7
    BY DEF Types
  <1>9. ASSUME NEW u \in Tids
        PROVE  /\ phase'[u] >= phase[u] /\ phase'[u] >= p - 1
               /\ \A b \in {1, 3, 5} : phase'[u] > b => phase[u] > b
    BY <1>6, <1>7, <1>8
  <1>10. Barriers'
    <2> SUFFICES ASSUME NEW v \in Tids, NEW u \in Tids, NEW b \in {1, 3, 5}, phase'[v] > b
                 PROVE  phase'[u] >= b
      BY DEF Barriers
    <2>1. phase[v] > b
      BY <1>9
    <2>2. b = 1 \/ b = 3 \/ b = 5
      OBVIOUS
    <2>3. phase[u] >= b
      BY <2>1, <2>2 DEF Barriers
    <2>4. phase'[u] \in Nat /\ phase'[u] >= phase[u]
      BY <1>3, <1>9
    <2> QED BY <1>8, <2>3, <2>4
  <1> QED BY <1>3, <1>4, <1>5, <1>6, <1>7, <1>9, <1>10

\* An invocation counts a digit: its bucket's counter goes up with what is done of it.
LEMMA CountKeeps == ASSUME SInv, NEW t \in Tids, Count(t) PROVE SInv'
  <1> USE First
  <1>1. phase[t] = 2 /\ NextDigit(t) /\ UNCHANGED <<scalar, starts, perm, items>>
    BY DEF Count
  <1>2. Types /\ Barriers
    BY DEF SInv
  <1>3. /\ phase' \in [Tids -> 0..7] /\ dd' \in [Tids -> 0..NumDigits]
        /\ \A u \in Tids : phase'[u] \in {2, 6} => dd'[u] \in Digits
        /\ Barriers'
        /\ phase'[t] \in {2, 2 + 1} /\ \A u \in Tids \ {t} : phase'[u] = phase[u]
        /\ \A u \in Tids : phase[u] >= 2 - 1 /\ phase'[u] >= 2 - 1
    <2> DEFINE p == 2
    <2>1. p \in {2, 6} /\ phase[t] = p
      BY <1>1
    <2>2. /\ phase' \in [Tids -> 0..7] /\ dd' \in [Tids -> 0..NumDigits]
          /\ \A u \in Tids : phase'[u] \in {2, 6} => dd'[u] \in Digits
          /\ Barriers'
          /\ phase'[t] \in {p, p + 1} /\ \A u \in Tids \ {t} : phase'[u] = phase[u]
          /\ \A u \in Tids : phase[u] >= p - 1 /\ phase'[u] >= p - 1
      <3> HIDE DEF p
      <3> QED BY <1>1, <1>2, <2>1, LoopStep, Zenon
    <2> QED BY <2>2
  <1>4. phase[0] <= 3 /\ phase'[0] <= 3
    <2>1. phase[0] \in 0..7 /\ ~(phase[0] > 3)
      BY <1>1, <1>2 DEF Types, Barriers
    <2> QED BY <1>3, <2>1
  <1>5. \A k \in Buckets : count[k] = Cardinality(DoneOf(k, 2)) /\ count[k] \in Nat
    <2>1. (\A u \in Tids : phase[u] >= 1) /\ phase[0] <= 4
      <3>1. phase[0] \in 0..7
        BY <1>2 DEF Types
      <3> QED BY <1>3, <1>4, <3>1
    <2>2. \A k \in Buckets : count[k] \in Nat
      BY <1>2 DEF Types
    <2> QED BY <2>1, <2>2 DEF SInv, Counted
  <1>6. ASSUME NEW k \in Buckets
        PROVE  count'[k] = IF Digit(t, dd[t]) # 0 /\ BucketOf(t, dd[t]) = k
                           THEN count[k] + 1 ELSE count[k]
    BY <1>2 DEF Count, Types
  <1>7. count' \in [Buckets -> Nat]
    <2>1. count' = [k \in Buckets |-> count'[k]]
      BY <1>2 DEF Count, Types
    <2>2. \A k \in Buckets : count'[k] \in Nat
      BY <1>5, <1>6
    <2> QED BY <2>1, <2>2
  <1>8. Types'
    BY <1>1, <1>2, <1>3, <1>7 DEF Types
  <1>9. Cleared1'
    <2>1. \A u \in Tids : phase'[u] # 0
      BY <1>3
    <2> QED BY <2>1 DEF Cleared1
  <1>10. ASSUME NEW k \in Buckets PROVE count'[k] = Cardinality(DoneOf(k, 2)')
    <2> DEFINE p == 2
    <2>1. p \in {2, 6} /\ phase[t] = p
      BY <1>1
    <2>2. Cardinality(DoneOf(k, p)') =
            IF Digit(t, dd[t]) # 0 /\ BucketOf(t, dd[t]) = k
            THEN Cardinality(DoneOf(k, p)) + 1 ELSE Cardinality(DoneOf(k, p))
      <3> HIDE DEF p
      <3> QED BY <1>1, <1>2, <2>1, DoneGrows, Zenon
    <2> QED BY <1>5, <1>6, <2>2, Zenon
  <1>11. Counted'
    BY <1>10, Zenon DEF Counted
  <1>12. ~(phase'[0] >= 5) /\ phase[0] < 5
    <2>1. phase[0] \in 0..7 /\ phase'[0] \in 0..7
      BY <1>2, <1>3 DEF Types
    <2> QED BY <1>4, <2>1
  <1>13. Summed' /\ Cursors' /\ Ordered' /\ Written'
    BY <1>12, Zenon DEF Summed, Cursors, Ordered, Written
  <1>14. Unwritten'
    BY <1>1, <1>12 DEF SInv, Unwritten
  <1> QED BY <1>3, <1>8, <1>9, <1>11, <1>13, <1>14 DEF SInv

\* Invocation 0 orders the buckets: everybody has counted, so that the counters are the
\* loads, and nobody has begun to scatter.
LEMMA OrderKeeps == ASSUME SInv, Order PROVE SInv'
  <1> USE First
  <1>1. /\ phase[0] = 4 /\ phase'[0] = 5 /\ UNCHANGED <<scalar, dd, items>>
        /\ \A u \in Tids \ {0} : phase'[u] = phase[u]
    BY DEF SInv, Types, Order
  <1>2. Types /\ scalar \in [Tids -> Scalars] /\ count \in [Buckets -> Nat]
    BY DEF SInv, Types
  <1>3. ASSUME NEW u \in Tids PROVE phase[u] \in {3, 4, 5}
    <2>1. phase[u] \in 0..7 /\ phase[u] >= 3 /\ ~(phase[u] > 5)
      BY <1>1 DEF SInv, Types, Barriers
    <2> QED BY <2>1
  <1>4. ASSUME NEW k \in Buckets PROVE count[k] = Cardinality(Of(k))
    <2>1. \A u \in Tids : phase[u] >= 1 /\ phase[u] > 2
      BY <1>3
    <2>2. count[k] = Cardinality(DoneOf(k, 2))
      BY <1>1, <2>1 DEF SInv, Counted
    <2>3. DoneOf(k, 2) = Of(k)
      BY <2>1, DoneEverything
    <2> QED BY <2>2, <2>3
  <1>5. /\ starts' = Starts /\ Starts \in [0..NumBuckets -> Nat]
        /\ \A k \in 0..NumBuckets : Starts[k] = Cardinality(Below(k))
    BY <1>2, <1>4, StartsSteps, PrefixSums DEF Order
  <1>6. \A k \in Buckets : count'[k] = starts'[k] /\ k \in 0..NumBuckets
    BY <1>5, BucketsFinite DEF Order, Buckets
  <1>7. \A i \in Buckets : perm'[i] \in Buckets /\ Rank(perm'[i]) = i
    <2> SUFFICES ASSUME NEW i \in Buckets PROVE perm'[i] \in Buckets /\ Rank(perm'[i]) = i
      OBVIOUS
    <2>1. \E k \in Buckets : Rank(k) = i
      BY <1>2, Ranks
    <2>2. perm'[i] = CHOOSE k \in Buckets : Rank(k) = i
      BY <2>1, Zenon DEF Order
    <2> QED BY <2>1, <2>2, Zenon
  <1>8. Types'
    <2>1. phase' \in [Tids -> 0..7]
      BY <1>2 DEF Order, Types
    <2>2. \A u \in Tids : phase'[u] \in {2, 6} => dd'[u] \in Digits
      BY <1>1, <1>2 DEF Types
    <2>3. count' \in [Buckets -> Nat]
      <3>1. \A k \in Buckets : Starts[k] \in Nat
        BY <1>5, <1>6
      <3>2. count' = [k \in Buckets |-> Starts[k]]
        BY DEF Order
      <3> QED BY <3>1, <3>2
    <2>4. perm' \in [Buckets -> Buckets]
      <3>1. perm' = [i \in Buckets |-> perm'[i]]
        BY DEF Order
      <3> QED BY <1>7, <3>1
    <2>5. starts' \in [0..NumBuckets -> Nat]
      BY <1>5
    <2> QED BY <1>1, <1>2, <2>1, <2>2, <2>3, <2>4, <2>5 DEF Types
  <1>9. Barriers'
    <2>1. \A u \in Tids : phase'[u] \in {3, 4, 5}
      BY <1>1, <1>3
    <2> QED BY <2>1 DEF Barriers
  <1>10. Cleared1' /\ Counted'
    <2>1. ~(phase'[0] <= 4) /\ \A u \in Tids : phase'[u] # 0
      BY <1>1, <1>3
    <2> QED BY <2>1, Zenon DEF Cleared1, Counted
  <1>11. Summed'
    <2>1. \A k : Below(k)' = Below(k)
      BY <1>1, PlacesStay
    <2> QED BY <1>5, <2>1, Zenon DEF Summed
  <1>12. /\ \A x \in Pairs : ~Done(x, 6)'
         /\ \A k : Cardinality(DoneOf(k, 6)') = 0
    <2>1. \A u \in Tids : Moves(u)
      BY <1>1 DEF Moves
    <2>2. \A u \in Tids : phase[u] < 6
      BY <1>3
    <2>3. /\ \A x \in Pairs : ~Done(x, 6)
          /\ \A k : Cardinality(DoneOf(k, 6)) = 0
      BY <1>2, <2>2, DoneNothing
    <2>4. /\ \A x \in Pairs, p \in {2, 6} : Done(x, p)' <=> Done(x, p)
          /\ \A k : \A p \in {2, 6} : DoneOf(k, p)' = DoneOf(k, p)
      BY <1>1, <1>2, <2>1, DoneStays
    <2>5. \A k : DoneOf(k, 6)' = DoneOf(k, 6)
      BY <2>4
    <2>6. \A x \in Pairs : ~Done(x, 6)'
      BY <2>3, <2>4
    <2> QED BY <2>3, <2>5, <2>6, Zenon
  <1>13. Cursors'
    <2> SUFFICES ASSUME NEW k \in Buckets
                 PROVE  count'[k] = starts'[k] + Cardinality(DoneOf(k, 6)')
      BY Zenon DEF Cursors
    <2>1. Cardinality(DoneOf(k, 6)') = 0
      BY <1>12
    <2>2. starts'[k] \in Nat /\ count'[k] = starts'[k]
      BY <1>5, <1>6
    <2>3. starts'[k] + 0 = starts'[k]
      BY <2>2
    <2> QED BY <2>1, <2>2, <2>3, Zenon
  <1>14. Ordering'
    <2>1. {perm'[i] : i \in Buckets} = Buckets
      <3>1. ASSUME NEW k \in Buckets PROVE \E i \in Buckets : perm'[i] = k
        <4>1. Rank(k) \in Buckets
          BY <1>2, Ranks
        <4>2. perm'[Rank(k)] = k
          BY <1>2, <1>7, <4>1, Ranks
        <4> QED BY <4>1, <4>2
      <3> QED BY <1>7, <3>1
    <2>2. ASSUME NEW i \in Buckets, NEW j \in Buckets, i < j
          PROVE  Load(perm[i])' >= Min({Load(perm[j])', LoadClasses - 1})
      <3> DEFINE a == perm'[i]
                 b == perm'[j]
      <3>1. a \in Buckets /\ b \in Buckets /\ Rank(a) < Rank(b)
        BY <1>7, <2>2
      <3>2. Load(perm[i])' = Starts[a + 1] - Starts[a] /\ Load(perm[j])' = Starts[b + 1] - Starts[b]
        BY <1>5 DEF Load
      <3> HIDE DEF a, b
      <3>3. Ahead(a, b)
        BY <1>2, <3>1, Ranks
      <3>4. /\ LoadClass(a) \in Nat /\ LoadClass(b) \in Nat
            /\ Starts[a + 1] - Starts[a] \in Nat
            /\ LoadClass(a) <= Starts[a + 1] - Starts[a]
            /\ LoadClass(b) = Min({Starts[b + 1] - Starts[b], LoadClasses - 1})
        BY <1>2, <3>1, LoadClassIs
      <3>5. LoadClass(a) >= LoadClass(b)
        BY <3>3, <3>4 DEF Ahead
      <3>6. Starts[a + 1] - Starts[a] >= LoadClass(b)
        BY <3>4, <3>5
      <3> QED BY <3>2, <3>4, <3>6
    <2> QED BY <2>1, <2>2, Zenon DEF Ordering
  <1>15. Ordered'
    BY <1>14 DEF Ordered
  <1>16. Unwritten'
    BY <1>1 DEF Unwritten
  <1>17. Written'
    <2>1. \A s \in Slots : items'[s] = NoItem
      BY <1>1 DEF SInv, Unwritten
    <2>2. Origin' /\ Single'
      BY <2>1, Zenon DEF Origin, Single
    <2>3. Passed'
      BY <1>5, <1>6 DEF Passed
    <2>4. ASSUME NEW k \in 0..NumBuckets PROVE starts'[k] \in 0..NumItems
      <3>1. Cardinality(Below(k)) \in 0..NumItems
        BY <1>2, BelowGrows
      <3> QED BY <1>5, <3>1
    <2>5. NumItems \in Nat /\ NumBuckets \in 0..NumBuckets
          /\ \A k \in Buckets : k + 1 \in 0..NumBuckets
      BY PairsFinite, BucketsFinite DEF Buckets
    <2>6. Ahead0'
      <3> SUFFICES ASSUME NEW k \in Buckets, NEW s \in count'[k]..(starts'[k + 1] - 1)
                   PROVE  items'[s] = NoItem
        BY Zenon DEF Ahead0
      <3>1. count'[k] \in 0..NumItems /\ starts'[k + 1] \in 0..NumItems
        BY <1>6, <2>4, <2>5
      <3>2. s \in Slots
        BY <2>5, <3>1 DEF Slots
      <3> QED BY <2>1, <3>2
    <2>7. Rest'
      <3> SUFFICES ASSUME NEW s \in starts'[NumBuckets]..(NumItems - 1)
                   PROVE  items'[s] = NoItem
        BY Zenon DEF Rest
      <3>1. starts'[NumBuckets] \in 0..NumItems
        BY <2>4, <2>5
      <3>2. s \in Slots
        BY <2>5, <3>1 DEF Slots
      <3> QED BY <2>1, <3>2
    <2> QED BY <2>2, <2>3, <2>6, <2>7 DEF Written
  <1> QED BY <1>8, <1>9, <1>10, <1>11, <1>13, <1>15, <1>16, <1>17 DEF SInv

\* The slot an invocation is about to write is one of its digit's bucket, and is free.
LEMMA OpenSlot ==
  ASSUME SInv, NEW t \in Tids, phase[t] = 6, Digit(t, dd[t]) # 0
  PROVE  LET bk == BucketOf(t, dd[t])
             s0 == count[bk] IN
         /\ bk \in Buckets /\ s0 \in Slots
         /\ starts[bk] <= s0 /\ s0 < starts[bk + 1]
         /\ items[s0] = NoItem
  <1> DEFINE bk == BucketOf(t, dd[t])
             s0 == count[bk]
             y == <<t, dd[t]>>
  <1>1. Types /\ Summed /\ Cursors /\ phase[0] >= 5
    BY First DEF SInv, Barriers
  <1>2. y \in Pairs /\ y[1] = t /\ y[2] = dd[t] /\ ~Done(y, 6)
    <2>1. dd[t] \in Digits
      BY <1>1 DEF Types
    <2>2. y \in Pairs /\ y[1] = t /\ y[2] = dd[t]
      BY <2>1, PairIn
    <2> HIDE DEF y
    <2>3. ~(phase[t] > 6) /\ ~(dd[t] < dd[t])
      BY <2>1, DigitsAssumption DEF Digits
    <2> QED BY <2>2, <2>3 DEF Done
  <1>3. Kept(y) /\ In(y) = bk
    BY <1>2, Zenon DEF Kept, In
  <1>4. bk \in Buckets
    BY <1>1, <1>2, <1>3, InBuckets DEF Types
  <1> HIDE DEF bk, y
  <1>5. y \in Of(bk) /\ y \notin DoneOf(bk, 6)
    BY <1>2, <1>3 DEF Of, DoneOf
  <1>6. /\ Cardinality(DoneOf(bk, 6)) \in Nat /\ Cardinality(Of(bk)) \in Nat
        /\ Cardinality(DoneOf(bk, 6)) <= Cardinality(Of(bk))
        /\ Cardinality(DoneOf(bk, 6)) # Cardinality(Of(bk))
    BY <1>5, DoneFinite
  <1>7. s0 = starts[bk] + Cardinality(DoneOf(bk, 6))
    BY <1>1, <1>4 DEF Cursors
  <1>8. /\ starts[bk] \in 0..NumItems /\ starts[bk + 1] \in 0..NumItems
        /\ starts[bk + 1] = starts[bk] + Cardinality(Of(bk)) /\ NumItems \in Nat
    BY <1>1, <1>4, Layout, PairsFinite
  <1> HIDE DEF s0
  <1>9. s0 \in starts[bk]..(starts[bk + 1] - 1) /\ s0 \in Slots
    BY <1>6, <1>7, <1>8 DEF Slots
  <1>10. items[s0] = NoItem
    <2>1. s0 \in count[bk]..(starts[bk + 1] - 1)
      BY <1>8, <1>9 DEF s0
    <2> QED BY <1>1, <1>4, <2>1 DEF SInv, Written, Ahead0
  <1>11. starts[bk] <= s0 /\ s0 < starts[bk + 1]
    BY <1>8, <1>9
  <1> QED BY <1>4, <1>9, <1>10, <1>11 DEF bk, s0

\* An invocation scatters a digit: the cursor of its bucket is at a slot of that bucket
\* which nothing was written to, because not all that belongs there has been dealt with.
LEMMA ScatterKeeps == ASSUME SInv, NEW t \in Tids, Scatter(t) PROVE SInv'
  <1> USE First
  <1> DEFINE e == dd[t]
             v == Digit(t, e)
             bk == BucketOf(t, e)
             s0 == count[bk]
             y == <<t, e>>
             new == <<t, e, v < 0>>
  <1>1. /\ phase[t] = 6 /\ NextDigit(t) /\ UNCHANGED <<scalar, starts, perm>>
        /\ v = 0 => UNCHANGED <<count, items>>
        /\ v # 0 => /\ count' = [count EXCEPT ![bk] = @ + 1]
                    /\ items' = [items EXCEPT ![s0] = new]
    BY DEF Scatter
  <1>2. Types /\ Barriers /\ Summed /\ Cursors
    BY DEF SInv
  <1>3. /\ phase' \in [Tids -> 0..7] /\ dd' \in [Tids -> 0..NumDigits]
        /\ \A u \in Tids : phase'[u] \in {2, 6} => dd'[u] \in Digits
        /\ Barriers'
        /\ \A u \in Tids : phase[u] >= 6 - 1 /\ phase'[u] >= 6 - 1
    <2> DEFINE p == 6
    <2>1. p \in {2, 6} /\ phase[t] = p
      BY <1>1
    <2>2. /\ phase' \in [Tids -> 0..7] /\ dd' \in [Tids -> 0..NumDigits]
          /\ \A u \in Tids : phase'[u] \in {2, 6} => dd'[u] \in Digits
          /\ Barriers'
          /\ \A u \in Tids : phase[u] >= p - 1 /\ phase'[u] >= p - 1
      <3> HIDE DEF p
      <3> QED BY <1>1, <1>2, <2>1, LoopStep, Zenon
    <2> QED BY <2>2
  <1>4. phase[0] >= 5 /\ phase'[0] >= 5 /\ phase[0] \in 0..7 /\ phase'[0] \in 0..7
    BY <1>2, <1>3 DEF Types
  <1>5. Origin /\ Single /\ Passed /\ Ahead0 /\ Rest /\ Ordering
    BY <1>4 DEF SInv, Written, Ordered
  <1>6. /\ \A k \in 0..NumBuckets : starts[k] \in 0..NumItems
        /\ \A i, j \in 0..NumBuckets : i <= j => starts[i] <= starts[j]
        /\ \A k \in Buckets :
             /\ k \in 0..NumBuckets /\ k + 1 \in 0..NumBuckets
             /\ starts[k + 1] = starts[k] + Cardinality(Of(k))
             /\ starts[k] <= count[k] /\ count[k] <= starts[k + 1] /\ count[k] \in 0..NumItems
    BY <1>2, <1>4, Layout
  <1>7. /\ y \in Pairs /\ y[1] = t /\ y[2] = e /\ e \in Digits /\ ~Done(y, 6)
        /\ \A x \in Pairs : Done(x, 6)' <=> Done(x, 6) \/ x = y
    <2> DEFINE p == 6
    <2>1. p \in {2, 6} /\ phase[t] = p
      BY <1>1
    <2>2. y \in Pairs /\ ~Done(y, p) /\ \A x \in Pairs : Done(x, p)' <=> Done(x, p) \/ x = y
      <3> HIDE DEF p
      <3> QED BY <1>1, <1>2, <2>1, DoneNext, Zenon
    <2>3. y[1] = t /\ y[2] = e
      OBVIOUS
    <2> QED BY <2>2, <2>3, PairParts, Zenon
  <1>8. ASSUME NEW k
        PROVE  Cardinality(DoneOf(k, 6)') = IF v # 0 /\ bk = k THEN Cardinality(DoneOf(k, 6)) + 1
                                            ELSE Cardinality(DoneOf(k, 6))
    <2> DEFINE p == 6
    <2>1. p \in {2, 6} /\ phase[t] = p
      BY <1>1
    <2>2. Cardinality(DoneOf(k, p)') =
            IF v # 0 /\ bk = k THEN Cardinality(DoneOf(k, p)) + 1 ELSE Cardinality(DoneOf(k, p))
      <3> HIDE DEF p
      <3> QED BY <1>1, <1>2, <2>1, DoneGrows, Zenon
    <2> QED BY <2>2
  <1>9. /\ count \in [Buckets -> Nat] /\ items \in [Slots -> (Tids \X Digits \X BOOLEAN) \cup {NoItem}]
        /\ scalar \in [Tids -> Scalars]
    BY <1>2 DEF Types
  <1>10. ASSUME v # 0
         PROVE  /\ bk \in Buckets /\ s0 \in Slots
                /\ starts[bk] <= s0 /\ s0 < starts[bk + 1]
                /\ items[s0] = NoItem
    BY <1>1, <1>10, OpenSlot, Zenon
  <1>11. ASSUME NEW k \in Buckets
         PROVE  count'[k] = IF v # 0 /\ bk = k THEN count[k] + 1 ELSE count[k]
    BY <1>1, <1>9
  <1>12. ASSUME NEW s \in Slots
         PROVE  items'[s] = IF v # 0 /\ s = s0 THEN new ELSE items[s]
    BY <1>1, <1>9
  <1>13. new \in Tids \X Digits \X BOOLEAN /\ new # NoItem
    <2>1. new \in Tids \X Digits \X BOOLEAN
      <3>1. (v < 0) \in BOOLEAN
        OBVIOUS
      <3> HIDE DEF v, e
      <3> QED BY <1>7, <3>1
    <2> QED BY <2>1, SortAssumption
  <1>14. new = ItemOf(y)
    <2> HIDE DEF y, e
    <2>1. y[1] = t /\ y[2] = e
      BY <1>7
    <2> QED BY <2>1, Zenon DEF ItemOf
  <1> HIDE DEF v, e, bk, s0, y, new
  <1>15. Types'
    <2>1. count' \in [Buckets -> Nat]
      <3>1. CASE v = 0
        BY <1>1, <1>9, <3>1
      <3>2. CASE v # 0
        <4>1. count[bk] + 1 \in Nat
          BY <1>9, <1>10, <3>2
        <4> QED BY <1>1, <1>9, <3>2, <4>1
      <3> QED BY <3>1, <3>2
    <2>2. items' \in [Slots -> (Tids \X Digits \X BOOLEAN) \cup {NoItem}]
      BY <1>1, <1>9, <1>13
    <2> QED BY <1>1, <1>2, <1>3, <2>1, <2>2 DEF Types
  <1>16. Cleared1' /\ Counted'
    <2>1. ~(phase'[0] <= 4) /\ \A u \in Tids : phase'[u] # 0
      BY <1>3, <1>4
    <2> QED BY <2>1, Zenon DEF Cleared1, Counted
  <1>17. Summed'
    BY <1>1, <1>2, <1>4, PlacesStay DEF Summed
  <1>18. Cursors'
    <2> SUFFICES ASSUME NEW k \in Buckets
                 PROVE  count'[k] = starts'[k] + Cardinality(DoneOf(k, 6)')
      BY Zenon DEF Cursors
    <2> DEFINE c == Cardinality(DoneOf(k, 6))
               d == Cardinality(DoneOf(k, 6)')
    <2>1. count[k] = starts[k] + c
      BY <1>2, <1>4 DEF Cursors
    <2>2. c \in Nat /\ starts[k] \in Nat /\ starts'[k] = starts[k]
      BY <1>1, <1>6, DoneFinite
    <2>3. d = IF v # 0 /\ bk = k THEN c + 1 ELSE c
      BY <1>8
    <2> HIDE DEF c, d
    <2>4. count'[k] = starts'[k] + d
      BY <1>11, <2>1, <2>2, <2>3
    <2> QED BY <2>4 DEF d
  <1>19. Ordered' /\ Unwritten'
    <2>1. Ordering'
      BY <1>1, <1>5 DEF Ordering, Load
    <2>2. ~(phase'[0] < 5)
      BY <1>4
    <2> QED BY <2>1, <2>2, Zenon DEF Ordered, Unwritten
  <1>20. Origin'
    <2> SUFFICES ASSUME NEW s \in Slots, items'[s] # NoItem
                 PROVE  \E x \in Pairs : Done(x, 6)' /\ items'[s] = ItemOf(x)'
      BY Zenon DEF Origin
    <2>1. \A x : ItemOf(x)' = ItemOf(x)
      BY <1>1, PlacesStay
    <2>2. CASE v # 0 /\ s = s0
      <3>1. items'[s] = ItemOf(y)
        BY <1>12, <1>14, <2>2
      <3> QED BY <1>7, <2>1, <3>1, Zenon
    <2>3. CASE ~(v # 0 /\ s = s0)
      <3>1. items'[s] = items[s]
        BY <1>12, <2>3
      <3>2. PICK x \in Pairs : Done(x, 6) /\ items[s] = ItemOf(x)
        BY <1>5, <3>1 DEF Origin
      <3> QED BY <1>7, <2>1, <3>1, <3>2, Zenon
    <2> QED BY <2>2, <2>3
  <1>21. Single'
    <2>1. ASSUME v # 0, NEW r \in Slots, r # s0 PROVE items[r] # new
      <3> SUFFICES ASSUME items[r] = new PROVE FALSE
        OBVIOUS
      <3>1. PICK x \in Pairs : Done(x, 6) /\ items[r] = ItemOf(x)
        BY <1>5, <1>13 DEF Origin
      <3>2. ItemOf(x) = ItemOf(y)
        BY <1>14, <3>1
      <3>3. x[1] = y[1] /\ x[2] = y[2]
        BY <3>2 DEF ItemOf
      <3>4. x = y
        BY <1>7, <3>3, PairParts
      <3> QED BY <1>7, <3>1, <3>4
    <2> SUFFICES ASSUME NEW s \in Slots, NEW r \in Slots, items'[s] # NoItem,
                        items'[s] = items'[r]
                 PROVE  s = r
      BY Zenon DEF Single
    <2>2. items[s] # NoItem /\ items[s] = items[r] => s = r
      BY <1>5, Zenon DEF Single
    <2> QED BY <1>12, <2>1, <2>2
  <1>22. NumItems \in Nat /\ Slots = 0..(NumItems - 1) /\ NumBuckets \in Nat
         /\ NumBuckets \in 0..NumBuckets /\ Buckets = 0..(NumBuckets - 1)
    BY PairsFinite, BucketsFinite DEF Slots, Buckets
  <1>23. Passed'
    <2> SUFFICES ASSUME NEW k \in Buckets, NEW s \in starts[k]..(count'[k] - 1)
                 PROVE  items'[s] # NoItem
      BY <1>1, Zenon DEF Passed
    <2>1. /\ starts[k] \in 0..NumItems /\ count[k] \in 0..NumItems
      BY <1>6
    <2>2. CASE v # 0 /\ bk = k
      <3>1. count'[k] = count[k] + 1 /\ s0 = count[k] /\ s0 \in Slots
        BY <1>10, <1>11, <2>2 DEF s0
      <3>2. s \in Slots /\ (s = s0 \/ s \in starts[k]..(count[k] - 1))
        BY <1>22, <2>1, <3>1
      <3>3. s = s0 \/ items[s] # NoItem
        BY <1>5, <3>2 DEF Passed
      <3> QED BY <1>12, <1>13, <2>2, <3>2, <3>3
    <2>3. CASE ~(v # 0 /\ bk = k)
      <3>1. count'[k] = count[k]
        BY <1>11, <2>3
      <3>2. s \in Slots /\ items[s] # NoItem
        BY <1>5, <1>22, <2>1, <3>1 DEF Passed
      <3> QED BY <1>12, <1>13, <3>2
    <2> QED BY <2>2, <2>3
  <1>24. Ahead0'
    <2> SUFFICES ASSUME NEW k \in Buckets, NEW s \in count'[k]..(starts[k + 1] - 1)
                 PROVE  items'[s] = NoItem
      BY <1>1, Zenon DEF Ahead0
    <2>1. /\ starts[k] \in 0..NumItems /\ count[k] \in 0..NumItems /\ starts[k] <= count[k]
          /\ starts[k + 1] \in 0..NumItems
      BY <1>6
    <2>2. count'[k] = count[k] \/ count'[k] = count[k] + 1
      BY <1>11
    <2>3. s \in Slots /\ s \in count[k]..(starts[k + 1] - 1)
      BY <1>22, <2>1, <2>2
    <2>4. items[s] = NoItem
      BY <1>5, <2>3 DEF Ahead0
    <2>5. ASSUME v # 0 PROVE s # s0
      <3>1. /\ bk \in Buckets /\ starts[bk] <= s0 /\ s0 < starts[bk + 1]
            /\ s0 \in Slots /\ s0 = count[bk]
        BY <1>10, <2>5 DEF s0
      <3>2. bk \in 0..NumBuckets /\ bk + 1 \in 0..NumBuckets /\ k \in 0..NumBuckets
            /\ k + 1 \in 0..NumBuckets
            /\ starts[bk] \in 0..NumItems /\ starts[bk + 1] \in 0..NumItems
        BY <1>6, <3>1
      <3>3. CASE k = bk
        <4>1. count'[k] = s0 + 1
          BY <1>11, <2>5, <3>1, <3>3
        <4> QED BY <1>22, <2>3, <3>1, <4>1
      <3>4. CASE k < bk
        <4>1. starts[k + 1] <= starts[bk]
          BY <1>6, <1>22, <3>1, <3>2, <3>4
        <4> QED BY <1>22, <2>1, <2>3, <3>1, <3>2, <4>1
      <3>5. CASE bk < k
        <4>1. starts[bk + 1] <= starts[k]
          BY <1>6, <1>22, <3>1, <3>2, <3>5
        <4> QED BY <1>22, <2>1, <2>3, <3>1, <3>2, <4>1, SMTT(30)
      <3>6. k = bk \/ k < bk \/ bk < k
        BY <3>2
      <3> QED BY <3>3, <3>4, <3>5, <3>6
    <2> QED BY <1>12, <2>3, <2>4, <2>5
  <1>25. Rest'
    <2> SUFFICES ASSUME NEW s \in starts[NumBuckets]..(NumItems - 1) PROVE items'[s] = NoItem
      BY <1>1, Zenon DEF Rest
    <2>1. items[s] = NoItem
      BY <1>5 DEF Rest
    <2>2. s \in Slots
      BY <1>6, <1>22
    <2>3. ASSUME v # 0 PROVE s # s0
      <3>1. bk \in Buckets /\ s0 < starts[bk + 1] /\ s0 \in Slots
        BY <1>10, <2>3
      <3>2. bk + 1 \in 0..NumBuckets /\ bk + 1 <= NumBuckets
        BY <1>22, <3>1
      <3>3. starts[bk + 1] <= starts[NumBuckets] /\ starts[bk + 1] \in 0..NumItems
            /\ starts[NumBuckets] \in 0..NumItems
        BY <1>6, <1>22, <3>2
      <3> QED BY <1>22, <3>1, <3>3
    <2> QED BY <1>12, <2>1, <2>2, <2>3
  <1>26. Written'
    BY <1>20, <1>21, <1>23, <1>24, <1>25, Zenon DEF Written
  <1> QED BY <1>3, <1>15, <1>16, <1>17, <1>18, <1>19, <1>26 DEF SInv

-----------------------------------------------------------------------------
(* The theorems *)

\* When the workgroup starts nothing is cleared, counted or written.
LEMMA InitSInv == Init => SInv
  <1> SUFFICES ASSUME SortInit PROVE SInv
    BY DEF Init
  <1> USE First
  <1>1. Leftover \in Nat /\ 0 \in 0..NumDigits /\ 0 \in Buckets
    BY SortAssumption, DigitsAssumption DEF Buckets
  <1>2. \A u \in Tids : phase[u] = 0
    BY DEF SortInit
  <1>3. Types
    <2>1. \A u \in Tids : ~(phase[u] \in {2, 6})
      BY <1>2
    <2>2. count \in [Buckets -> Nat] /\ starts \in [0..NumBuckets -> Nat]
          /\ perm \in [Buckets -> Buckets]
      BY <1>1 DEF SortInit
    <2>3. phase \in [Tids -> 0..7] /\ dd \in [Tids -> 0..NumDigits]
      BY <1>1 DEF SortInit
    <2> QED BY <2>1, <2>2, <2>3 DEF Types, SortInit
  <1>4. \A u \in Tids : ~(phase[u] >= 1) /\ ~(phase[u] > 1) /\ ~(phase[u] > 3) /\ ~(phase[u] > 5)
                         /\ ~(phase[u] >= 5)
    BY <1>2
  <1>5. Barriers
    BY <1>4 DEF Barriers
  <1>6. Cleared1 /\ Counted /\ Summed /\ Cursors /\ Ordered /\ Written
    BY <1>4, Zenon DEF Cleared1, Counted, Summed, Cursors, Ordered, Written
  <1>7. Unwritten
    BY DEF SortInit, Unwritten
  <1> QED BY <1>3, <1>5, <1>6, <1>7 DEF SInv

\* SInv is inductive; the kernels that come after the sort write nothing of it.
LEMMA SortInductive == SInv /\ [Next]_vars => SInv'
  <1> SUFFICES ASSUME SInv, [Next]_vars PROVE SInv'
    OBVIOUS
  <1>1. ASSUME SortNext PROVE SInv'
    <2>1. CASE Order
      BY <2>1, OrderKeeps
    <2>2. ASSUME NEW t \in Tids, Clear(t) PROVE SInv'
      BY <2>2, ClearKeeps
    <2>3. ASSUME NEW t \in Tids, Cross(t) PROVE SInv'
      BY <2>3, CrossKeeps
    <2>4. ASSUME NEW t \in Tids, Count(t) PROVE SInv'
      BY <2>4, CountKeeps
    <2>5. ASSUME NEW t \in Tids, Skip(t) PROVE SInv'
      BY <2>5, SkipKeeps
    <2>6. ASSUME NEW t \in Tids, Scatter(t) PROVE SInv'
      BY <2>6, ScatterKeeps
    <2> QED BY <1>1, <2>1, <2>2, <2>3, <2>4, <2>5, <2>6 DEF SortNext
  <1>2. SortNext \/ UNCHANGED sortVars
    BY DEF Next, Accumulate, SumSlices, ShuffleDown, StoreTotal, vars
  <1> QED BY <1>1, <1>2, StutterKeeps

\* In every reachable state.
LEMMA Invariance == Spec => []SInv
  BY InitSInv, SortInductive, PTL DEF Spec

\* The sort keeps to its types: past the clearing a counter counts no more digits than
\* there are, past the ordering so does a start, and what bufItems holds are digits
\* (k_phase_a_sort.comp).
THEOREM SortTypeCorrect == Spec => []SortTypeOK
  <1>1. SInv => SortTypeOK
    <2> SUFFICES ASSUME SInv PROVE SortTypeOK
      OBVIOUS
    <2> USE First
    <2>1. Types /\ Summed /\ Cursors
      BY DEF SInv
    <2>2. \A u \in Tids : phase[u] \in 0..7
      BY <2>1 DEF Types
    <2>3. ASSUME phase[0] >= 5
          PROVE  /\ \A k \in Buckets : count[k] \in 0..NumItems
                 /\ \A k \in 0..NumBuckets : starts[k] \in 0..NumItems
      BY <2>1, <2>3, Layout
    <2>4. ASSUME ~(phase[0] >= 5), ~\E u \in Tids : phase[u] = 0, NEW k \in Buckets
          PROVE  count[k] \in 0..NumItems
      <3>1. (\A u \in Tids : phase[u] >= 1) /\ phase[0] <= 4
        BY <2>2, <2>4
      <3>2. count[k] = Cardinality(DoneOf(k, 2))
        BY <3>1 DEF SInv, Counted
      <3>3. DoneOf(k, 2) \subseteq Pairs
        BY DEF DoneOf, Of
      <3>4. Cardinality(DoneOf(k, 2)) \in Nat /\ Cardinality(DoneOf(k, 2)) <= NumItems
        BY <3>3, SubsetFinite
      <3> QED BY <3>2, <3>4, PairsFinite
    <2>5. \A k \in Buckets : count[k] \in 0..NumItems \/ \E u \in Tids : phase[u] = 0
      BY <2>3, <2>4
    <2>6. \A k \in 0..NumBuckets : starts[k] \in 0..NumItems \/ phase[0] < 5
      BY <2>2, <2>3
    <2> QED BY <2>1, <2>5, <2>6 DEF SortTypeOK, Types
  <1> QED BY <1>1, Invariance, PTL

\* A slot below the last start is one of some bucket's.
LEMMA Locate ==
  ASSUME Types, Summed, Cursors, phase[0] >= 5, NEW s \in 0..(starts[NumBuckets] - 1)
  PROVE  \E k \in Buckets : s \in starts[k]..(starts[k + 1] - 1)
  <1>1. /\ \A k \in 0..NumBuckets : starts[k] \in 0..NumItems
        /\ starts[0] = 0
    BY Layout
  <1>2. NumBuckets \in Nat \ {0}
    BY BucketsFinite
  <1> DEFINE T == {k \in 0..NumBuckets : s < starts[k]}
  <1>3. NumBuckets \in T
    BY <1>1, <1>2
  <1>4. PICK m \in T : \A n \in T : m <= n
    <2>1. T \subseteq Nat /\ T # {}
      BY <1>3
    <2> HIDE DEF T
    <2> QED BY <2>1, Least
  <1>5. m \in 0..NumBuckets /\ m # 0
    BY <1>1
  <1>6. m - 1 \in Buckets /\ m - 1 \in 0..NumBuckets /\ (m - 1) + 1 = m /\ ~(m <= m - 1)
    BY <1>2, <1>5 DEF Buckets
  <1>7. ~(s < starts[m - 1])
    BY <1>4, <1>6
  <1>8. starts[m - 1] \in 0..NumItems /\ starts[m] \in 0..NumItems /\ s < starts[m] /\ s \in Nat
    BY <1>1, <1>2, <1>5, <1>6
  <1>9. s \in starts[m - 1]..(starts[m] - 1)
    BY <1>7, <1>8
  <1> QED BY <1>6, <1>9

\* Once the workgroup has ended, each slot below the last start was written by a single
\* invocation, with a digit found nowhere else, and the slots past it by none: for any
\* scalars, digits, workgroup and interleaving between the barriers
\* (k_phase_a_sort.comp).
THEOREM SlotsFilled == Spec => []SlotsFilledOnce
  <1>1. SInv => SlotsFilledOnce
    <2> SUFFICES ASSUME SInv, Sorted
                 PROVE  /\ \A s, r \in 0..(starts[NumBuckets] - 1) :
                             items[s] # NoItem /\ (items[s] = items[r] => s = r)
                        /\ \A s \in starts[NumBuckets]..(NumItems - 1) : items[s] = NoItem
      BY Zenon DEF SlotsFilledOnce
    <2>1. phase[0] >= 5 /\ \A u \in Tids : phase[u] > 6
      BY First DEF Sorted
    <2>2. Types /\ Summed /\ Cursors /\ Single /\ Passed /\ Rest
      BY <2>1 DEF SInv, Written
    <2>3. /\ \A k \in 0..NumBuckets : starts[k] \in 0..NumItems
          /\ \A k \in Buckets : /\ starts[k + 1] = starts[k] + Cardinality(Of(k))
                               /\ k \in 0..NumBuckets
      BY <2>1, <2>2, Layout
    <2>4. ASSUME NEW k \in Buckets PROVE count[k] = starts[k + 1]
      <3>1. count[k] = starts[k] + Cardinality(DoneOf(k, 6))
        BY <2>1, <2>2 DEF Cursors
      <3>2. DoneOf(k, 6) = Of(k)
        BY <2>1, DoneEverything
      <3> QED BY <2>3, <3>1, <3>2, Zenon
    <2>5. ASSUME NEW s \in 0..(starts[NumBuckets] - 1) PROVE s \in Slots /\ items[s] # NoItem
      <3>1. PICK k \in Buckets : s \in starts[k]..(starts[k + 1] - 1)
        BY <2>1, <2>2, Locate
      <3>2. items[s] # NoItem
        BY <2>2, <2>4, <3>1 DEF Passed
      <3>3. NumBuckets \in 0..NumBuckets /\ NumItems \in Nat
        BY BucketsFinite, PairsFinite
      <3>4. starts[NumBuckets] \in 0..NumItems
        BY <2>3, <3>3
      <3>5. s \in Slots
        BY <3>3, <3>4 DEF Slots
      <3> QED BY <3>2, <3>5
    <2>6. ASSUME NEW s \in 0..(starts[NumBuckets] - 1), NEW r \in 0..(starts[NumBuckets] - 1)
          PROVE  items[s] # NoItem /\ (items[s] = items[r] => s = r)
      <3>1. s \in Slots /\ r \in Slots /\ items[s] # NoItem
        BY <2>5
      <3> QED BY <2>2, <3>1, Zenon DEF Single
    <2>7. \A s \in starts[NumBuckets]..(NumItems - 1) : items[s] = NoItem
      BY <2>2, Zenon DEF Rest
    <2> QED BY <2>6, <2>7
  <1> QED BY <1>1, Invariance, PTL

\* Once the workgroup has ended, bufPerm names every bucket, and none comes after one of a
\* lower load class (k_phase_a_sort.comp's counting sort by invocation 0).
THEOREM LoadOrder == Spec => []OrderedByLoad
  <1>1. SInv => OrderedByLoad
    <2> SUFFICES ASSUME SInv, Sorted
                 PROVE  /\ {perm[i] : i \in Buckets} = Buckets
                        /\ \A i, j \in Buckets :
                             i < j => starts[perm[i] + 1] - starts[perm[i]]
                                        >= Min({starts[perm[j] + 1] - starts[perm[j]], LoadClasses - 1})
      BY Zenon DEF OrderedByLoad
    <2>1. phase[0] >= 5
      BY First DEF Sorted
    <2>2. Ordering
      BY <2>1 DEF SInv, Ordered
    <2> QED BY <2>2, Zenon DEF Ordering, Load
  <1> QED BY <1>1, Invariance, PTL

-----------------------------------------------------------------------------
(* Runs of integers *)

\* The sum of the n values of g from lo, and that of the same, each times its place.
Run(g, lo) == [i \in Nat |-> g[lo + i - 1]]
Weighed(g, lo) == [i \in Nat |-> i * g[lo + i - 1]]
Block(g, lo, n) == Sum(Run(g, lo), n)
Weighted(g, lo, n) == Sum(Weighed(g, lo), n)

IntsBelow(g, N) == \A i \in 0..(N - 1) : g[i] \in Int

\* Of a run there is, all terms are integers.
LEMMA RunInts ==
  ASSUME NEW N \in Nat, NEW g, IntsBelow(g, N), NEW lo \in Nat, NEW n \in Nat, lo + n <= N
  PROVE  /\ Ints(Run(g, lo), n) /\ Ints(Weighed(g, lo), n)
         /\ Block(g, lo, n) \in Int /\ Weighted(g, lo, n) \in Int
  <1>1. ASSUME NEW i \in 1..n PROVE Run(g, lo)[i] \in Int /\ Weighed(g, lo)[i] \in Int
    <2>1. lo + i - 1 \in 0..(N - 1) /\ i \in Nat
      OBVIOUS
    <2>2. g[lo + i - 1] \in Int
      BY <2>1 DEF IntsBelow
    <2>3. Run(g, lo)[i] = g[lo + i - 1] /\ Weighed(g, lo)[i] = i * g[lo + i - 1]
      BY <2>1 DEF Run, Weighed
    <2> QED BY <2>1, <2>2, <2>3
  <1>2. Ints(Run(g, lo), n) /\ Ints(Weighed(g, lo), n)
    BY <1>1 DEF Ints
  <1> QED BY <1>2, SumInt DEF Block, Weighted

\* One value more.
LEMMA RunNext ==
  ASSUME NEW N \in Nat, NEW g, IntsBelow(g, N), NEW lo \in Nat, NEW n \in Nat, lo + n < N
  PROVE  /\ g[lo + n] \in Int
         /\ Block(g, lo, n + 1) = Block(g, lo, n) + g[lo + n]
         /\ Weighted(g, lo, n + 1) = Weighted(g, lo, n) + (n + 1) * g[lo + n]
  <1>1. n + 1 \in Nat /\ lo + (n + 1) <= N /\ lo + n \in 0..(N - 1) /\ lo + (n + 1) - 1 = lo + n
    OBVIOUS
  <1>2. Ints(Run(g, lo), n + 1) /\ Ints(Weighed(g, lo), n + 1)
    BY <1>1, RunInts
  <1>3. Run(g, lo)[n + 1] = g[lo + n] /\ Weighed(g, lo)[n + 1] = (n + 1) * g[lo + n]
    BY <1>1 DEF Run, Weighed
  <1>4. Sum(Run(g, lo), n + 1) = Sum(Run(g, lo), n) + g[lo + n]
    BY <1>2, <1>3, SumNext
  <1>5. Sum(Weighed(g, lo), n + 1) = Sum(Weighed(g, lo), n) + (n + 1) * g[lo + n]
    BY <1>2, <1>3, SumNext
  <1>6. g[lo + n] \in Int
    BY <1>1 DEF IntsBelow
  <1> QED BY <1>4, <1>5, <1>6 DEF Block, Weighted

\* Of a run of none.
LEMMA RunNone == ASSUME NEW g, NEW lo PROVE Block(g, lo, 0) = 0 /\ Weighted(g, lo, 0) = 0
  BY SumNone DEF Block, Weighted

\* A run of a + b values is one of a and one of b, whose places are a further.
LEMMA RunSplits ==
  ASSUME NEW N \in Nat, NEW g, IntsBelow(g, N), NEW lo \in Nat, NEW a \in Nat, NEW b \in Nat,
         lo + a + b <= N
  PROVE  /\ Block(g, lo, a + b) = Block(g, lo, a) + Block(g, lo + a, b)
         /\ Weighted(g, lo, a + b)
              = Weighted(g, lo, a) + Weighted(g, lo + a, b) + a * Block(g, lo + a, b)
  <1> DEFINE Splits(c) == /\ Block(g, lo, a + c) = Block(g, lo, a) + Block(g, lo + a, c)
                          /\ Weighted(g, lo, a + c) = Weighted(g, lo, a) + Weighted(g, lo + a, c)
                                                      + a * Block(g, lo + a, c)
             T == {c \in Nat : c <= b => Splits(c)}
  <1>1. 0 \in T
    <2>1. a + 0 = a /\ lo + a <= N
      OBVIOUS
    <2>2. Block(g, lo, a) \in Int /\ Weighted(g, lo, a) \in Int
      BY <2>1, RunInts
    <2>3. Block(g, lo + a, 0) = 0 /\ Weighted(g, lo + a, 0) = 0
      BY RunNone
    <2> QED BY <2>1, <2>2, <2>3
  <1>2. ASSUME NEW c \in Nat, c \in T PROVE c + 1 \in T
    <2> SUFFICES ASSUME c + 1 <= b PROVE Splits(c + 1)
      OBVIOUS
    <2>1. Splits(c)
      BY <1>2
    <2>2. /\ lo + a \in Nat /\ a + c \in Nat /\ lo + (a + c) < N /\ (lo + a) + c < N
          /\ a + (c + 1) = (a + c) + 1 /\ lo + (a + c) = (lo + a) + c
          /\ lo + a <= N /\ (lo + a) + c <= N
      OBVIOUS
    <2> DEFINE x == g[(lo + a) + c]
               b1 == Block(g, lo, a)
               w1 == Weighted(g, lo, a)
               b2 == Block(g, lo + a, c)
               w2 == Weighted(g, lo + a, c)
    <2>3. b1 \in Int /\ w1 \in Int
      BY <2>2, RunInts
    <2>4. b2 \in Int /\ w2 \in Int
      BY <2>2, RunInts
    <2>5. /\ x \in Int
          /\ Block(g, lo + a, c + 1) = b2 + x
          /\ Weighted(g, lo + a, c + 1) = w2 + (c + 1) * x
      BY <2>2, RunNext
    <2>6. /\ Block(g, lo, (a + c) + 1) = Block(g, lo, a + c) + g[lo + (a + c)]
          /\ Weighted(g, lo, (a + c) + 1) = Weighted(g, lo, a + c) + ((a + c) + 1) * g[lo + (a + c)]
      BY <2>2, RunNext
    <2>7. g[lo + (a + c)] = x
      BY <2>2
    <2>8. Block(g, lo, a + (c + 1)) = (b1 + b2) + x
      BY <2>1, <2>2, <2>6, <2>7
    <2>9. Weighted(g, lo, a + (c + 1)) = (w1 + w2 + a * b2) + ((a + c) + 1) * x
      BY <2>1, <2>2, <2>6, <2>7
    <2> HIDE DEF x, b1, w1, b2, w2
    <2>10. (b1 + b2) + x = b1 + (b2 + x)
      BY <2>3, <2>4, <2>5
    <2>11. (w1 + w2 + a * b2) + ((a + c) + 1) * x = w1 + (w2 + (c + 1) * x) + a * (b2 + x)
      <3>1. ((a + c) + 1) * x = (c + 1) * x + a * x /\ a * (b2 + x) = a * b2 + a * x
        BY <2>4, <2>5
      <3>2. a * x \in Int /\ (c + 1) * x \in Int /\ a * b2 \in Int
        BY <2>4, <2>5
      <3> DEFINE ax == a * x
                 cx == (c + 1) * x
                 ab == a * b2
      <3>3. (w1 + w2 + ab) + (cx + ax) = w1 + (w2 + cx) + (ab + ax)
        <4>1. ax \in Int /\ cx \in Int /\ ab \in Int
          BY <3>2
        <4> HIDE DEF ax, cx, ab
        <4> QED BY <2>3, <2>4, <4>1
      <3> QED BY <3>1, <3>3
    <2> QED BY <2>5, <2>8, <2>9, <2>10, <2>11 DEF b1, w1
  <1>3. Nat \subseteq T
    <2> HIDE DEF T
    <2> QED BY <1>1, <1>2, Induction
  <1> QED BY <1>3

\* A run with a value more at its lower end: every place is one further.
LEMMA RunDown ==
  ASSUME NEW N \in Nat, NEW g, IntsBelow(g, N), NEW lo \in Nat, NEW n \in Nat, lo + 1 + n <= N
  PROVE  /\ Block(g, lo, n + 1) = Block(g, lo + 1, n) + g[lo]
         /\ Weighted(g, lo, n + 1) = Weighted(g, lo + 1, n) + Block(g, lo, n + 1)
  <1> DEFINE one == 1
             none == 0
  <1>1. one \in Nat /\ none \in Nat /\ lo + one + n <= N /\ lo + 0 < N /\ lo + 1 \in Nat
        /\ lo + 1 <= N /\ one + n = n + 1 /\ none + 1 = one /\ lo + none = lo /\ lo + none < N
    OBVIOUS
  <1>2. /\ Block(g, lo, one + n) = Block(g, lo, one) + Block(g, lo + one, n)
        /\ Weighted(g, lo, one + n)
             = Weighted(g, lo, one) + Weighted(g, lo + one, n) + one * Block(g, lo + one, n)
    <2> HIDE DEF one
    <2> QED BY <1>1, RunSplits
  <1>3. /\ g[lo] \in Int
        /\ Block(g, lo, one) = Block(g, lo, none) + g[lo]
        /\ Weighted(g, lo, one) = Weighted(g, lo, none) + (none + 1) * g[lo]
    <2> HIDE DEF one, none
    <2> QED BY <1>1, RunNext
  <1>4. Block(g, lo, none) = 0 /\ Weighted(g, lo, none) = 0
    BY RunNone
  <1>5. Block(g, lo + 1, n) \in Int /\ Weighted(g, lo + 1, n) \in Int
    BY <1>1, RunInts
  <1> DEFINE x == g[lo]
             b == Block(g, lo + 1, n)
             w == Weighted(g, lo + 1, n)
  <1>6. Block(g, lo, n + 1) = (0 + x) + b /\ Weighted(g, lo, n + 1) = (0 + 1 * x) + w + 1 * b
    BY <1>1, <1>2, <1>3, <1>4
  <1>7. x \in Int /\ b \in Int /\ w \in Int
    BY <1>3, <1>5
  <1> HIDE DEF x, b, w
  <1>8. Block(g, lo, n + 1) = b + x /\ Weighted(g, lo, n + 1) = w + (b + x)
    BY <1>6, <1>7
  <1> QED BY <1>8 DEF x, b, w

-----------------------------------------------------------------------------
(* Points *)

\* What the operations on points do to a component.
LEMMA PointSums ==
  ASSUME NEW p \in Point, NEW q \in Point
  PROVE  /\ Zero \in Point /\ \A u \in Tids : Zero[u] = 0
         /\ Add(p, q) \in Point /\ \A u \in Tids : Add(p, q)[u] = p[u] + q[u]
         /\ Neg(p) \in Point /\ \A u \in Tids : Neg(p)[u] = -p[u]
         /\ Dbl(p) \in Point /\ \A u \in Tids : Dbl(p)[u] = 2 * p[u]
  BY DEF Point, Zero, Add, Neg, Dbl

\* n doublings.
LEMMA DoubledIs ==
  ASSUME NEW p \in Point, NEW n \in Nat
  PROVE  Team!Doubled(p, n) \in Point /\ \A u \in Tids : Team!Doubled(p, n)[u] = 2 ^ n * p[u]
  <1> DEFINE G == [x \in (1..n) \X Point |-> Dbl(x[2])]
             Step(h) == [t \in 0..n |-> IF t = 0 THEN p ELSE Dbl(h[t - 1])]
             r == CHOOSE h : h = Step(h)
  <1>1. G \in [(1..n) \X Point -> Point]
    BY PointSums
  <1>2. PICK f \in [0..n -> Point] : Follows(f, n, p, G)
    <2> HIDE DEF G
    <2> QED BY <1>1, Recursion, Zenon
  <1>3. f[0] = p /\ \A t \in 1..n : f[t] = Dbl(f[t - 1])
    <2>1. ASSUME NEW t \in 1..n PROVE f[t] = Dbl(f[t - 1])
      <3>1. f[t - 1] \in Point
        OBVIOUS
      <3>2. <<t, f[t - 1]>> \in (1..n) \X Point
        BY <3>1
      <3>3. G[<<t, f[t - 1]>>] = Dbl(f[t - 1])
        BY <3>2
      <3> QED BY <1>2, <3>3 DEF Follows
    <2> QED BY <1>2, <2>1 DEF Follows
  <1>4. f = Step(f)
    <2>1. ASSUME NEW t \in 0..n PROVE f[t] = IF t = 0 THEN p ELSE Dbl(f[t - 1])
      <3>1. t # 0 => t \in 1..n
        OBVIOUS
      <3> QED BY <1>3, <3>1
    <2> QED BY <2>1
  <1>5. r = Step(r)
    <2> HIDE DEF Step
    <2> QED BY <1>4
  <1>6. Team!Doubled(p, n) = r[n]
    BY DEF Team!Doubled
  <1> HIDE DEF r
  <1>7. \A t \in 0..n : r[t] = IF t = 0 THEN p ELSE Dbl(r[t - 1])
    BY <1>5
  <1> HIDE DEF Step
  <1>8. GoesOnAs(r, f, n)
    <2>1. r[0] = f[0]
      BY <1>3, <1>7
    <2>2. ASSUME NEW t \in 1..n, r[t - 1] = f[t - 1] PROVE r[t] = f[t]
      <3>1. r[t] = Dbl(r[t - 1])
        BY <1>7
      <3> QED BY <1>3, <2>2, <3>1
    <2> QED BY <2>1, <2>2 DEF GoesOnAs
  <1>9. \A t \in 0..n : r[t] = f[t]
    BY <1>8, Agree, Zenon
  <1> DEFINE T == {t \in Nat : t <= n => \A u \in Tids : f[t][u] = 2 ^ t * p[u]}
  <1>10. 0 \in T
    <2>1. \A u \in Tids : p[u] \in Int
      BY DEF Point
    <2>2. \A u \in Tids : f[0][u] = 1 * p[u]
      BY <1>3, <2>1
    <2> QED BY <2>2, PowersOfTwo
  <1>11. ASSUME NEW t \in Nat, t \in T PROVE t + 1 \in T
    <2> SUFFICES ASSUME t + 1 <= n, NEW u \in Tids PROVE f[t + 1][u] = 2 ^ (t + 1) * p[u]
      OBVIOUS
    <2>1. t + 1 \in 1..n /\ (t + 1) - 1 = t /\ t \in 0..n
      OBVIOUS
    <2>2. f[t + 1] = Dbl(f[t]) /\ f[t] \in Point
      BY <1>3, <2>1
    <2>3. f[t + 1][u] = 2 * f[t][u]
      BY <2>2, PointSums
    <2>4. f[t][u] = 2 ^ t * p[u]
      BY <1>11, <2>1
    <2>5. 2 ^ (t + 1) = 2 * 2 ^ t /\ 2 ^ t \in Nat /\ p[u] \in Int
      BY PowersOfTwo DEF Point
    <2> DEFINE a == 2 ^ t
               b == p[u]
               c == 2 ^ (t + 1)
    <2>6. f[t + 1][u] = 2 * (a * b) /\ a \in Int /\ b \in Int /\ c = 2 * a
      BY <2>3, <2>4, <2>5
    <2> HIDE DEF a, b, c
    <2>7. f[t + 1][u] = c * b
      BY <2>6
    <2> QED BY <2>7 DEF b, c
  <1>12. Nat \subseteq T
    <2> HIDE DEF T
    <2> QED BY <1>10, <1>11, Induction
  <1>13. n \in 0..n /\ \A u \in Tids : f[n][u] = 2 ^ n * p[u]
    BY <1>12
  <1>14. Team!Doubled(p, n) = f[n] /\ f[n] \in Point
    BY <1>6, <1>9, <1>13
  <1> QED BY <1>13, <1>14

-----------------------------------------------------------------------------
(* The lanes *)

LaneState == [s : Point, rs : Point, w : Point]

\* A component of the buckets' points.
Column(b, u) == [k \in Buckets |-> b[k][u]]

\* A component is an integer, and that of the bucket.
LEMMA ColumnInts ==
  ASSUME NEW b \in [Buckets -> Point], NEW u \in Tids
  PROVE  IntsBelow(Column(b, u), NumBuckets) /\ \A k \in Buckets : Column(b, u)[k] = b[k][u]
  BY DEF IntsBelow, Column, Point, Buckets

\* The lane counts there are: powers of two that divide the buckets evenly.
LEMMA LaneCountIs ==
  ASSUME NEW n \in LaneCounts
  PROVE  /\ n \in Nat \ {0} /\ Team!PerLane(n) \in Nat \ {0}
         /\ n * Team!PerLane(n) = NumBuckets
         /\ \E K \in 0..n : n = 2 ^ K
         /\ Team!Log2(Team!PerLane(n)) \in Nat
         /\ 2 ^ Team!Log2(Team!PerLane(n)) = Team!PerLane(n)
  <1> DEFINE m == NumBuckets \div n
  <1>1. n \in Nat /\ n <= NumBuckets /\ NumBuckets % n = 0 /\ NumBuckets \in Nat \ {0}
    BY MsmAssumption, DigitsAssumption
  <1>2. \A j \in {n, m} : \E k \in 0..j : 2 ^ k = j
    BY MsmAssumption
  <1>3. Team!PerLane(n) = m
    BY DEF Team!PerLane
  <1>4. PICK K \in 0..n : 2 ^ K = n
    BY <1>2
  <1>5. n # 0
    <2>1. K \in Nat
      BY <1>1
    <2>2. 2 ^ K \in Nat \ {0}
      BY <2>1, PowersOfTwo
    <2> QED BY <1>4, <2>2
  <1>6. n * m = NumBuckets /\ m \in Nat /\ m # 0
    <2> DEFINE r == NumBuckets % n
               N == NumBuckets
    <2>1. n \in Nat \ {0} /\ N \in Nat /\ N # 0 /\ r = 0
      BY <1>1, <1>5
    <2>2. m \in Nat /\ N = r + n * m
      BY <1>1, <2>1, Division, Zenon
    <2> HIDE DEF m, r, N
    <2>3. N = n * m /\ m # 0
      BY <2>1, <2>2
    <2> QED BY <2>2, <2>3 DEF N
  <1>7. \E k \in 0..m : 2 ^ k = m
    BY <1>2, Zenon
  <1>8. Team!Log2(m) = CHOOSE k \in 0..m : 2 ^ k = m
    BY DEF Team!Log2
  <1> HIDE DEF m
  <1>9. Team!Log2(m) \in 0..m /\ 2 ^ Team!Log2(m) = m
    BY <1>7, <1>8
  <1> QED BY <1>1, <1>3, <1>4, <1>5, <1>6, <1>9

-----------------------------------------------------------------------------
(* What the digits weigh *)

\* What a unit of each digit weighs.
LEMMA WeightSteps ==
  /\ Weight \in [0..NumDigits -> Nat \ {0}]
  /\ Weight[0] = 1
  /\ \A d \in 1..NumDigits : Weight[d] = Base * Weight[d - 1]
  <1> DEFINE one == 1
             W == Nat \ {0}
             G == [x \in (1..NumDigits) \X W |-> Base * x[2]]
             Step(h) == [d \in 0..NumDigits |-> IF d = 0 THEN 1 ELSE Base * h[d - 1]]
  <1>1. NumDigits \in Nat /\ Base \in Nat \ {0}
    BY DigitsAssumption DEF Base
  <1>2. one \in W /\ G \in [(1..NumDigits) \X W -> W]
    <2>1. ASSUME NEW x \in W PROVE Base * x \in W
      BY <1>1
    <2> QED BY <2>1
  <1>3. PICK f \in [0..NumDigits -> W] : Follows(f, NumDigits, one, G)
    <2> HIDE DEF one, G, W
    <2> QED BY <1>1, <1>2, Recursion, Zenon
  <1>4. f[0] = 1 /\ \A d \in 1..NumDigits : f[d] = Base * f[d - 1]
    <2>1. ASSUME NEW d \in 1..NumDigits PROVE f[d] = Base * f[d - 1]
      <3>1. f[d - 1] \in W
        <4>1. d - 1 \in 0..NumDigits
          BY <1>1
        <4> HIDE DEF W
        <4> QED BY <4>1
      <3>2. <<d, f[d - 1]>> \in (1..NumDigits) \X W
        BY <3>1
      <3>3. G[<<d, f[d - 1]>>] = Base * f[d - 1]
        BY <3>2
      <3> QED BY <1>3, <3>3 DEF Follows
    <2> QED BY <1>3, <2>1 DEF Follows
  <1>5. f = Step(f)
    <2>1. ASSUME NEW d \in 0..NumDigits PROVE f[d] = IF d = 0 THEN 1 ELSE Base * f[d - 1]
      <3>1. d # 0 => d \in 1..NumDigits
        BY <1>1
      <3> QED BY <1>4, <3>1, Zenon
    <2> QED BY <2>1
  <1>6. Weight = CHOOSE h : h = Step(h)
    BY DEF Weight
  <1>7. Weight = Step(Weight)
    <2> HIDE DEF Step
    <2> QED BY <1>5, <1>6
  <1> DEFINE r == Weight
  <1> HIDE DEF r
  <1>8. r = Step(r)
    BY <1>7 DEF r
  <1>9. /\ r = [d \in 0..NumDigits |-> r[d]]
        /\ \A d \in 0..NumDigits : r[d] = IF d = 0 THEN 1 ELSE Base * r[d - 1]
    BY <1>8
  <1> HIDE DEF Step
  <1>10. GoesOnAs(r, f, NumDigits)
    <2>1. r[0] = f[0]
      <3>1. 0 \in 0..NumDigits
        BY <1>1
      <3> QED BY <1>4, <1>9, <3>1
    <2>2. ASSUME NEW d \in 1..NumDigits, r[d - 1] = f[d - 1] PROVE r[d] = f[d]
      <3>1. d \in 0..NumDigits /\ d # 0
        BY <1>1
      <3>2. r[d] = Base * r[d - 1]
        BY <1>9, <3>1, Zenon
      <3> QED BY <1>4, <2>2, <3>2
    <2> QED BY <2>1, <2>2 DEF GoesOnAs
  <1>11. \A d \in 0..NumDigits : r[d] = f[d]
    BY <1>1, <1>10, Agree, Zenon
  <1>12. r = f
    BY <1>9, <1>11
  <1> QED BY <1>4, <1>12 DEF r

\* What the digits of s weigh, what each adds to bucket k, and each's part of s.
Part(s, k) == [d \in Nat |->
  IF Recoded(s)[d] # 0 /\ Abs(Recoded(s)[d]) - 1 = k
  THEN IF Recoded(s)[d] < 0 THEN -Weight[d - 1] ELSE Weight[d - 1]
  ELSE 0]
Value(s) == [d \in Nat |-> Recoded(s)[d] * Weight[d - 1]]

\* All of it is integers.
LEMMA ValueInts ==
  ASSUME NEW s \in Nat, NEW d \in 1..NumDigits
  PROVE  /\ Recoded(s)[d] \in (1 - NumBuckets)..NumBuckets /\ Weight[d - 1] \in Nat \ {0}
         /\ Value(s)[d] = Recoded(s)[d] * Weight[d - 1] /\ Value(s)[d] \in Int
         /\ \A k : /\ Part(s, k)[d] \in Int
                   /\ Part(s, k)[d] = IF Recoded(s)[d] # 0 /\ Abs(Recoded(s)[d]) - 1 = k
                                      THEN IF Recoded(s)[d] < 0 THEN -Weight[d - 1]
                                           ELSE Weight[d - 1]
                                      ELSE 0
  <1>1. NumBuckets \in Nat \ {0} /\ d \in Nat /\ d - 1 \in 0..NumDigits
    BY DigitsAssumption
  <1>2. Recoded(s)[d] \in (1 - NumBuckets)..NumBuckets
    BY DigitRange
  <1>3. Weight[d - 1] \in Nat \ {0}
    BY <1>1, WeightSteps
  <1> DEFINE v == Recoded(s)[d]
             w == Weight[d - 1]
  <1>4. Value(s)[d] = v * w
    BY <1>1 DEF Value
  <1>5. v \in Int /\ w \in Nat
    BY <1>1, <1>2, <1>3
  <1>6. ASSUME NEW k
        PROVE  Part(s, k)[d] = IF v # 0 /\ Abs(v) - 1 = k THEN (IF v < 0 THEN -w ELSE w) ELSE 0
    BY <1>1 DEF Part
  <1>7. ASSUME NEW k PROVE Part(s, k)[d] \in Int
    <2> HIDE DEF v, w
    <2> QED BY <1>5, <1>6
  <1>8. v * w \in Int
    <2> HIDE DEF v, w
    <2> QED BY <1>5
  <1> QED BY <1>2, <1>3, <1>4, <1>6, <1>7, <1>8

\* A digit's parts of the buckets, each times the bucket's factor, are its part of s.
LEMMA OnePart ==
  ASSUME NEW s \in Nat, NEW d \in 1..NumDigits, NEW g,
         \A i \in 1..NumBuckets : g[i] = i * Part(s, i - 1)[d]
  PROVE  Ints(g, NumBuckets) /\ Sum(g, NumBuckets) = Value(s)[d]
  <1> DEFINE v == Recoded(s)[d]
             w == Weight[d - 1]
             N == NumBuckets
  <1>1. N \in Nat \ {0} /\ v \in (1 - N)..N /\ w \in Nat /\ Value(s)[d] = v * w
    BY DigitsAssumption, ValueInts
  <1>2. ASSUME NEW i \in 1..N
        PROVE  g[i] = i * (IF v # 0 /\ Abs(v) - 1 = i - 1 THEN IF v < 0 THEN -w ELSE w ELSE 0)
    BY ValueInts
  <1> HIDE DEF v, w, N
  <1>3. Ints(g, N)
    <2>1. ASSUME NEW i \in 1..N PROVE g[i] \in Int
      BY <1>1, <1>2
    <2> QED BY <2>1 DEF Ints
  <1>4. CASE v = 0
    <2>1. \A i \in 1..N : g[i] = 0
      BY <1>1, <1>2, <1>4
    <2>2. Sum(g, N) = 0 /\ v * w = 0
      BY <1>1, <1>4, <2>1, SumZeros
    <2> QED BY <1>1, <1>3, <2>2 DEF N
  <1>5. CASE v # 0
    <2> DEFINE j == Abs(v)
    <2>1. j \in 1..N /\ (j = v \/ j = -v) /\ (v < 0 <=> j = -v)
      BY <1>1, <1>5 DEF Abs
    <2>2. g[j] = j * (IF v < 0 THEN -w ELSE w)
      <3>1. Abs(v) - 1 = j - 1
        OBVIOUS
      <3> HIDE DEF j
      <3> QED BY <1>2, <1>5, <2>1, <3>1
    <2>3. \A i \in 1..N : i # j => g[i] = 0
      <3> SUFFICES ASSUME NEW i \in 1..N, i # j PROVE g[i] = 0
        OBVIOUS
      <3>1. Abs(v) - 1 # i - 1
        BY <1>1, <2>1
      <3>2. g[i] = i * 0
        BY <1>2, <3>1
      <3> QED BY <3>2
    <2> HIDE DEF j
    <2>4. g[j] = v * w
      BY <1>1, <2>1, <2>2
    <2>5. Sum(g, N) = g[j]
      BY <1>1, <1>3, <2>1, <2>3, SumSingle
    <2> QED BY <1>1, <1>3, <2>4, <2>5 DEF N
  <1> QED BY <1>4, <1>5

\* All of the parts are.
LEMMA AllParts ==
  ASSUME NEW s \in Nat, NEW m \in 0..NumDigits
  PROVE  Ints(Value(s), m) /\ \A k : Ints(Part(s, k), m)
  <1>1. \A d \in 1..m : d \in 1..NumDigits
    BY DigitsAssumption
  <1> QED BY <1>1, ValueInts DEF Ints

\* What the buckets hold of s after m of its digits.
Share(s, m) == [k \in Buckets |-> Sum(Part(s, k), m)]

\* A share is an integer.
LEMMA ShareInts ==
  ASSUME NEW s \in Nat, NEW m \in 0..NumDigits
  PROVE  IntsBelow(Share(s, m), NumBuckets)
  <1>1. m \in Nat
    BY DigitsAssumption
  <1>2. \A k : Sum(Part(s, k), m) \in Int
    BY <1>1, AllParts, SumInt
  <1> QED BY <1>2 DEF IntsBelow, Share, Buckets

\* The buckets, each times its factor, hold all the parts of s.
LEMMA Shares ==
  ASSUME NEW s \in Nat
  PROVE  Weighted(Share(s, NumDigits), 0, NumBuckets) = Sum(Value(s), NumDigits)
  <1> DEFINE N == NumBuckets
             none == 0
             W(m) == Weighted(Share(s, m), none, N)
             T == {m \in Nat : m <= NumDigits => W(m) = Sum(Value(s), m)}
  <1>1. N \in Nat \ {0} /\ NumDigits \in Nat \ {0} /\ Buckets = 0..(N - 1) /\ none \in Nat
        /\ none + N <= N
    BY DigitsAssumption DEF Buckets
  <1>2. ASSUME NEW m \in 0..NumDigits, NEW i \in 1..N
        PROVE  Weighed(Share(s, m), none)[i] = i * Sum(Part(s, i - 1), m)
    <2>1. i - 1 \in Buckets /\ none + i - 1 = i - 1 /\ i \in Nat
      BY <1>1
    <2>2. Weighed(Share(s, m), none)[i] = i * Share(s, m)[none + i - 1]
      BY <2>1 DEF Weighed
    <2>3. Share(s, m)[i - 1] = Sum(Part(s, i - 1), m)
      BY <2>1 DEF Share
    <2> QED BY <2>1, <2>2, <2>3
  <1>3. ASSUME NEW m \in 0..NumDigits PROVE Ints(Weighed(Share(s, m), none), N)
    <2> HIDE DEF none
    <2>1. N \in Nat /\ none \in Nat /\ none + N <= N
      BY <1>1
    <2>2. IntsBelow(Share(s, m), N)
      BY ShareInts
    <2> HIDE DEF N
    <2> QED BY <2>1, <2>2, RunInts
  <1>4. 0 \in T
    <2>1. 0 \in 0..NumDigits
      BY <1>1
    <2>2. \A i \in 1..N : Weighed(Share(s, 0), none)[i] = 0
      <3> SUFFICES ASSUME NEW i \in 1..N PROVE Weighed(Share(s, 0), none)[i] = 0
        OBVIOUS
      <3>1. Weighed(Share(s, 0), none)[i] = i * Sum(Part(s, i - 1), 0)
        BY <1>2, <2>1
      <3>2. Sum(Part(s, i - 1), 0) = 0
        BY SumNone
      <3> QED BY <3>1, <3>2
    <2>3. W(0) = 0
      BY <1>1, <2>2, SumZeros DEF Weighted
    <2>4. Sum(Value(s), 0) = 0
      BY SumNone
    <2> QED BY <2>3, <2>4
  <1>5. ASSUME NEW m \in Nat, m \in T PROVE m + 1 \in T
    <2> SUFFICES ASSUME m + 1 <= NumDigits PROVE W(m + 1) = Sum(Value(s), m + 1)
      OBVIOUS
    <2> DEFINE f == Weighed(Share(s, m), none)
               h == Weighed(Share(s, m + 1), none)
               g == [i \in 1..N |-> i * Part(s, i - 1)[m + 1]]
    <2>1. m \in 0..NumDigits /\ m + 1 \in 0..NumDigits /\ m + 1 \in 1..NumDigits
      BY <1>1
    <2>2. W(m) = Sum(Value(s), m)
      BY <1>1, <1>5, <2>1
    <2>3. Ints(f, N)
      BY <1>3, <2>1
    <2>4. Ints(g, N) /\ Sum(g, N) = Value(s)[m + 1]
      <3>1. \A i \in 1..N : g[i] = i * Part(s, i - 1)[m + 1]
        OBVIOUS
      <3> DEFINE d == m + 1
      <3>2. d \in 1..NumDigits /\ \A i \in 1..N : g[i] = i * Part(s, i - 1)[d]
        BY <2>1, <3>1
      <3> HIDE DEF g, d
      <3>3. Ints(g, N) /\ Sum(g, N) = Value(s)[d]
        BY <3>2, OnePart, Zenon
      <3> QED BY <3>3 DEF d
    <2>5. ASSUME NEW i \in 1..N PROVE h[i] = f[i] + g[i]
      <3> DEFINE a == Sum(Part(s, i - 1), m)
                 b == Part(s, i - 1)[m + 1]
      <3>1. f[i] = i * a /\ g[i] = i * b
        BY <1>2, <2>1
      <3>2. h[i] = i * Sum(Part(s, i - 1), m + 1)
        BY <1>2, <2>1
      <3>3. Ints(Part(s, i - 1), m + 1)
        BY <2>1, AllParts
      <3>4. a \in Int /\ Sum(Part(s, i - 1), m + 1) = a + b
        BY <3>3, SumNext
      <3>5. b \in Int
        BY <2>1, ValueInts
      <3> HIDE DEF a, b, f, g, h
      <3>6. h[i] = i * (a + b)
        BY <3>2, <3>4
      <3> QED BY <1>1, <3>1, <3>4, <3>5, <3>6
    <2>6. Sum(h, N) = Sum(f, N) + Sum(g, N)
      <3> HIDE DEF f, g, h
      <3>1. \A i \in 1..N : h[i] = f[i] + g[i]
        BY <2>5
      <3>2. N \in Nat
        BY <1>1
      <3> HIDE DEF N
      <3> QED BY <2>3, <2>4, <3>1, <3>2, SumAdds, Zenon
    <2>7. W(m) = Sum(f, N) /\ W(m + 1) = Sum(h, N)
      BY DEF Weighted
    <2>8. Ints(Value(s), m + 1)
      BY <2>1, AllParts
    <2>9. Sum(Value(s), m + 1) = Sum(Value(s), m) + Value(s)[m + 1]
      BY <2>8, SumNext
    <2> HIDE DEF f, g, h, W
    <2> QED BY <2>2, <2>4, <2>6, <2>7, <2>9
  <1>6. Nat \subseteq T
    <2> HIDE DEF T
    <2> QED BY <1>4, <1>5, Induction
  <1>7. W(NumDigits) = Sum(Value(s), NumDigits)
    BY <1>1, <1>6
  <1> QED BY <1>7

\* After m calls the digits so far and what is left make up s, and what is left is
\* no more than s holds.
LEMMA RecodingAddsUp ==
  ASSUME NEW s \in Nat, NEW m \in 0..NumDigits
  PROVE  LET st == Recoding(s)[m] IN
         /\ Sum(Value(s), m) + Weight[m] * (st.rest + st.carry) = s
         /\ Weight[m] * st.rest <= s
  <1> DEFINE R(n) == Recoding(s)[n].rest
             C(n) == Recoding(s)[n].carry
             Makes(n) == /\ Sum(Value(s), n) + Weight[n] * (R(n) + C(n)) = s
                         /\ Weight[n] * R(n) <= s
             T == {n \in Nat : n <= NumDigits => Makes(n)}
  <1>1. NumDigits \in Nat \ {0} /\ Base \in Nat \ {0}
    BY DigitsAssumption DEF Base
  <1>2. ASSUME NEW n \in 0..NumDigits
        PROVE  R(n) \in Nat /\ C(n) \in {0, 1} /\ Weight[n] \in Nat \ {0}
    <2>1. Recoding(s)[n] \in DigitState
      BY RecodingSteps
    <2> QED BY <2>1, WeightSteps DEF DigitState
  <1>3. 0 \in T
    <2>1. R(0) = s /\ C(0) = 0
      <3>1. Recoding(s)[0] = [digit |-> 0, carry |-> 0, rest |-> s]
        BY RecodingSteps
      <3> QED BY <3>1
    <2>2. Weight[0] = 1
      BY WeightSteps
    <2>3. Sum(Value(s), 0) = 0
      BY SumNone
    <2> HIDE DEF R, C
    <2>4. Makes(0)
      BY <2>1, <2>2, <2>3
    <2> QED BY <2>4
  <1>4. ASSUME NEW n \in Nat, n \in T PROVE n + 1 \in T
    <2> SUFFICES ASSUME n + 1 <= NumDigits PROVE Makes(n + 1)
      OBVIOUS
    <2> DEFINE w == Weight[n]
               x == Weight[n + 1]
               v == Recoded(s)[n + 1]
               r == R(n)
               c == C(n)
               q == R(n + 1)
               e == C(n + 1)
               a == Sum(Value(s), n)
               b == Sum(Value(s), n + 1)
    <2>1. n \in 0..NumDigits /\ n + 1 \in 0..NumDigits /\ n + 1 \in 1..NumDigits /\ (n + 1) - 1 = n
      BY <1>1
    <2>2. a + w * (r + c) = s /\ w * r <= s
      BY <1>4, <2>1
    <2>3. r \in Nat /\ c \in {0, 1} /\ w \in Nat \ {0}
      BY <1>2, <2>1
    <2>4. q \in Nat /\ e \in {0, 1} /\ x \in Nat \ {0}
      BY <1>2, <2>1
    <2>5. x = Base * w
      BY <2>1, WeightSteps
    <2>6. r + c = v + Base * (q + e)
      BY <2>1, RecodingExact
    <2>7. q = r \div Base
      <3>1. Recoding(s)[n + 1] = RecodeDigit(Recoding(s)[n])
        <4>1. \A j \in 1..NumDigits : Recoding(s)[j] = RecodeDigit(Recoding(s)[j - 1])
          BY RecodingSteps
        <4>2. Recoding(s)[n + 1] = RecodeDigit(Recoding(s)[(n + 1) - 1])
          BY <2>1, <4>1, Zenon
        <4> QED BY <2>1, <4>2
      <3>2. RecodeDigit(Recoding(s)[n]).rest = Recoding(s)[n].rest \div Base
        BY DEF RecodeDigit
      <3> QED BY <3>1, <3>2
    <2>8. b = a + v * w /\ a \in Int
      <3>1. Ints(Value(s), n + 1)
        BY <2>1, AllParts
      <3>2. b = a + Value(s)[n + 1] /\ a \in Int
        BY <3>1, SumNext
      <3>3. Value(s)[n + 1] = Recoded(s)[n + 1] * Weight[(n + 1) - 1]
        BY <2>1, ValueInts
      <3>4. Value(s)[n + 1] = v * w
        BY <2>1, <3>3
      <3> QED BY <3>2, <3>4
    <2>9. v \in Int
      <3>1. v \in (1 - NumBuckets)..NumBuckets /\ NumBuckets \in Nat
        BY <2>1, ValueInts, DigitsAssumption
      <3> QED BY <3>1
    <2> HIDE DEF w, x, v, r, c, q, e, a, b
    <2>10. b + x * (q + e) = s
      <3> DEFINE B == Base * (q + e)
                 y == q + e
      <3>1. y \in Int /\ B \in Int /\ w \in Int
        BY <1>1, <2>3, <2>4
      <3>2. x * y = w * B
        <4>1. Base \in Int /\ B = Base * y
          BY <1>1
        <4> HIDE DEF B, y
        <4> QED BY <2>5, <3>1, <4>1
      <3> HIDE DEF B
      <3>3. w * (v + B) = v * w + w * B
        BY <2>9, <3>1
      <3>4. a + w * (v + B) = s
        BY <2>2, <2>6 DEF B
      <3> DEFINE vw == v * w
                 wB == w * B
                 xy == x * y
      <3>5. vw \in Int /\ wB \in Int
        BY <2>9, <3>1
      <3>6. a + (vw + wB) = s /\ xy = wB /\ b = a + vw
        BY <2>8, <3>2, <3>3, <3>4
      <3> HIDE DEF vw, wB, xy
      <3>7. b + xy = s
        BY <2>8, <3>5, <3>6
      <3> QED BY <3>7 DEF xy
    <2>11. x * q <= s
      <3>1. r % Base \in 0..(Base - 1) /\ r = (r % Base) + Base * q
        BY <1>1, <2>3, <2>7, Division
      <3> DEFINE l == r % Base
                 Bq == Base * q
      <3>2. l \in Nat /\ r = l + Bq /\ Bq \in Nat
        BY <1>1, <2>4, <3>1
      <3>3. x * q = w * Bq
        BY <1>1, <2>3, <2>4, <2>5
      <3> HIDE DEF l, Bq
      <3>4. w * r = w * l + w * Bq /\ w * l \in Nat /\ w * Bq \in Nat
        BY <2>3, <3>2
      <3> DEFINE wl == w * l
                 wb == w * Bq
                 wr == w * r
                 xq == x * q
      <3>5. wr = wl + wb /\ wl \in Nat /\ wb \in Nat /\ xq = wb /\ wr <= s
        BY <2>2, <3>3, <3>4
      <3> HIDE DEF wl, wb, wr, xq
      <3>6. xq <= s
        BY <3>5
      <3> QED BY <3>6 DEF xq
    <2> QED BY <2>10, <2>11 DEF x, q, e, b
  <1>5. Nat \subseteq T
    <2> HIDE DEF T
    <2> QED BY <1>3, <1>4, Induction
  <1>6. Makes(m)
    BY <1>1, <1>5
  <1> QED BY <1>6

\* Nothing is left of a scalar below the modulus: the last digit carries nothing, and
\* the digits are all of it.
LEMMA ScalarIsDigits ==
  ASSUME NEW s \in 0..(Modulus - 1)
  PROVE  Sum(Value(s), NumDigits) = s
  <1> DEFINE n == NumDigits - 1
             r == Recoding(s)[n].rest
             c == Recoding(s)[n].carry
             w == Weight[n]
             N == NumBuckets
             M == Modulus
  <1>1. /\ n \in 0..NumDigits /\ NumDigits \in 0..NumDigits /\ NumDigits \in 1..NumDigits
        /\ N \in Nat \ {0} /\ Base = 2 * N
    BY DigitsAssumption DEF Base
  <1>2. s \in Nat /\ s < M /\ M \in Nat /\ M <= N * w
    BY SortAssumption
  <1>3. r \in Nat /\ c \in {0, 1} /\ w \in Nat \ {0}
    <2>1. Recoding(s)[n] \in DigitState
      <3>1. Recoding(s) \in [0..NumDigits -> DigitState]
        BY <1>2, RecodingSteps
      <3> QED BY <1>1, <3>1
    <2> QED BY <1>1, <2>1, WeightSteps DEF DigitState
  <1>4. w * r <= s
    BY <1>1, <1>2, RecodingAddsUp
  <1>5. Recoding(s)[NumDigits] = RecodeDigit(Recoding(s)[n])
    <2>1. \A j \in 1..NumDigits : Recoding(s)[j] = RecodeDigit(Recoding(s)[j - 1])
      BY <1>2, RecodingSteps
    <2> QED BY <1>1, <2>1, Zenon
  <1>6. /\ Sum(Value(s), NumDigits)
             + Weight[NumDigits] * (Recoding(s)[NumDigits].rest + Recoding(s)[NumDigits].carry)
           = s
        /\ Weight[NumDigits] \in Nat /\ Sum(Value(s), NumDigits) \in Int
    <2>1. Ints(Value(s), NumDigits)
      BY <1>1, <1>2, AllParts
    <2> QED BY <1>1, <1>2, <2>1, RecodingAddsUp, WeightSteps, SumInt
  <1> HIDE DEF n, w, M
  <1>7. r < N
    <2> SUFFICES ASSUME r >= N PROVE FALSE
      <3> HIDE DEF r
      <3> QED BY <1>1, <1>3
    <2> HIDE DEF r, N
    <2>1. w * r = w * N + w * (r - N) /\ w * N = N * w /\ w * N \in Nat
      BY <1>1, <1>3
    <2>2. r - N \in Nat /\ w * (r - N) \in Nat
      BY <1>1, <1>3
    <2> DEFINE wr == w * r
               wN == w * N
               wd == w * (r - N)
    <2>3. wr = wN + wd /\ wN \in Nat /\ wd \in Nat /\ wr <= s /\ M <= wN
      BY <1>2, <1>4, <2>1, <2>2
    <2> HIDE DEF wr, wN, wd
    <2> QED BY <1>2, <2>3
  <1>8. r % Base = r /\ r \div Base = 0
    <2> DEFINE B == Base
               l == r % B
               q == r \div B
    <2>1. B = 2 * N /\ B \in Nat \ {0}
      BY <1>1
    <2>2. l \in 0..(B - 1) /\ q \in Nat /\ r = l + B * q
      BY <1>3, <2>1, Division
    <2> HIDE DEF B, l, q, r, N
    <2>3. q = 0
      <3> SUFFICES ASSUME q # 0 PROVE FALSE
        OBVIOUS
      <3>1. q - 1 \in Nat /\ B * q = B + B * (q - 1) /\ B * (q - 1) \in Nat
        BY <2>1, <2>2
      <3> DEFINE Bq == B * q
                 d == B * (q - 1)
      <3>2. Bq = B + d /\ d \in Nat /\ r = l + Bq
        BY <2>2, <3>1
      <3> HIDE DEF Bq, d
      <3> QED BY <1>1, <1>3, <1>7, <2>1, <2>2, <3>2
    <2>4. l = r
      BY <1>3, <2>1, <2>2, <2>3
    <2> QED BY <2>3, <2>4 DEF l, q, B
  <1>9. ~OverHalf((r % Base) + c)
    <2> HIDE DEF r, c, N
    <2>1. r + c <= N
      BY <1>1, <1>3, <1>7
    <2>2. (r % Base) + c = r + c
      BY <1>8
    <2> QED BY <1>1, <1>3, <2>1, <2>2 DEF OverHalf, N
  <1>10. RecodeDigit(Recoding(s)[n]).rest = 0 /\ RecodeDigit(Recoding(s)[n]).carry = 0
    BY <1>8, <1>9 DEF RecodeDigit
  <1>11. Recoding(s)[NumDigits].rest = 0 /\ Recoding(s)[NumDigits].carry = 0
    BY <1>5, <1>10
  <1> DEFINE a == Sum(Value(s), NumDigits)
             x == Weight[NumDigits]
  <1>12. a + x * (0 + 0) = s /\ x \in Nat /\ a \in Int
    BY <1>6, <1>11
  <1> HIDE DEF a, x
  <1>13. a = s
    BY <1>12
  <1> QED BY <1>13 DEF a

\* Buckets that hold their shares of a scalar weigh as much as it.
LEMMA SharesAreScalar ==
  ASSUME NEW s \in 0..(Modulus - 1), NEW g,
         \A k \in Buckets : g[k] = Sum(Part(s, k), NumDigits)
  PROVE  IntsBelow(g, NumBuckets) /\ Weighted(g, 0, NumBuckets) = s
  <1> DEFINE h == Share(s, NumDigits)
             N == NumBuckets
             none == 0
  <1>1. s \in Nat /\ N \in Nat /\ Buckets = 0..(N - 1) /\ NumDigits \in 0..NumDigits
    BY SortAssumption, DigitsAssumption DEF Buckets
  <1>2. \A k \in Buckets : h[k] = g[k]
    BY DEF Share
  <1>3. IntsBelow(h, N)
    BY <1>1, ShareInts
  <1> HIDE DEF h
  <1>4. IntsBelow(g, N)
    BY <1>1, <1>2, <1>3 DEF IntsBelow
  <1>5. ASSUME NEW i \in 1..N PROVE Weighed(g, none)[i] = Weighed(h, none)[i]
    <2>1. none + i - 1 \in Buckets /\ i \in Nat
      BY <1>1
    <2> HIDE DEF none
    <2> QED BY <1>2, <2>1 DEF Weighed
  <1>6. Ints(Weighed(h, none), N)
    <2>1. none \in Nat /\ none + N <= N
      BY <1>1
    <2> HIDE DEF none, N
    <2> QED BY <1>1, <1>3, <2>1, RunInts
  <1>7. Weighted(g, none, N) = Weighted(h, none, N)
    <2> HIDE DEF none, N
    <2> QED BY <1>1, <1>5, <1>6, SumSame, Zenon DEF Weighted
  <1>8. Weighted(h, 0, NumBuckets) = s
    BY <1>1, Shares, ScalarIsDigits DEF h
  <1> QED BY <1>4, <1>7, <1>8

-----------------------------------------------------------------------------
(* The tree *)

\* What lane pos, of those that sum n buckets each, has when it speaks for len buckets.
Speaks(b, st, lo, n, len) == \A u \in Tids :
  /\ st.s[u] = Block(Column(b, u), lo, len)
  /\ n * st.w[u] + st.rs[u] = Weighted(Column(b, u), lo, len)

\* A lane's own slice, from the top down: every bucket it takes in is one place further
\* from all that it has taken in before.
LEMMA SliceSums ==
  ASSUME NEW b \in [Buckets -> Point], NEW m \in LaneCounts, NEW pos \in 0..(m - 1)
  PROVE  LET n == Team!PerLane(m) IN
         /\ Team!RunningSums(b, m, pos) \in LaneState
         /\ Speaks(b, Team!RunningSums(b, m, pos), pos * n, n, n)
  <1> DEFINE n == Team!PerLane(m)
             lo == pos * n
             none == [s |-> Zero, rs |-> Zero, w |-> Zero]
             TakesIn(i, st) == Team!Collapsed(Add(st.s, b[pos * n + n - i]), st)
             G == [x \in (1..n) \X LaneState |-> TakesIn(x[1], x[2])]
             Step(h) == [i \in 0..n |-> IF i = 0 THEN none ELSE TakesIn(i, h[i - 1])]
             r == CHOOSE h : h = Step(h)
  <1>1. m \in Nat \ {0} /\ n \in Nat \ {0} /\ m * n = NumBuckets /\ NumBuckets \in Nat
    BY LaneCountIs, DigitsAssumption
  <1>2. lo \in Nat /\ lo + n <= NumBuckets
    <2> HIDE DEF n
    <2>1. pos \in Nat /\ m - 1 - pos \in Nat /\ m = pos + 1 + (m - 1 - pos)
      BY <1>1
    <2> DEFINE d == m - 1 - pos
    <2>2. pos \in Nat /\ d \in Nat /\ m = pos + 1 + d
      BY <2>1
    <2> HIDE DEF d
    <2>3. m * n = pos * n + n + d * n /\ pos * n \in Nat /\ d * n \in Nat
      BY <1>1, <2>2
    <2> DEFINE dn == d * n
               mn == m * n
    <2>4. mn = lo + n + dn /\ lo \in Nat /\ dn \in Nat /\ mn = NumBuckets
      BY <1>1, <2>3
    <2> HIDE DEF dn, mn, lo
    <2> QED BY <1>1, <2>4
  <1> HIDE DEF n
  <1>3. \A i \in 1..n : pos * n + n - i = lo + (n - i) /\ lo + (n - i) \in Buckets
    <2> SUFFICES ASSUME NEW i \in 1..n
                 PROVE  pos * n + n - i = lo + (n - i) /\ lo + (n - i) \in Buckets
      OBVIOUS
    <2>1. pos * n + n - i = lo + n - i
      OBVIOUS
    <2> HIDE DEF lo
    <2> QED BY <1>1, <1>2, <2>1 DEF Buckets
  <1> HIDE DEF lo
  <1>4. ASSUME NEW i \in 1..n, NEW st \in LaneState
        PROVE  /\ TakesIn(i, st) \in LaneState
               /\ \A u \in Tids :
                    /\ TakesIn(i, st).s[u] = st.s[u] + b[lo + (n - i)][u]
                    /\ TakesIn(i, st).rs[u] = st.rs[u] + (st.s[u] + b[lo + (n - i)][u])
                    /\ TakesIn(i, st).w = st.w
    <2> DEFINE p == b[lo + (n - i)]
               q == Add(st.s, p)
    <2>1. p \in Point /\ st.s \in Point /\ st.rs \in Point /\ st.w \in Point
      BY <1>3 DEF LaneState
    <2>2. TakesIn(i, st) = [st EXCEPT !.s = q, !.rs = Add(st.rs, q)]
      BY <1>3 DEF Team!Collapsed
    <2> HIDE DEF p
    <2>3. q \in Point /\ \A u \in Tids : q[u] = st.s[u] + p[u]
      BY <2>1, PointSums
    <2> HIDE DEF q
    <2>4. Add(st.rs, q) \in Point /\ \A u \in Tids : Add(st.rs, q)[u] = st.rs[u] + q[u]
      BY <2>1, <2>3, PointSums
    <2> DEFINE a == Add(st.rs, q)
               nx == TakesIn(i, st)
    <2>5. nx = [st EXCEPT !.s = q, !.rs = a] /\ a \in Point
          /\ \A u \in Tids : a[u] = st.rs[u] + q[u]
      BY <2>2, <2>4
    <2> HIDE DEF a, nx
    <2>6. nx \in LaneState /\ nx.s = q /\ nx.rs = a /\ nx.w = st.w
      BY <2>3, <2>5 DEF LaneState
    <2>7. \A u \in Tids : nx.s[u] = st.s[u] + p[u] /\ nx.rs[u] = st.rs[u] + (st.s[u] + p[u])
      BY <2>3, <2>5, <2>6
    <2> QED BY <2>6, <2>7 DEF nx, p
  <1>5. none \in LaneState
    BY PointSums DEF LaneState, Point, Zero
  <1>6. G \in [(1..n) \X LaneState -> LaneState]
    <2> HIDE DEF TakesIn
    <2> QED BY <1>4
  <1>7. PICK f \in [0..n -> LaneState] : Follows(f, n, none, G)
    <2> HIDE DEF G, none
    <2> QED BY <1>1, <1>5, <1>6, Recursion, Zenon
  <1> HIDE DEF TakesIn
  <1>8. f[0] = none /\ \A i \in 1..n : f[i] = TakesIn(i, f[i - 1])
    <2> HIDE DEF none
    <2>1. ASSUME NEW i \in 1..n PROVE f[i] = TakesIn(i, f[i - 1])
      <3>1. i - 1 \in 0..n
        BY <1>1
      <3>2. f[i - 1] \in LaneState
        BY <3>1
      <3>3. G[<<i, f[i - 1]>>] = TakesIn(i, f[i - 1])
        BY <3>2
      <3> QED BY <1>7, <3>3 DEF Follows
    <2> QED BY <1>7, <2>1 DEF Follows
  <1>9. f = Step(f)
    <2> HIDE DEF none
    <2>1. ASSUME NEW i \in 0..n PROVE f[i] = IF i = 0 THEN none ELSE TakesIn(i, f[i - 1])
      <3>1. i # 0 => i \in 1..n
        BY <1>1
      <3> QED BY <1>8, <3>1, Zenon
    <2> QED BY <2>1
  <1>10. r = Step(r)
    <2> HIDE DEF Step
    <2> QED BY <1>9
  <1>11. Team!RunningSums(b, m, pos) = r[n]
    BY DEF Team!RunningSums, n, TakesIn
  <1> HIDE DEF r, none
  <1>12. \A i \in 0..n : r[i] = IF i = 0 THEN none ELSE TakesIn(i, r[i - 1])
    BY <1>10
  <1> HIDE DEF Step
  <1>13. GoesOnAs(r, f, n)
    <2>1. r[0] = f[0]
      <3>1. 0 \in 0..n
        BY <1>1
      <3> QED BY <1>8, <1>12, <3>1
    <2>2. ASSUME NEW i \in 1..n, r[i - 1] = f[i - 1] PROVE r[i] = f[i]
      <3>1. i \in 0..n /\ i # 0
        BY <1>1
      <3>2. r[i] = TakesIn(i, r[i - 1])
        BY <1>12, <3>1, Zenon
      <3> QED BY <1>8, <2>2, <3>2
    <2> QED BY <2>1, <2>2 DEF GoesOnAs
  <1>14. \A i \in 0..n : r[i] = f[i]
    <2>1. n \in Nat
      BY <1>1
    <2> QED BY <1>13, <2>1, Agree, Zenon
  <1> DEFINE Holds(i) == \A u \in Tids :
               /\ f[i].s[u] = Block(Column(b, u), lo + (n - i), i)
               /\ f[i].rs[u] = Weighted(Column(b, u), lo + (n - i), i)
               /\ f[i].w[u] = 0
             T == {i \in Nat : i <= n => Holds(i)}
  <1>15. 0 \in T
    <2>1. \A u \in Tids : f[0].s[u] = 0 /\ f[0].rs[u] = 0 /\ f[0].w[u] = 0
      <3>1. f[0].s = Zero /\ f[0].rs = Zero /\ f[0].w = Zero
        BY <1>8 DEF none
      <3>2. \A u \in Tids : Zero[u] = 0
        BY DEF Zero
      <3> QED BY <3>1, <3>2
    <2>2. \A g, l : Block(g, l, 0) = 0 /\ Weighted(g, l, 0) = 0
      BY RunNone
    <2>3. Holds(0)
      BY <2>1, <2>2
    <2> QED BY <2>3
  <1>16. ASSUME NEW i \in Nat, i \in T PROVE i + 1 \in T
    <2> SUFFICES ASSUME i + 1 <= n, NEW u \in Tids
                 PROVE  /\ f[i + 1].s[u] = Block(Column(b, u), lo + (n - (i + 1)), i + 1)
                        /\ f[i + 1].rs[u] = Weighted(Column(b, u), lo + (n - (i + 1)), i + 1)
                        /\ f[i + 1].w[u] = 0
      OBVIOUS
    <2> DEFINE l == lo + (n - (i + 1))
               g == Column(b, u)
    <2>1. /\ i + 1 \in 1..n /\ (i + 1) - 1 = i /\ i \in 0..n /\ l \in Nat
          /\ l + 1 = lo + (n - i) /\ l + 1 + i <= NumBuckets
      BY <1>1, <1>2
    <2>2. IntsBelow(g, NumBuckets) /\ g[l] = b[l][u]
      <3>1. l \in Buckets
        BY <1>3, <2>1
      <3> HIDE DEF l
      <3> QED BY <3>1, ColumnInts
    <2>3. /\ Block(g, l, i + 1) = Block(g, l + 1, i) + g[l]
          /\ Weighted(g, l, i + 1) = Weighted(g, l + 1, i) + Block(g, l, i + 1)
      <3> HIDE DEF g, l
      <3> QED BY <1>1, <2>1, <2>2, RunDown
    <2>4. /\ f[i].s[u] = Block(g, l + 1, i) /\ f[i].rs[u] = Weighted(g, l + 1, i)
          /\ f[i].w[u] = 0
      <3>1. Holds(i)
        BY <1>16, <2>1
      <3>2. /\ f[i].s[u] = Block(g, lo + (n - i), i) /\ f[i].rs[u] = Weighted(g, lo + (n - i), i)
            /\ f[i].w[u] = 0
        BY <3>1
      <3> QED BY <2>1, <3>2
    <2>5. f[i + 1] = TakesIn(i + 1, f[i]) /\ f[i] \in LaneState
      BY <1>8, <2>1
    <2>6. /\ TakesIn(i + 1, f[i]).s[u] = f[i].s[u] + b[l][u]
          /\ TakesIn(i + 1, f[i]).rs[u] = f[i].rs[u] + (f[i].s[u] + b[l][u])
          /\ TakesIn(i + 1, f[i]).w = f[i].w
      BY <1>4, <2>1, <2>5
    <2> HIDE DEF g, l
    <2>7. f[i + 1].s[u] = Block(g, l, i + 1)
      BY <2>2, <2>3, <2>4, <2>5, <2>6
    <2>8. f[i + 1].rs[u] = Weighted(g, l, i + 1)
      BY <2>2, <2>3, <2>4, <2>5, <2>6
    <2> QED BY <2>4, <2>5, <2>6, <2>7, <2>8 DEF g, l
  <1>17. Nat \subseteq T
    <2> HIDE DEF T
    <2> QED BY <1>15, <1>16, Induction
  <1>18. Holds(n) /\ n \in 0..n /\ lo + (n - n) = lo
    BY <1>1, <1>2, <1>17
  <1>19. ASSUME NEW u \in Tids
         PROVE  /\ f[n].s[u] = Block(Column(b, u), lo, n)
                /\ n * f[n].w[u] + f[n].rs[u] = Weighted(Column(b, u), lo, n)
    <2>1. /\ f[n].s[u] = Block(Column(b, u), lo, n)
          /\ f[n].rs[u] = Weighted(Column(b, u), lo, n) /\ f[n].w[u] = 0
      BY <1>18
    <2>2. f[n].rs[u] \in Int
      BY <1>18 DEF LaneState, Point
    <2> QED BY <1>1, <2>1, <2>2
  <1>20. Team!RunningSums(b, m, pos) = f[n] /\ f[n] \in LaneState
    BY <1>11, <1>14, <1>18
  <1> QED BY <1>19, <1>20 DEF Speaks, n, lo

\* What two joined lanes have.
LEMMA JoinedIs ==
  ASSUME NEW x \in LaneState, NEW y \in LaneState, NEW lv \in Nat
  PROVE  LET z == Team!Joined(lv, x, y) IN
         /\ z \in LaneState
         /\ \A u \in Tids : /\ z.s[u] = x.s[u] + y.s[u]
                            /\ z.rs[u] = x.rs[u] + y.rs[u]
                            /\ z.w[u] = x.w[u] + (y.w[u] + 2 ^ lv * y.s[u])
  <1> DEFINE z == Team!Joined(lv, x, y)
             e == Team!Doubled(y.s, lv)
             a == Add(x.s, y.s)
             b == Add(x.rs, y.rs)
             v == Add(y.w, e)
             c == Add(x.w, v)
  <1>1. /\ x.s \in Point /\ x.rs \in Point /\ x.w \in Point
        /\ y.s \in Point /\ y.rs \in Point /\ y.w \in Point
    BY DEF LaneState
  <1>2. e \in Point /\ \A u \in Tids : e[u] = 2 ^ lv * y.s[u]
    BY <1>1, DoubledIs
  <1>3. z = [s |-> a, rs |-> b, w |-> c]
    BY DEF Team!Joined
  <1> HIDE DEF e, z
  <1>4. a \in Point /\ \A u \in Tids : a[u] = x.s[u] + y.s[u]
    BY <1>1, PointSums
  <1>5. b \in Point /\ \A u \in Tids : b[u] = x.rs[u] + y.rs[u]
    BY <1>1, PointSums
  <1>6. v \in Point /\ \A u \in Tids : v[u] = y.w[u] + e[u]
    BY <1>1, <1>2, PointSums
  <1> HIDE DEF a, b, v
  <1>7. c \in Point /\ \A u \in Tids : c[u] = x.w[u] + v[u]
    BY <1>1, <1>6, PointSums
  <1> HIDE DEF c
  <1>8. z \in LaneState /\ z.s = a /\ z.rs = b /\ z.w = c
    BY <1>3, <1>4, <1>5, <1>7 DEF LaneState
  <1>9. \A u \in Tids : c[u] = x.w[u] + (y.w[u] + 2 ^ lv * y.s[u])
    BY <1>2, <1>6, <1>7
  <1> QED BY <1>4, <1>5, <1>8, <1>9 DEF z

\* Two lanes that speak for neighbouring runs of as many buckets speak for both.
LEMMA JoinedSpeaks ==
  ASSUME NEW b \in [Buckets -> Point], NEW x \in LaneState, NEW y \in LaneState,
         NEW lv \in Nat, NEW n \in Nat, NEW lo \in Nat, NEW len \in Nat,
         len = 2 ^ lv * n, lo + len + len <= NumBuckets,
         Speaks(b, x, lo, n, len), Speaks(b, y, lo + len, n, len)
  PROVE  Speaks(b, Team!Joined(lv, x, y), lo, n, len + len)
  <1> SUFFICES ASSUME NEW u \in Tids
               PROVE  LET z == Team!Joined(lv, x, y) IN
                      /\ z.s[u] = Block(Column(b, u), lo, len + len)
                      /\ n * z.w[u] + z.rs[u] = Weighted(Column(b, u), lo, len + len)
    BY DEF Speaks
  <1> DEFINE z == Team!Joined(lv, x, y)
             g == Column(b, u)
             h == 2 ^ lv
             xs == x.s[u]
             xr == x.rs[u]
             xw == x.w[u]
             ys == y.s[u]
             yr == y.rs[u]
             yw == y.w[u]
  <1>1. /\ xs = Block(g, lo, len) /\ n * xw + xr = Weighted(g, lo, len)
        /\ ys = Block(g, lo + len, len) /\ n * yw + yr = Weighted(g, lo + len, len)
    BY DEF Speaks
  <1>2. /\ xs \in Int /\ xr \in Int /\ xw \in Int /\ ys \in Int /\ yr \in Int /\ yw \in Int
    BY DEF LaneState, Point
  <1>3. z.s[u] = xs + ys /\ z.rs[u] = xr + yr /\ z.w[u] = xw + (yw + h * ys)
    <2>1. \A v \in Tids : /\ z.s[v] = x.s[v] + y.s[v]
                          /\ z.rs[v] = x.rs[v] + y.rs[v]
                          /\ z.w[v] = x.w[v] + (y.w[v] + 2 ^ lv * y.s[v])
      BY JoinedIs, Zenon
    <2> QED BY <2>1, Zenon
  <1>4. IntsBelow(g, NumBuckets) /\ NumBuckets \in Nat
    BY ColumnInts, DigitsAssumption
  <1>5. h \in Nat /\ len = h * n
    BY PowersOfTwo
  <1> HIDE DEF z, g, h, xs, xr, xw, ys, yr, yw
  <1>6. /\ Block(g, lo, len + len) = Block(g, lo, len) + Block(g, lo + len, len)
        /\ Weighted(g, lo, len + len)
             = Weighted(g, lo, len) + Weighted(g, lo + len, len) + len * Block(g, lo + len, len)
    BY <1>4, RunSplits
  <1>7. n * (xw + (yw + h * ys)) = n * xw + n * yw + len * ys
    <2> DEFINE hy == h * ys
    <2>1. hy \in Int /\ n * hy = len * ys
      <3>1. n * (h * ys) = (n * h) * ys /\ n * h = h * n
        BY <1>2, <1>5
      <3> QED BY <1>2, <1>5, <3>1
    <2> HIDE DEF hy
    <2>2. n * (xw + (yw + hy)) = n * xw + n * yw + n * hy
      BY <1>2, <2>1
    <2> QED BY <2>1, <2>2 DEF hy
  <1> DEFINE nx == n * xw
             ny == n * yw
             ly == len * ys
             nz == n * z.w[u]
  <1>8. nx \in Int /\ ny \in Int /\ ly \in Int
    BY <1>2
  <1>9. nz = nx + ny + ly
    BY <1>3, <1>7
  <1>10. Weighted(g, lo, len + len) = (nx + xr) + (ny + yr) + ly
    BY <1>1, <1>6
  <1> HIDE DEF nx, ny, ly, nz
  <1>11. nz + z.rs[u] = Weighted(g, lo, len + len)
    BY <1>2, <1>3, <1>8, <1>9, <1>10
  <1> QED BY <1>1, <1>3, <1>6, <1>11 DEF z, g, nz

\* A multiple leaves nothing.
LEMMA Multiple ==
  ASSUME NEW q \in Nat, NEW h \in Nat \ {0} PROVE (q * h) % h = 0
  <1> DEFINE x == q * h
             l == x % h
             d == x \div h
             c == q - d
  <1>1. x \in Nat
    OBVIOUS
  <1>2. l \in 0..(h - 1) /\ d \in Nat /\ x = l + h * d
    <2> HIDE DEF x
    <2> QED BY <1>1, Division
  <1> HIDE DEF l, d
  <1>3. h * c = h * q - h * d /\ h * q = x /\ c \in Int /\ h * d \in Nat
    BY <1>2
  <1> DEFINE hc == h * c
             hd == h * d
  <1>4. hc = x - hd /\ hd \in Nat /\ x = l + hd
    BY <1>2, <1>3
  <1> HIDE DEF hd, x
  <1>5. hc = l
    BY <1>1, <1>2, <1>4
  <1> HIDE DEF c
  <1>6. c = 0
    <2>1. CASE c > 0
      <3>1. c - 1 \in Nat /\ h * c = h + h * (c - 1) /\ h * (c - 1) \in Nat
        BY <1>3, <2>1
      <3> DEFINE e == h * (c - 1)
      <3>2. hc = h + e /\ e \in Nat
        BY <3>1
      <3> HIDE DEF e, hc
      <3> QED BY <1>2, <1>5, <3>2
    <2>2. CASE c < 0
      <3>1. -c - 1 \in Nat /\ h * c = -h - h * (-c - 1) /\ h * (-c - 1) \in Nat
        BY <1>3, <2>2
      <3> DEFINE e == h * (-c - 1)
      <3>2. hc = -h - e /\ e \in Nat
        BY <3>1
      <3> HIDE DEF e, hc
      <3> QED BY <1>2, <1>5, <3>2
    <2> QED BY <1>3, <2>1, <2>2
  <1>7. l = 0
    BY <1>5, <1>6
  <1> QED BY <1>7 DEF l, x

\* The lanes that head a subtree of the level speak for the slices of its lanes.
Heads(b, m, lv, ln) == \A q \in Nat :
  q * 2 ^ lv < m =>
    Speaks(b, ln[q * 2 ^ lv], (q * 2 ^ lv) * Team!PerLane(m), Team!PerLane(m),
           2 ^ lv * Team!PerLane(m))

\* So they do a level up, whatever a shuffle past the team's end returns: no head takes
\* in a lane from there.
LEMMA LevelUp ==
  ASSUME NEW b \in [Buckets -> Point], NEW m \in LaneCounts, NEW K \in Nat, m = 2 ^ K,
         NEW lv \in Nat, 2 ^ lv < m, NEW ln \in [0..(m - 1) -> LaneState],
         NEW foreign \in LaneState, Heads(b, m, lv, ln)
  PROVE  /\ Team!Combined(lv, m, ln, foreign) \in [0..(m - 1) -> LaneState]
         /\ Heads(b, m, lv + 1, Team!Combined(lv, m, ln, foreign))
  <1> DEFINE h == 2 ^ lv
             H == 2 ^ (lv + 1)
             n == Team!PerLane(m)
             new == Team!Combined(lv, m, ln, foreign)
             Above(pos) == IF pos + h < m THEN ln[pos + h] ELSE foreign
  <1>1. m \in Nat \ {0} /\ n \in Nat \ {0} /\ m * n = NumBuckets /\ NumBuckets \in Nat
    BY LaneCountIs, DigitsAssumption
  <1>2. h \in Nat \ {0} /\ H = 2 * h /\ H \in Nat \ {0}
    <2>1. lv + 1 \in Nat
      OBVIOUS
    <2> QED BY <2>1, PowersOfTwo
  <1>3. PICK d \in Nat \ {0} : m = d * H
    BY PowersBelow
  <1>4. ASSUME NEW pos \in 0..(m - 1)
        PROVE  /\ new[pos] = IF pos % H = 0 THEN Team!Joined(lv, ln[pos], Above(pos)) ELSE ln[pos]
               /\ Above(pos) \in LaneState
    <2>1. new[pos] = IF pos % H = 0 THEN Team!Joined(lv, ln[pos], Above(pos)) ELSE ln[pos]
      BY DEF Team!Combined, Team!Commits
    <2>2. pos + h < m => pos + h \in 0..(m - 1)
      <3> HIDE DEF h
      <3> QED BY <1>1, <1>2
    <2> QED BY <2>1, <2>2
  <1>5. new \in [0..(m - 1) -> LaneState]
    <2>1. new = [pos \in 0..(m - 1) |-> new[pos]]
      BY DEF Team!Combined
    <2> HIDE DEF new, Above
    <2>2. ASSUME NEW pos \in 0..(m - 1) PROVE new[pos] \in LaneState
      <3>1. ln[pos] \in LaneState /\ Above(pos) \in LaneState
        BY <1>4
      <3>2. Team!Joined(lv, ln[pos], Above(pos)) \in LaneState
        BY <3>1, JoinedIs, Zenon
      <3>3. new[pos] = ln[pos] \/ new[pos] = Team!Joined(lv, ln[pos], Above(pos))
        BY <1>4, Zenon
      <3> QED BY <3>1, <3>2, <3>3, Zenon
    <2> QED BY <2>1, <2>2
  <1> HIDE DEF h, H, n, new
  <1>6. ASSUME NEW q \in Nat, q * H < m
        PROVE  Speaks(b, new[q * H], (q * H) * n, n, H * n)
    <2> DEFINE pos == q * H
               lo == pos * n
               len == h * n
    <2>1. pos \in 0..(m - 1) /\ pos % H = 0
      <3>1. pos \in Nat
        BY <1>2
      <3>2. pos % H = 0
        BY <1>2, Multiple
      <3> HIDE DEF pos
      <3> QED BY <1>1, <1>6, <3>1, <3>2 DEF pos
    <2>2. pos + H <= m
      <3>1. q < d
        <4> SUFFICES ASSUME q >= d PROVE FALSE
          OBVIOUS
        <4>1. q - d \in Nat /\ q * H = d * H + (q - d) * H /\ (q - d) * H \in Nat
          BY <1>2
        <4> DEFINE qH == q * H
                   dH == d * H
                   eH == (q - d) * H
        <4>2. qH = dH + eH /\ eH \in Nat /\ m = dH /\ qH < m
          BY <1>3, <1>6, <4>1
        <4> HIDE DEF qH, dH, eH
        <4> QED BY <1>1, <4>2
      <3>2. d - 1 - q \in Nat /\ d * H = q * H + H + (d - 1 - q) * H /\ (d - 1 - q) * H \in Nat
        BY <1>2, <3>1
      <3> DEFINE dH == d * H
                 eH == (d - 1 - q) * H
      <3>3. dH = pos + H + eH /\ eH \in Nat /\ m = dH
        BY <1>3, <3>2
      <3> HIDE DEF pos, dH, eH
      <3> QED BY <1>1, <1>2, <2>1, <3>3
    <2>3. pos = (2 * q) * h /\ pos + h = (2 * q + 1) * h /\ 2 * q \in Nat /\ 2 * q + 1 \in Nat
      BY <1>2
    <2>4. pos + h < m /\ pos < m /\ pos + h \in 0..(m - 1)
      <3> HIDE DEF pos
      <3> QED BY <1>1, <1>2, <2>1, <2>2
    <2> HIDE DEF pos
    <2>5. (pos + h) * n = lo + len /\ H * n = len + len /\ lo \in Nat /\ len \in Nat
      <3>1. pos \in Nat
        BY <2>1
      <3> QED BY <1>1, <1>2, <3>1
    <2>6. lo + len + len <= NumBuckets
      <3> DEFINE e == m - pos - H
      <3>1. e \in Nat /\ m = pos + H + e /\ pos \in Nat
        BY <1>1, <1>2, <2>1, <2>2
      <3> HIDE DEF e
      <3>2. m * n = pos * n + H * n + e * n /\ e * n \in Nat
        BY <1>1, <1>2, <3>1
      <3> DEFINE en == e * n
                 mn == m * n
      <3>3. mn = lo + (len + len) + en /\ en \in Nat /\ mn = NumBuckets
        BY <1>1, <2>5, <3>2
      <3> HIDE DEF en, mn, lo, len
      <3> QED BY <1>1, <2>5, <3>3
    <2>7. Speaks(b, ln[pos], lo, n, len)
      <3>1. (2 * q) * h < m
        BY <2>3, <2>4
      <3>2. Speaks(b, ln[(2 * q) * h], ((2 * q) * h) * n, n, h * n)
        <4> DEFINE k == 2 * q
        <4>1. k \in Nat /\ k * h < m
          BY <3>1
        <4>2. Speaks(b, ln[k * h], (k * h) * n, n, h * n)
          <5> HIDE DEF k
          <5> QED BY <4>1, Zenon DEF Heads, h, n
        <4> QED BY <4>2
      <3> QED BY <2>3, <3>2
    <2>8. Speaks(b, ln[pos + h], lo + len, n, len)
      <3>1. (2 * q + 1) * h < m
        BY <2>3, <2>4
      <3>2. Speaks(b, ln[(2 * q + 1) * h], ((2 * q + 1) * h) * n, n, h * n)
        <4> DEFINE k == 2 * q + 1
        <4>1. k \in Nat /\ k * h < m
          BY <3>1
        <4>2. Speaks(b, ln[k * h], (k * h) * n, n, h * n)
          <5> HIDE DEF k
          <5> QED BY <4>1, Zenon DEF Heads, h, n
        <4> QED BY <4>2
      <3>3. Speaks(b, ln[pos + h], (pos + h) * n, n, h * n)
        BY <2>3, <3>2
      <3> QED BY <2>5, <3>3
    <2>9. new[pos] = Team!Joined(lv, ln[pos], ln[pos + h])
      BY <1>4, <2>1, <2>4
    <2>10. len = 2 ^ lv * n
      BY DEF h
    <2> HIDE DEF lo, len
    <2>11. ln[pos] \in LaneState /\ ln[pos + h] \in LaneState /\ n \in Nat
      BY <1>1, <2>1, <2>4
    <2>12. Speaks(b, Team!Joined(lv, ln[pos], ln[pos + h]), lo, n, len + len)
      BY <2>5, <2>6, <2>7, <2>8, <2>10, <2>11, JoinedSpeaks
    <2>13. Speaks(b, new[pos], lo, n, H * n)
      BY <2>5, <2>9, <2>12
    <2> QED BY <2>13 DEF pos, lo
  <1>7. Heads(b, m, lv + 1, new)
    BY <1>6 DEF Heads, H, n
  <1> QED BY <1>5, <1>7 DEF new

\* At first each lane speaks for its slice.
LEMMA LevelZero ==
  ASSUME NEW b \in [Buckets -> Point], NEW m \in LaneCounts, NEW ln,
         ln = [pos \in 0..(m - 1) |-> Team!RunningSums(b, m, pos)]
  PROVE  ln \in [0..(m - 1) -> LaneState] /\ Heads(b, m, 0, ln)
  <1> DEFINE n == Team!PerLane(m)
  <1>1. m \in Nat \ {0} /\ n \in Nat \ {0} /\ 2 ^ 0 = 1
    BY LaneCountIs, PowersOfTwo
  <1>2. ASSUME NEW pos \in 0..(m - 1)
        PROVE  ln[pos] \in LaneState /\ Speaks(b, ln[pos], pos * n, n, n)
    BY SliceSums
  <1> HIDE DEF n
  <1>3. ln \in [0..(m - 1) -> LaneState]
    BY <1>2
  <1>4. ASSUME NEW q \in Nat, q * 1 < m PROVE Speaks(b, ln[q * 1], (q * 1) * n, n, 1 * n)
    <2>1. q * 1 = q /\ q \in 0..(m - 1) /\ 1 * n = n
      BY <1>1, <1>4
    <2> QED BY <1>2, <2>1
  <1> QED BY <1>1, <1>3, <1>4 DEF Heads, n

\* In the end lane 0 speaks for all the buckets.
LEMMA TotalIs ==
  ASSUME NEW b \in [Buckets -> Point], NEW m \in LaneCounts, NEW K \in Nat, m = 2 ^ K,
         NEW ln \in [0..(m - 1) -> LaneState], Heads(b, m, K, ln)
  PROVE  /\ Team!Total(m, ln[0]) \in Point
         /\ \A u \in Tids : Team!Total(m, ln[0])[u] = Weighted(Column(b, u), 0, NumBuckets)
  <1> DEFINE n == Team!PerLane(m)
             k == Team!Log2(n)
             st == ln[0]
             e == Team!Doubled(st.w, k)
  <1>1. m \in Nat \ {0} /\ n \in Nat \ {0} /\ m * n = NumBuckets /\ k \in Nat /\ 2 ^ k = n
    BY LaneCountIs
  <1>2. st \in LaneState
    <2>1. 0 \in 0..(m - 1)
      BY <1>1
    <2> HIDE DEF n
    <2> QED BY <2>1
  <1>3. Speaks(b, st, 0, n, NumBuckets)
    <2> HIDE DEF n, k
    <2> DEFINE none == 0
    <2>1. none \in Nat /\ none * 2 ^ K = 0 /\ 0 * n = 0 /\ none * 2 ^ K < m
      <3>1. m \in Nat
        BY <1>1
      <3>2. 0 * m = 0 /\ 0 < m /\ 0 * n = 0
        BY <1>1
      <3> QED BY <3>2
    <2>2. Speaks(b, ln[none * 2 ^ K], (none * 2 ^ K) * n, n, 2 ^ K * n)
      <3> HIDE DEF none
      <3> QED BY <2>1, Zenon DEF Heads, n
    <2>3. Speaks(b, ln[0], 0 * n, n, m * n)
      BY <2>1, <2>2
    <2> QED BY <1>1, <2>1, <2>3
  <1>4. e \in Point /\ \A u \in Tids : e[u] = n * st.w[u]
    <2>1. st.w \in Point
      BY <1>2 DEF LaneState
    <2> HIDE DEF n, k, st
    <2>2. e \in Point /\ \A u \in Tids : e[u] = 2 ^ k * st.w[u]
      BY <1>1, <2>1, DoubledIs
    <2> QED BY <1>1, <2>2
  <1>5. Team!Total(m, st) = Add(st.rs, e)
    BY DEF Team!Total
  <1> HIDE DEF n, k, st, e
  <1>6. /\ Team!Total(m, st) \in Point
        /\ \A u \in Tids : Team!Total(m, st)[u] = st.rs[u] + n * st.w[u]
    <2>1. st.rs \in Point
      BY <1>2 DEF LaneState
    <2>2. Add(st.rs, e) \in Point /\ \A u \in Tids : Add(st.rs, e)[u] = st.rs[u] + e[u]
      BY <1>4, <2>1, PointSums
    <2> QED BY <1>4, <1>5, <2>2
  <1>7. ASSUME NEW u \in Tids PROVE Team!Total(m, st)[u] = Weighted(Column(b, u), 0, NumBuckets)
    <2> DEFINE w == st.w[u]
               r == st.rs[u]
    <2>1. w \in Int /\ r \in Int
      BY <1>2 DEF LaneState, Point
    <2>2. Team!Total(m, st)[u] = r + n * w
      BY <1>6
    <2>3. n * w + r = Weighted(Column(b, u), 0, NumBuckets)
      BY <1>3 DEF Speaks
    <2> HIDE DEF w, r
    <2>4. r + n * w = n * w + r
      BY <1>1, <2>1
    <2> QED BY <2>2, <2>3, <2>4
  <1> QED BY <1>6, <1>7 DEF st

-----------------------------------------------------------------------------
(* What the slots hold *)

\* What the items of a bucket's slots are, a component of them.
Held(k, u) == [i \in Nat |-> ItemPoint(items[starts[k] + i - 1])[u]]

\* How many of its digits an invocation has scattered.
Reached(u) == IF phase[u] < 6 THEN 0 ELSE IF phase[u] = 6 THEN dd[u] ELSE NumDigits

\* The slots of bucket k that its cursor has passed hold its parts of the digits that
\* have been scattered.
Scattered == phase[0] >= 5 => \A k \in Buckets, u \in Tids :
  Sum(Held(k, u), count[k] - starts[k]) = Sum(Part(scalar[u], k), Reached(u))

\* An item's point.
LEMMA ItemPointIs ==
  ASSUME NEW x \in Tids \X Digits \X BOOLEAN
  PROVE  /\ ItemPoint(x) \in Point
         /\ \A u \in Tids : ItemPoint(x)[u] =
              IF u = x[1] THEN IF x[3] THEN -Weight[x[2]] ELSE Weight[x[2]] ELSE 0
  <1> DEFINE t == x[1]
             d == x[2]
             p == TablePoint(t, d)
  <1>1. t \in Tids /\ d \in Digits
    OBVIOUS
  <1>2. d \in 0..NumDigits
    BY <1>1, DigitsAssumption DEF Digits
  <1>3. Weight[d] \in Nat \ {0}
    BY <1>2, WeightSteps
  <1> DEFINE w == Weight[d]
  <1>4. p = [u \in Tids |-> IF u = t THEN w ELSE 0]
    BY DEF TablePoint
  <1>5. ItemPoint(x) = IF x[3] THEN Neg(p) ELSE p
    BY DEF ItemPoint
  <1> HIDE DEF t, d, w, p
  <1>6. p \in Point /\ \A u \in Tids : p[u] = IF u = t THEN w ELSE 0
    BY <1>3, <1>4 DEF Point, w
  <1>7. Neg(p) \in Point /\ \A u \in Tids : Neg(p)[u] = -p[u]
    BY <1>6, PointSums
  <1>8. w \in Nat
    BY <1>3 DEF w
  <1>9. CASE x[3]
    <2>1. ItemPoint(x) = Neg(p)
      BY <1>5, <1>9
    <2>2. \A u \in Tids : Neg(p)[u] = IF u = t THEN -w ELSE 0
      BY <1>6, <1>7, <1>8
    <2> QED BY <1>7, <1>9, <2>1, <2>2, Zenon DEF t, w, d
  <1>10. CASE ~x[3]
    <2>1. ItemPoint(x) = p
      BY <1>5, <1>10
    <2> QED BY <1>6, <1>10, <2>1, Zenon DEF t, w, d
  <1> QED BY <1>9, <1>10

\* The slots that a cursor has passed hold integers.
LEMMA HeldInts ==
  ASSUME SInv, phase[0] >= 5, NEW k \in Buckets, NEW u \in Tids
  PROVE  /\ count[k] - starts[k] \in Nat /\ starts[k] \in Nat
         /\ Ints(Held(k, u), count[k] - starts[k])
         /\ \A i \in 1..(count[k] - starts[k]) :
              /\ starts[k] + i - 1 \in Slots
              /\ starts[k] + i - 1 \in starts[k]..(count[k] - 1)
              /\ items[starts[k] + i - 1] \in Tids \X Digits \X BOOLEAN
              /\ Held(k, u)[i] = ItemPoint(items[starts[k] + i - 1])[u]
  <1>1. Types /\ Summed /\ Cursors /\ Passed
    BY DEF SInv, Written
  <1>2. /\ k \in 0..NumBuckets /\ starts[k] <= count[k] /\ count[k] \in 0..NumItems
        /\ starts[k] \in 0..NumItems /\ NumItems \in Nat
    BY <1>1, Layout, PairsFinite
  <1>3. ASSUME NEW i \in 1..(count[k] - starts[k])
        PROVE  /\ starts[k] + i - 1 \in Slots
               /\ starts[k] + i - 1 \in starts[k]..(count[k] - 1)
               /\ items[starts[k] + i - 1] \in Tids \X Digits \X BOOLEAN
               /\ Held(k, u)[i] = ItemPoint(items[starts[k] + i - 1])[u]
               /\ Held(k, u)[i] \in Int
    <2> DEFINE s == starts[k] + i - 1
    <2>1. i \in Nat /\ s \in Slots /\ s \in starts[k]..(count[k] - 1)
      BY <1>2 DEF Slots
    <2>2. Held(k, u)[i] = ItemPoint(items[s])[u]
      BY <2>1 DEF Held
    <2> HIDE DEF s
    <2>3. items[s] # NoItem
      BY <1>1, <2>1 DEF Passed
    <2>4. items[s] \in Tids \X Digits \X BOOLEAN
      BY <1>1, <2>1, <2>3 DEF Types
    <2>5. ItemPoint(items[s])[u] \in Int
      BY <2>4, ItemPointIs DEF Point
    <2> QED BY <2>1, <2>2, <2>4, <2>5 DEF s
  <1>4. count[k] - starts[k] \in Nat
    BY <1>2
  <1>5. Ints(Held(k, u), count[k] - starts[k])
    BY <1>3 DEF Ints
  <1> QED BY <1>2, <1>3, <1>4, <1>5

-----------------------------------------------------------------------------
(* The invariant *)

\* A bucket that has been added up holds its parts of the scalars.
Filled ==
  /\ bucket \in [Buckets -> Point] /\ added \subseteq Buckets
  /\ added # {} => Sorted
  /\ \A i \in added, u \in Tids :
       bucket[perm[i]][u] = Sum(Part(scalar[u], perm[i]), NumDigits)

\* The lanes have the sums of the level they are at, and the output is stored in the end.
Teamed ==
  /\ lanes \in LaneCounts /\ level \in Int /\ level >= -1
  /\ lane \in [0..(lanes - 1) -> LaneState] /\ output \in Point
  /\ level >= 0 => added = Buckets
  /\ \A K \in Nat : lanes = 2 ^ K =>
       /\ level <= K + 1
       /\ level \in 0..K => Heads(bucket, lanes, level, lane)
       /\ level = K + 1 => output = scalar

MInv == SInv /\ Scattered /\ Filled /\ Teamed

-----------------------------------------------------------------------------
(* The steps of the sort *)

\* A digit's part of a bucket is what its item's point adds to it.
LEMMA DigitPart ==
  ASSUME scalar \in [Tids -> Scalars], NEW t \in Tids, NEW d \in Digits, NEW k
  PROVE  LET v == Digit(t, d) IN
         /\ Part(scalar[t], k)[d + 1] = IF v # 0 /\ BucketOf(t, d) = k
                                        THEN IF v < 0 THEN -Weight[d] ELSE Weight[d] ELSE 0
         /\ \A m \in 0..NumDigits : Ints(Part(scalar[t], k), m)
         /\ Weight[d] \in Nat
  <1>1. scalar[t] \in Nat
    <2>1. Scalars \subseteq 0..(Modulus - 1) /\ Modulus \in Nat
      BY SortAssumption, Zenon
    <2>2. scalar[t] \in 0..(Modulus - 1)
      BY <2>1
    <2> QED BY <2>1, <2>2
  <1>2. d + 1 \in 1..NumDigits /\ (d + 1) - 1 = d
    BY DigitsAssumption DEF Digits
  <1>3. /\ Weight[(d + 1) - 1] \in Nat
        /\ Part(scalar[t], k)[d + 1]
             = IF Recoded(scalar[t])[d + 1] # 0 /\ Abs(Recoded(scalar[t])[d + 1]) - 1 = k
               THEN IF Recoded(scalar[t])[d + 1] < 0 THEN -Weight[(d + 1) - 1]
                    ELSE Weight[(d + 1) - 1]
               ELSE 0
    BY <1>1, <1>2, ValueInts
  <1>4. \A m \in 0..NumDigits : Ints(Part(scalar[t], k), m)
    BY <1>1, AllParts
  <1>5. BucketOf(t, d) = Abs(Recoded(scalar[t])[d + 1]) - 1
        /\ Digit(t, d) = Recoded(scalar[t])[d + 1]
    BY DEF BucketOf, Digit
  <1> QED BY <1>2, <1>3, <1>4, <1>5

\* How far an invocation is as it scatters a digit.
LEMMA ReachedNext ==
  ASSUME Types, NEW t \in Tids, phase[t] = 6, NextDigit(t)
  PROVE  /\ dd[t] \in Digits /\ Reached(t) = dd[t] /\ Reached(t)' = dd[t] + 1
         /\ \A u \in Tids \ {t} : Reached(u)' = Reached(u)
  <1>1. dd[t] \in Digits /\ NumDigits \in Nat /\ dd[t] \in Nat
    BY DigitsAssumption DEF Types, Digits
  <1>2. /\ phase'[t] = IF dd[t] + 1 = NumDigits THEN phase[t] + 1 ELSE phase[t]
        /\ dd'[t] = dd[t] + 1
        /\ \A u \in Tids \ {t} : phase'[u] = phase[u] /\ dd'[u] = dd[u]
    BY DEF NextDigit, Types
  <1>3. Reached(t) = dd[t]
    BY DEF Reached
  <1>4. Reached(t)' = dd[t] + 1
    <2>1. CASE dd[t] + 1 = NumDigits
      <3>1. phase'[t] = 7 /\ ~(phase'[t] < 6) /\ phase'[t] # 6
        BY <1>2, <2>1
      <3> QED BY <2>1, <3>1 DEF Reached
    <2>2. CASE dd[t] + 1 # NumDigits
      <3>1. phase'[t] = 6 /\ ~(phase'[t] < 6)
        BY <1>2, <2>2
      <3> QED BY <1>2, <3>1 DEF Reached
    <2> QED BY <2>1, <2>2
  <1>5. \A u \in Tids \ {t} : Reached(u)' = Reached(u)
    BY <1>2 DEF Reached
  <1> QED BY <1>1, <1>3, <1>4, <1>5

\* The slot a digit is written to comes after those its bucket's cursor has passed, and
\* is none of another's.
LEMMA ScatterSums == ASSUME SInv, Scattered, NEW t \in Tids, Scatter(t) PROVE Scattered'
  <1> SUFFICES ASSUME NEW k \in Buckets, NEW u \in Tids
               PROVE  Sum(Held(k, u)', count'[k] - starts'[k])
                        = Sum(Part(scalar'[u], k), Reached(u)')
    BY Zenon DEF Scattered
  <1> DEFINE e == dd[t]
             v == Digit(t, e)
             bk == BucketOf(t, e)
             s0 == count[bk]
             new == <<t, e, v < 0>>
             N == count[k] - starts[k]
             f == Held(k, u)
             g == Held(k, u)'
             P == Part(scalar[u], k)
             w == IF v < 0 THEN -Weight[e] ELSE Weight[e]
  <1>1. /\ phase[t] = 6 /\ NextDigit(t) /\ scalar' = scalar /\ starts' = starts
        /\ v = 0 => count' = count /\ items' = items
        /\ v # 0 => /\ count' = [count EXCEPT ![bk] = @ + 1]
                    /\ items' = [items EXCEPT ![s0] = new]
    BY DEF Scatter
  <1>2. Types /\ Summed /\ Cursors /\ phase[0] >= 5
    BY <1>1, First DEF SInv, Barriers
  <1>3. /\ N \in Nat /\ starts[k] \in Nat /\ Ints(f, N)
        /\ \A i \in 1..N :
             /\ starts[k] + i - 1 \in Slots
             /\ starts[k] + i - 1 \in starts[k]..(count[k] - 1)
             /\ items[starts[k] + i - 1] \in Tids \X Digits \X BOOLEAN
             /\ f[i] = ItemPoint(items[starts[k] + i - 1])[u]
    BY <1>2, HeldInts
  <1>4. v # 0 => /\ bk \in Buckets /\ s0 \in Slots
                 /\ starts[bk] <= s0 /\ s0 < starts[bk + 1]
    BY <1>1, OpenSlot, Zenon
  <1>5. /\ e \in Digits /\ Reached(t) = e /\ Reached(t)' = e + 1
        /\ \A x \in Tids \ {t} : Reached(x)' = Reached(x)
    BY <1>1, <1>2, ReachedNext
  <1>6. Sum(f, N) = Sum(P, Reached(u))
    BY <1>2 DEF Scattered
  <1>7. /\ u = t => P[e + 1] = IF v # 0 /\ bk = k THEN w ELSE 0
        /\ \A m \in 0..NumDigits : Ints(P, m)
        /\ w \in Int
    <2>1. scalar \in [Tids -> Scalars]
      BY <1>2 DEF Types
    <2>2. Weight[e] \in Nat /\ \A m \in 0..NumDigits : Ints(P, m)
      BY <1>5, <2>1, DigitPart
    <2>3. Part(scalar[t], k)[e + 1] = IF v # 0 /\ bk = k THEN w ELSE 0
      BY <1>5, <2>1, DigitPart
    <2>4. w \in Int
      BY <2>2
    <2> QED BY <2>2, <2>3, <2>4
  <1>8. /\ \A s \in Slots : items'[s] = IF v # 0 /\ s = s0 THEN new ELSE items[s]
        /\ count'[k] = IF v # 0 /\ bk = k THEN count[k] + 1 ELSE count[k]
        /\ count[k] \in Nat
    BY <1>1, <1>2 DEF Types
  <1>9. new \in Tids \X Digits \X BOOLEAN
        /\ ItemPoint(new)[u] = IF u = t THEN w ELSE 0
    <2>1. (v < 0) \in BOOLEAN
      OBVIOUS
    <2> DEFINE neg == v < 0
    <2>2. new = <<t, e, neg>> /\ w = IF neg THEN -Weight[e] ELSE Weight[e]
      OBVIOUS
    <2> HIDE DEF e, v, neg, new, w
    <2>3. new \in Tids \X Digits \X BOOLEAN /\ new[1] = t /\ new[2] = e /\ new[3] = neg
      BY <1>5, <2>1, <2>2 DEF neg
    <2>4. ItemPoint(new)[u] = IF u = new[1] THEN IF new[3] THEN -Weight[new[2]]
                                               ELSE Weight[new[2]] ELSE 0
      BY <2>3, ItemPointIs
    <2> QED BY <2>2, <2>3, <2>4
  <1>10. \A i \in Nat : g[i] = ItemPoint(items'[starts[k] + i - 1])[u]
    BY <1>1 DEF Held
  <1> HIDE DEF w, new, g, f, P, v, e, bk
  <1>11. ASSUME NEW i \in 1..N PROVE g[i] = f[i]
    <2> DEFINE s == starts[k] + i - 1
    <2>1. s \in Slots /\ s \in starts[k]..(count[k] - 1) /\ f[i] = ItemPoint(items[s])[u]
      BY <1>3
    <2>2. i \in Nat
      BY <1>3
    <2>3. ASSUME v # 0 PROVE s # s0
      <3>1. CASE k = bk
        BY <1>3, <1>8, <2>1, <3>1
      <3>2. CASE k # bk
        <4>1. /\ \A i1, j1 \in 0..NumBuckets : i1 <= j1 => starts[i1] <= starts[j1]
              /\ \A k1 \in Buckets : /\ k1 \in 0..NumBuckets /\ k1 + 1 \in 0..NumBuckets
                                     /\ count[k1] <= starts[k1 + 1]
              /\ \A k1 \in 0..NumBuckets : starts[k1] \in 0..NumItems
          BY <1>2, Layout
        <4>2. /\ bk \in Buckets /\ starts[bk] <= s0 /\ s0 < starts[bk + 1] /\ s0 \in Slots
          BY <1>4, <2>3
        <4>3. /\ bk \in Nat /\ k \in Nat /\ NumItems \in Nat
          BY <4>2, DigitsAssumption, PairsFinite DEF Buckets
        <4> HIDE DEF s, s0
        <4>4. CASE k < bk
          <5>1. starts[k + 1] <= starts[bk] /\ count[k] <= starts[k + 1]
            BY <4>1, <4>2, <4>3, <4>4
          <5>2. starts[k + 1] \in Nat /\ starts[bk] \in Nat /\ s < count[k] /\ s \in Nat
            BY <1>3, <1>8, <2>1, <4>1, <4>2, <4>3
          <5>3. s0 \in Nat
            BY <4>2, <4>3 DEF Slots
          <5> QED BY <1>8, <4>2, <5>1, <5>2, <5>3
        <4>5. CASE bk < k
          <5>1. starts[bk + 1] <= starts[k]
            BY <4>1, <4>2, <4>3, <4>5
          <5>2. starts[bk + 1] \in Nat /\ starts[k] <= s /\ s \in Nat
            BY <1>3, <1>8, <2>1, <4>1, <4>2, <4>3
          <5>3. s0 \in Nat
            BY <4>2, <4>3 DEF Slots
          <5> QED BY <1>3, <4>2, <5>1, <5>2, <5>3
        <4> QED BY <3>2, <4>3, <4>4, <4>5
      <3> QED BY <3>1, <3>2
    <2>4. items'[s] = items[s]
      BY <1>8, <2>1, <2>3
    <2> QED BY <1>10, <2>1, <2>2, <2>4
  <1>12. Sum(g, N) = Sum(f, N) /\ Ints(g, N)
    <2>1. \A i \in 1..N : g[i] = f[i]
      BY <1>11
    <2>2. Sum(g, N) = Sum(f, N)
      <3> HIDE DEF N
      <3> QED BY <1>3, <2>1, SumSame, Zenon
    <2> QED BY <1>3, <2>1, <2>2 DEF Ints
  <1>13. e + 1 \in Nat /\ e \in Nat /\ Ints(P, e + 1)
    <2>1. e \in Nat /\ e + 1 \in 0..NumDigits
      BY <1>5, DigitsAssumption DEF Digits
    <2> QED BY <1>7, <2>1
  <1>14. Sum(P, e) \in Int /\ Sum(P, e + 1) = Sum(P, e) + P[e + 1]
    BY <1>13, SumNext
  <1>15. CASE v # 0 /\ bk = k
    <2>1. count'[k] - starts'[k] = N + 1
      BY <1>1, <1>3, <1>8, <1>15
    <2>2. g[N + 1] = IF u = t THEN w ELSE 0
      <3>1. N + 1 \in Nat /\ starts[k] + (N + 1) - 1 = s0 /\ s0 \in Slots
        BY <1>3, <1>4, <1>8, <1>15
      <3>2. items'[s0] = new
        BY <1>8, <1>15, <3>1
      <3> QED BY <1>9, <1>10, <3>1, <3>2
    <2>3. Ints(g, N + 1)
      <3>1. g[N + 1] \in Int
        BY <1>7, <2>2
      <3>2. \A i \in 1..(N + 1) : i \in 1..N \/ i = N + 1
        BY <1>3
      <3> QED BY <1>12, <3>1, <3>2 DEF Ints
    <2>4. Sum(g, N) \in Int /\ Sum(g, N + 1) = Sum(g, N) + g[N + 1]
      <3> HIDE DEF N
      <3> QED BY <1>3, <2>3, SumNext
    <2>5. CASE u = t
      <3>1. Sum(g, N + 1) = Sum(P, e + 1)
        BY <1>5, <1>6, <1>7, <1>12, <1>14, <1>15, <2>2, <2>4, <2>5
      <3> QED BY <1>1, <1>5, <2>1, <2>5, <3>1 DEF g, P
    <2>6. CASE u # t
      <3>1. Sum(g, N + 1) = Sum(P, Reached(u))
        BY <1>6, <1>12, <2>2, <2>4, <2>6
      <3> QED BY <1>1, <1>5, <2>1, <2>6, <3>1 DEF g, P
    <2> QED BY <2>5, <2>6
  <1>16. CASE ~(v # 0 /\ bk = k)
    <2>1. count'[k] - starts'[k] = N
      BY <1>1, <1>8, <1>16
    <2>2. CASE u = t
      <3>1. Sum(P, e + 1) = Sum(P, e)
        BY <1>7, <1>14, <1>16, <2>2
      <3>2. Sum(g, N) = Sum(P, e + 1)
        BY <1>5, <1>6, <1>12, <2>2, <3>1
      <3> QED BY <1>1, <1>5, <2>1, <2>2, <3>2 DEF g, P
    <2>3. CASE u # t
      <3>1. Sum(g, N) = Sum(P, Reached(u))
        BY <1>6, <1>12
      <3> QED BY <1>1, <1>5, <2>1, <2>3, <3>1 DEF g, P
    <2> QED BY <2>2, <2>3
  <1> QED BY <1>15, <1>16

\* Steps that leave the slots and what has been scattered alone.
LEMMA ScatteredStays ==
  ASSUME Scattered, UNCHANGED <<scalar, count, starts, items>>, phase[0] >= 5,
         \A u \in Tids : Reached(u)' = Reached(u)
  PROVE  Scattered'
  <1> SUFFICES ASSUME NEW k \in Buckets, NEW u \in Tids
               PROVE  Sum(Held(k, u)', count'[k] - starts'[k])
                        = Sum(Part(scalar'[u], k), Reached(u)')
    BY Zenon DEF Scattered
  <1>1. Sum(Held(k, u), count[k] - starts[k]) = Sum(Part(scalar[u], k), Reached(u))
    BY Zenon DEF Scattered
  <1>2. Held(k, u)' = Held(k, u)
    BY DEF Held
  <1>3. count'[k] - starts'[k] = count[k] - starts[k]
    OBVIOUS
  <1>4. Part(scalar'[u], k) = Part(scalar[u], k)
    BY Zenon
  <1>5. Reached(u)' = Reached(u)
    OBVIOUS
  <1> QED BY <1>1, <1>2, <1>3, <1>4, <1>5, Zenon

\* Every step of the sort keeps the slots' sums.
LEMMA SortSums == ASSUME SInv, Scattered, SortNext \/ UNCHANGED sortVars PROVE Scattered'
  <1> USE First
  <1>1. Types /\ Barriers
    BY DEF SInv
  <1>2. \A u \in Tids : phase[u] \in 0..7
    BY <1>1 DEF Types
  <1>3. ASSUME UNCHANGED sortVars PROVE Scattered'
    <2>1. CASE phase[0] >= 5
      <3>1. \A u \in Tids : Reached(u)' = Reached(u)
        BY <1>3 DEF sortVars, Reached
      <3> QED BY <1>3, <2>1, <3>1, ScatteredStays DEF sortVars
    <2>2. CASE ~(phase[0] >= 5)
      <3>1. ~(phase'[0] >= 5)
        BY <1>3, <2>2 DEF sortVars
      <3> QED BY <3>1, Zenon DEF Scattered
    <2> QED BY <2>1, <2>2
  <1>4. ASSUME NEW t \in Tids, Clear(t) \/ Count(t) PROVE Scattered'
    <2>1. phase[t] \in {0, 2} /\ phase'[0] \in {phase[0], phase[0] + 1}
          /\ (t # 0 => phase'[0] = phase[0])
      BY <1>1, <1>4 DEF Clear, Count, NextDigit, Types
    <2>2. ~(phase[0] > 3)
      BY <1>2, <2>1, <1>1 DEF Barriers
    <2>3. ~(phase'[0] >= 5)
      BY <1>2, <2>1, <2>2
    <2> QED BY <2>3, Zenon DEF Scattered
  <1>5. ASSUME NEW t \in Tids, Cross(t) \/ Skip(t) PROVE Scattered'
    <2>1. /\ phase[t] \in {1, 3, 4, 5} /\ phase'[t] = phase[t] + 1
          /\ UNCHANGED <<scalar, count, starts, items>>
          /\ phase[t] = 5 => dd'[t] = 0
          /\ \A u \in Tids \ {t} : phase'[u] = phase[u] /\ dd'[u] = dd[u]
          /\ phase[t] = 4 => t # 0
      BY <1>1, <1>5 DEF Cross, Skip, Types
    <2>2. \A u \in Tids : Reached(u)' = Reached(u)
      <3>1. Reached(t)' = 0 /\ Reached(t) = 0
        BY <1>2, <2>1 DEF Reached
      <3>2. \A u \in Tids \ {t} : Reached(u)' = Reached(u)
        BY <2>1 DEF Reached
      <3> QED BY <3>1, <3>2
    <2>3. CASE phase[0] >= 5
      BY <2>1, <2>2, <2>3, ScatteredStays
    <2>4. CASE ~(phase[0] >= 5)
      <3>1. ~(phase'[0] >= 5)
        <4>1. t # 0 => phase'[0] = phase[0]
          BY <2>1
        <4>2. t = 0 => phase[0] \in {1, 3} /\ phase'[0] = phase[0] + 1
          BY <2>1, <2>4
        <4> QED BY <2>4, <4>1, <4>2
      <3> QED BY <3>1, Zenon DEF Scattered
    <2> QED BY <2>3, <2>4
  <1>6. ASSUME Order PROVE Scattered'
    <2>1. /\ phase[0] = 4 /\ phase'[0] = 5 /\ scalar' = scalar
          /\ starts' = Starts /\ count' = [k \in Buckets |-> Starts[k]]
          /\ \A u \in Tids \ {0} : phase'[u] = phase[u]
      BY <1>1, <1>6 DEF Order, Types
    <2>2. \A u \in Tids : ~(phase[u] > 5)
      BY <1>1, <1>2, <2>1 DEF Barriers
    <2>3. \A u \in Tids : phase'[u] < 6
      BY <1>2, <2>1, <2>2
    <2>4. \A u \in Tids : Reached(u)' = 0
      BY <2>3 DEF Reached
    <2>5. \A k \in Buckets : count'[k] - starts'[k] = 0
      <3>1. Starts \in [0..NumBuckets -> Nat]
        BY <1>1, StartsSteps DEF Types
      <3>2. \A k \in Buckets : k \in 0..NumBuckets
        BY DigitsAssumption DEF Buckets
      <3>3. \A k \in Buckets : Starts[k] \in Nat /\ count'[k] = Starts[k] /\ starts'[k] = Starts[k]
        BY <2>1, <3>1, <3>2
      <3> QED BY <3>3
    <2> SUFFICES ASSUME NEW k \in Buckets, NEW u \in Tids
                 PROVE  Sum(Held(k, u)', count'[k] - starts'[k])
                          = Sum(Part(scalar'[u], k), Reached(u)')
      BY Zenon DEF Scattered
    <2>6. Sum(Held(k, u)', 0) = 0
      BY SumNone
    <2>7. Sum(Part(scalar'[u], k), 0) = 0
      BY SumNone
    <2>8. count'[k] - starts'[k] = 0 /\ Reached(u)' = 0
      BY <2>4, <2>5
    <2> QED BY <2>6, <2>7, <2>8, Zenon
  <1>7. ASSUME NEW t \in Tids, Scatter(t) PROVE Scattered'
    BY <1>7, ScatterSums
  <1> QED BY <1>3, <1>4, <1>5, <1>6, <1>7 DEF SortNext

-----------------------------------------------------------------------------
(* The steps of the other kernels *)

\* What a thread adds up is what its bucket's slots hold.
LEMMA AccumulatedIs ==
  ASSUME SInv, Scattered, Sorted, NEW k \in Buckets
  PROVE  /\ Accumulated(k) \in Point
         /\ \A u \in Tids : Accumulated(k)[u] = Sum(Part(scalar[u], k), NumDigits)
  <1> DEFINE N == starts[k + 1] - starts[k]
             It(i) == ItemPoint(items[starts[k] + i - 1])
             G == [x \in (1..N) \X Point |-> Add(x[2], It(x[1]))]
             Step(h) == [i \in 0..N |-> IF i = 0 THEN Zero ELSE Add(h[i - 1], It(i))]
             r == CHOOSE h : h = Step(h)
  <1>1. phase[0] >= 5 /\ \A u \in Tids : phase[u] = 7
    BY First DEF Sorted
  <1>2. Types /\ Summed /\ Cursors
    BY DEF SInv
  <1>3. N = count[k] - starts[k]
    <2>1. count[k] = starts[k] + Cardinality(DoneOf(k, 6))
      BY <1>1, <1>2 DEF Cursors
    <2>2. DoneOf(k, 6) = Of(k)
      BY <1>1, DoneEverything
    <2>3. starts[k + 1] = starts[k] + Cardinality(Of(k))
      BY <1>1, <1>2, Layout
    <2>4. count[k] = starts[k + 1]
      BY <2>1, <2>2, <2>3, Zenon
    <2> QED BY <2>4
  <1>4. \A u \in Tids : /\ N \in Nat /\ Ints(Held(k, u), N)
                        /\ \A i \in 1..N :
                             /\ items[starts[k] + i - 1] \in Tids \X Digits \X BOOLEAN
                             /\ Held(k, u)[i] = It(i)[u]
    BY <1>1, <1>3, HeldInts
  <1>5. N \in Nat /\ \A i \in 1..N : It(i) \in Point
    BY <1>4, First, ItemPointIs
  <1>6. Accumulated(k) = r[N]
    BY DEF Accumulated
  <1> HIDE DEF It, N
  <1>7. G \in [(1..N) \X Point -> Point]
    <2>1. ASSUME NEW i \in 1..N, NEW p \in Point PROVE Add(p, It(i)) \in Point
      BY <1>5, PointSums
    <2> QED BY <2>1
  <1>8. Zero \in Point
    BY DEF Zero, Point
  <1>9. PICK f \in [0..N -> Point] : Follows(f, N, Zero, G)
    <2> HIDE DEF G
    <2> QED BY <1>5, <1>7, <1>8, Recursion, Zenon
  <1>10. f[0] = Zero /\ \A i \in 1..N : f[i] = Add(f[i - 1], It(i))
    <2>1. ASSUME NEW i \in 1..N PROVE f[i] = Add(f[i - 1], It(i))
      <3>1. i - 1 \in 0..N
        BY <1>5
      <3>2. f[i - 1] \in Point
        BY <3>1
      <3>3. G[<<i, f[i - 1]>>] = Add(f[i - 1], It(i))
        BY <3>2
      <3> QED BY <1>9, <3>3 DEF Follows
    <2> QED BY <1>9, <2>1 DEF Follows
  <1>11. f = Step(f)
    <2>1. ASSUME NEW i \in 0..N PROVE f[i] = IF i = 0 THEN Zero ELSE Add(f[i - 1], It(i))
      <3>1. i # 0 => i \in 1..N
        BY <1>5
      <3> QED BY <1>10, <3>1, Zenon
    <2> QED BY <2>1
  <1>12. r = Step(r)
    <2> HIDE DEF Step
    <2> QED BY <1>11
  <1> HIDE DEF r
  <1>13. \A i \in 0..N : r[i] = IF i = 0 THEN Zero ELSE Add(r[i - 1], It(i))
    BY <1>12
  <1> HIDE DEF Step, G
  <1>14. GoesOnAs(r, f, N)
    <2>1. r[0] = f[0]
      <3>1. 0 \in 0..N
        BY <1>5
      <3> QED BY <1>10, <1>13, <3>1
    <2>2. ASSUME NEW i \in 1..N, r[i - 1] = f[i - 1] PROVE r[i] = f[i]
      <3>1. i \in 0..N /\ i # 0
        BY <1>5
      <3>2. r[i] = Add(r[i - 1], It(i))
        BY <1>13, <3>1, Zenon
      <3> QED BY <1>10, <2>2, <3>2
    <2> QED BY <2>1, <2>2 DEF GoesOnAs
  <1>15. Accumulated(k) = f[N] /\ f[N] \in Point
    <2>1. N \in 0..N
      BY <1>5
    <2>2. \A i \in 0..N : r[i] = f[i]
      BY <1>5, <1>14, Agree, Zenon
    <2> QED BY <1>6, <2>1, <2>2
  <1>16. ASSUME NEW u \in Tids PROVE f[N][u] = Sum(Part(scalar[u], k), NumDigits)
    <2> DEFINE g == [i \in 0..N |-> f[i][u]]
               h == Held(k, u)
    <2>1. Ints(h, N) /\ \A i \in 1..N : h[i] = It(i)[u]
      BY <1>4
    <2>2. AddsUp(g, h, N)
      <3>1. g \in [0..N -> Int]
        BY DEF Point
      <3>2. g[0] = 0
        BY <1>5, <1>10 DEF Zero
      <3>3. ASSUME NEW i \in 1..N PROVE g[i] = g[i - 1] + h[i]
        <4>1. i - 1 \in 0..N /\ i \in 0..N
          BY <1>5
        <4>2. f[i] = Add(f[i - 1], It(i)) /\ f[i - 1] \in Point /\ It(i) \in Point
          BY <1>5, <1>10, <4>1
        <4>3. f[i][u] = f[i - 1][u] + It(i)[u]
          BY <4>2, Zenon DEF Add
        <4> QED BY <2>1, <4>1, <4>3
      <3> HIDE DEF g, h
      <3> QED BY <3>1, <3>2, <3>3 DEF AddsUp
    <2>3. g[N] = f[N][u]
      BY <1>5
    <2>4. Sum(h, N) = g[N]
      <3> HIDE DEF g, h
      <3> QED BY <1>5, <2>2, SumIs, Zenon
    <2>5. Sum(h, N) = Sum(Part(scalar[u], k), Reached(u))
      BY <1>1, <1>3 DEF Scattered
    <2>6. Reached(u) = NumDigits
      <3>1. phase[u] = 7 /\ ~(7 < 6) /\ 7 # 6
        BY <1>1
      <3> QED BY <3>1 DEF Reached
    <2> QED BY <2>3, <2>4, <2>5, <2>6
  <1> QED BY <1>15, <1>16

\* While the sort has a step to take nobody has added up a bucket.
LEMMA NotSorted == ASSUME Types, SortNext PROVE ~Sorted /\ scalar' = scalar
  <1> SUFFICES ~Sorted
    BY DEF SortNext, Order, Clear, Cross, Count, Skip, Scatter
  <1>1. CASE Order
    BY <1>1, First DEF Order, Sorted
  <1>2. ASSUME NEW t \in Tids, Clear(t) \/ Cross(t) \/ Count(t) \/ Skip(t) \/ Scatter(t)
        PROVE  ~Sorted
    <2>1. phase[t] # 7
      BY <1>2 DEF Clear, Cross, Count, Skip, Scatter
    <2> QED BY <2>1 DEF Sorted
  <1> QED BY <1>1, <1>2 DEF SortNext

\* Steps of the kernels that come before.
LEMMA TeamStays ==
  ASSUME Teamed, scalar' = scalar, UNCHANGED reduceVars,
         level >= 0 => added' = added /\ bucket' = bucket
  PROVE  Teamed'
  <1>1. lanes' = lanes /\ level' = level /\ lane' = lane /\ output' = output
    BY DEF reduceVars
  <1>2. /\ lanes' \in LaneCounts /\ level' \in Int /\ level' >= -1
        /\ lane' \in [0..(lanes' - 1) -> LaneState] /\ output' \in Point
        /\ level' >= 0 => added' = Buckets
    BY <1>1 DEF Teamed
  <1>3. ASSUME NEW K \in Nat, lanes' = 2 ^ K
        PROVE  /\ level' <= K + 1
               /\ level' \in 0..K => Heads(bucket', lanes', level', lane')
               /\ level' = K + 1 => output' = scalar'
    <2>1. /\ level <= K + 1
          /\ level \in 0..K => Heads(bucket, lanes, level, lane)
          /\ level = K + 1 => output = scalar
      BY <1>1, <1>3 DEF Teamed
    <2>2. level \in 0..K => bucket' = bucket
      OBVIOUS
    <2> QED BY <1>1, <2>1, <2>2
  <1> QED BY <1>2, <1>3, Zenon DEF Teamed

\* The exponent of a power of two is its own.
LEMMA OneExponent == ASSUME NEW K \in Nat, NEW L \in Nat, 2 ^ K = 2 ^ L PROVE K = L
  BY PowersBelow

\* A thread adds up a bucket.
LEMMA AccumulateKeeps == ASSUME MInv, NEW i \in Buckets, Accumulate(i) PROVE Filled' /\ Teamed'
  <1>1. /\ Sorted /\ i \notin added /\ bucket' = [bucket EXCEPT ![perm[i]] = Accumulated(perm[i])]
        /\ added' = added \cup {i} /\ UNCHANGED <<sortVars, reduceVars>>
    BY DEF Accumulate
  <1>2. SInv /\ Scattered /\ Filled /\ Teamed
    BY DEF MInv
  <1>3. UNCHANGED <<scalar, phase, perm>>
    BY <1>1 DEF sortVars
  <1>4. perm \in [Buckets -> Buckets] /\ scalar \in [Tids -> Scalars]
    BY <1>2 DEF SInv, Types
  <1> DEFINE k == perm[i]
             p == Accumulated(k)
  <1>5. k \in Buckets
    BY <1>4
  <1>6. p \in Point /\ \A u \in Tids : p[u] = Sum(Part(scalar[u], k), NumDigits)
    <2> HIDE DEF k
    <2> QED BY <1>1, <1>2, <1>5, AccumulatedIs
  <1>7. bucket \in [Buckets -> Point] /\ added \subseteq Buckets
    BY <1>2 DEF Filled
  <1>8. bucket' = [bucket EXCEPT ![k] = p]
    BY <1>1
  <1> HIDE DEF k, p
  <1>9. bucket' \in [Buckets -> Point] /\ added' \subseteq Buckets
    BY <1>1, <1>5, <1>6, <1>7, <1>8
  <1>10. Sorted'
    BY <1>1, <1>3 DEF Sorted
  <1>11. ASSUME NEW j \in added', NEW u \in Tids
         PROVE  bucket'[perm'[j]][u] = Sum(Part(scalar'[u], perm'[j]), NumDigits)
    <2>1. perm[j] \in Buckets
      BY <1>4, <1>9
    <2>2. CASE perm[j] = k
      <3>1. bucket'[perm[j]] = p
        BY <1>5, <1>7, <1>8, <2>2
      <3>2. p[u] = Sum(Part(scalar[u], perm[j]), NumDigits)
        BY <1>6, <2>2
      <3> QED BY <1>3, <3>1, <3>2
    <2>3. CASE perm[j] # k
      <3>1. bucket'[perm[j]] = bucket[perm[j]]
        BY <1>7, <1>8, <2>1, <2>3
      <3>2. j \in added
        BY <1>1, <2>3 DEF k
      <3>3. bucket[perm[j]][u] = Sum(Part(scalar[u], perm[j]), NumDigits)
        BY <1>2, <3>2 DEF Filled
      <3> QED BY <1>3, <3>1, <3>3
    <2> QED BY <2>2, <2>3
  <1>12. Filled'
    BY <1>9, <1>10, <1>11, Zenon DEF Filled
  <1>13. ~(level >= 0)
    BY <1>1, <1>2 DEF Teamed
  <1>14. Teamed'
    BY <1>1, <1>2, <1>3, <1>13, TeamStays
  <1> QED BY <1>12, <1>14

\* A step that touches neither the sort nor the buckets.
LEMMA FilledStays ==
  ASSUME Filled, UNCHANGED <<scalar, phase, perm, bucket, added>> PROVE Filled'
  <1>1. Sorted' <=> Sorted
    BY DEF Sorted
  <1> QED BY <1>1 DEF Filled

\* The lanes sum their slices.
LEMMA SumSlicesKeeps == ASSUME MInv, SumSlices PROVE Filled' /\ Teamed'
  <1>1. /\ added = Buckets /\ level = -1 /\ level' = 0
        /\ lane' = [pos \in 0..(lanes - 1) |-> Team!RunningSums(bucket, lanes, pos)]
        /\ UNCHANGED <<sortVars, bucket, added, lanes, output>>
    BY DEF SumSlices
  <1>2. Filled /\ Teamed
    BY DEF MInv
  <1>3. Filled'
    BY <1>1, <1>2, FilledStays DEF sortVars
  <1>4. lanes \in LaneCounts /\ bucket \in [Buckets -> Point] /\ output \in Point
    BY <1>2 DEF Filled, Teamed
  <1>5. lane' \in [0..(lanes - 1) -> LaneState] /\ Heads(bucket, lanes, 0, lane')
    <2> DEFINE ln == [pos \in 0..(lanes - 1) |-> Team!RunningSums(bucket, lanes, pos)]
    <2>1. ln \in [0..(lanes - 1) -> LaneState] /\ Heads(bucket, lanes, 0, ln)
      BY <1>4, LevelZero
    <2> QED BY <1>1, <2>1
  <1>6. ASSUME NEW K \in Nat, lanes' = 2 ^ K
        PROVE  /\ level' <= K + 1
               /\ level' \in 0..K => Heads(bucket', lanes', level', lane')
               /\ level' = K + 1 => output' = scalar'
    BY <1>1, <1>5
  <1>7. /\ lanes' \in LaneCounts /\ level' \in Int /\ level' >= -1
        /\ lane' \in [0..(lanes' - 1) -> LaneState] /\ output' \in Point
        /\ level' >= 0 => added' = Buckets
    BY <1>1, <1>4, <1>5
  <1>8. Teamed'
    BY <1>6, <1>7, Zenon DEF Teamed
  <1> QED BY <1>3, <1>8

\* The lanes shuffle, and combine what they have.
LEMMA ShuffleDownKeeps == ASSUME MInv, ShuffleDown PROVE Filled' /\ Teamed'
  <1>1. PICK x \in Foreign :
          lane' = Team!Combined(level, lanes, lane,
                                [s |-> [t \in Tids |-> x], rs |-> [t \in Tids |-> x],
                                 w |-> [t \in Tids |-> x]])
    BY DEF ShuffleDown
  <1>2. /\ level >= 0 /\ 2 ^ level < lanes /\ level' = level + 1
        /\ UNCHANGED <<sortVars, bucket, added, lanes, output>>
    BY DEF ShuffleDown
  <1>3. Filled /\ Teamed
    BY DEF MInv
  <1>4. Filled'
    BY <1>2, <1>3, FilledStays DEF sortVars
  <1> DEFINE p == [t \in Tids |-> x]
             foreign == [s |-> p, rs |-> p, w |-> p]
  <1>5. foreign \in LaneState
    <2>1. x \in Int
      BY MsmAssumption
    <2> QED BY <2>1 DEF LaneState, Point
  <1>6. lane' = Team!Combined(level, lanes, lane, foreign)
    BY <1>1
  <1> HIDE DEF p, foreign
  <1>7. /\ lanes \in LaneCounts /\ level \in Nat /\ bucket \in [Buckets -> Point]
        /\ lane \in [0..(lanes - 1) -> LaneState] /\ output \in Point /\ added = Buckets
    BY <1>2, <1>3 DEF Filled, Teamed
  <1>8. ASSUME NEW K \in Nat, lanes = 2 ^ K
        PROVE  /\ level < K /\ lane' \in [0..(lanes - 1) -> LaneState]
               /\ Heads(bucket, lanes, level + 1, lane')
    <2>1. level < K
      BY <1>2, <1>7, <1>8, PowersBelow
    <2>2. level \in 0..K
      BY <1>7, <2>1
    <2>3. Heads(bucket, lanes, level, lane)
      BY <1>3, <1>8, <2>2 DEF Teamed
    <2>4. /\ Team!Combined(level, lanes, lane, foreign) \in [0..(lanes - 1) -> LaneState]
          /\ Heads(bucket, lanes, level + 1, Team!Combined(level, lanes, lane, foreign))
      BY <1>2, <1>5, <1>7, <1>8, <2>3, LevelUp, Zenon
    <2> QED BY <1>6, <2>1, <2>4
  <1>9. PICK L \in 0..lanes : lanes = 2 ^ L
    BY <1>7, LaneCountIs
  <1>10. L \in Nat
    BY <1>9
  <1>11. lane' \in [0..(lanes - 1) -> LaneState]
    BY <1>8, <1>9, <1>10
  <1>12. ASSUME NEW K \in Nat, lanes' = 2 ^ K
         PROVE  /\ level' <= K + 1
                /\ level' \in 0..K => Heads(bucket', lanes', level', lane')
                /\ level' = K + 1 => output' = scalar'
    <2>1. lanes = 2 ^ K
      BY <1>2, <1>12
    <2>2. level < K /\ Heads(bucket, lanes, level + 1, lane')
      BY <1>8, <2>1
    <2> QED BY <1>2, <1>7, <2>2
  <1>13. /\ lanes' \in LaneCounts /\ level' \in Int /\ level' >= -1
         /\ lane' \in [0..(lanes' - 1) -> LaneState] /\ output' \in Point
         /\ level' >= 0 => added' = Buckets
    BY <1>2, <1>7, <1>11
  <1>14. Teamed'
    BY <1>12, <1>13, Zenon DEF Teamed
  <1> QED BY <1>4, <1>14

\* Lane 0 stores what all the buckets weigh, which is the scalars.
LEMMA StoreTotalKeeps == ASSUME MInv, StoreTotal PROVE Filled' /\ Teamed'
  <1>1. /\ level >= 0 /\ 2 ^ level = lanes /\ output' = Team!Total(lanes, lane[0])
        /\ level' = level + 1 /\ UNCHANGED <<sortVars, bucket, added, lanes, lane>>
    BY DEF StoreTotal
  <1>2. SInv /\ Filled /\ Teamed
    BY DEF MInv
  <1>3. Filled'
    BY <1>1, <1>2, FilledStays DEF sortVars
  <1>4. /\ lanes \in LaneCounts /\ level \in Nat /\ bucket \in [Buckets -> Point]
        /\ lane \in [0..(lanes - 1) -> LaneState] /\ added = Buckets /\ Sorted
    <2>1. level \in Nat /\ added = Buckets /\ Buckets # {}
      BY <1>1, <1>2, DigitsAssumption DEF Teamed, Buckets
    <2> QED BY <1>2, <2>1 DEF Filled, Teamed
  <1>5. Heads(bucket, lanes, level, lane)
    <2>1. level \in 0..level
      BY <1>4
    <2> QED BY <1>1, <1>2, <1>4, <2>1 DEF Teamed
  <1> DEFINE o == Team!Total(lanes, lane[0])
  <1>6. /\ o \in Point
        /\ \A u \in Tids : o[u] = Weighted(Column(bucket, u), 0, NumBuckets)
    BY <1>1, <1>4, <1>5, TotalIs, Zenon
  <1>7. {perm[i] : i \in Buckets} = Buckets
    BY <1>2, <1>4, First DEF SInv, Ordered, Ordering, Sorted
  <1>8. ASSUME NEW u \in Tids PROVE o[u] = scalar[u]
    <2>1. ASSUME NEW k \in Buckets
          PROVE  Column(bucket, u)[k] = Sum(Part(scalar[u], k), NumDigits)
      <3>1. PICK i \in Buckets : perm[i] = k
        BY <1>7
      <3>2. bucket[perm[i]][u] = Sum(Part(scalar[u], perm[i]), NumDigits)
        BY <1>2, <1>4 DEF Filled
      <3>3. Column(bucket, u)[k] = bucket[k][u]
        BY DEF Column
      <3> QED BY <3>1, <3>2, <3>3
    <2>2. scalar[u] \in 0..(Modulus - 1)
      <3>1. Scalars \subseteq 0..(Modulus - 1)
        BY SortAssumption, Zenon
      <3> QED BY <1>2, <3>1 DEF SInv, Types
    <2> DEFINE g == Column(bucket, u)
               s == scalar[u]
    <2>3. s \in 0..(Modulus - 1) /\ \A k \in Buckets : g[k] = Sum(Part(s, k), NumDigits)
      BY <2>1, <2>2
    <2>4. Weighted(g, 0, NumBuckets) = s
      <3> HIDE DEF g, s
      <3> QED BY <2>3, SharesAreScalar, Zenon
    <2> QED BY <1>6, <2>4
  <1> HIDE DEF o
  <1>9. o = scalar
    <2>1. o = [u \in Tids |-> o[u]] /\ scalar = [u \in Tids |-> scalar[u]]
      BY <1>2, <1>6 DEF Point, SInv, Types
    <2> QED BY <1>8, <2>1
  <1>10. output' = o /\ scalar' = scalar
    BY <1>1 DEF o, sortVars
  <1>11. ASSUME NEW K \in Nat, lanes' = 2 ^ K
         PROVE  /\ level' <= K + 1
                /\ level' \in 0..K => Heads(bucket', lanes', level', lane')
                /\ level' = K + 1 => output' = scalar'
    <2>1. level = K
      BY <1>1, <1>4, <1>11, OneExponent
    <2> QED BY <1>1, <1>9, <1>10, <2>1
  <1>12. /\ lanes' \in LaneCounts /\ level' \in Int /\ level' >= -1
         /\ lane' \in [0..(lanes' - 1) -> LaneState] /\ output' \in Point
         /\ level' >= 0 => added' = Buckets
    BY <1>1, <1>4, <1>6, <1>10
  <1>13. Teamed'
    BY <1>11, <1>12, Zenon DEF Teamed
  <1> QED BY <1>3, <1>13

\* No digit has been scattered and nothing added up when the kernels start.
LEMMA InitMInv == Init => MInv
  <1> SUFFICES ASSUME Init PROVE MInv
    OBVIOUS
  <1>1. SInv
    BY InitSInv
  <1>2. Scattered
    <2>1. ~(phase[0] >= 5)
      BY First DEF Init, SortInit
    <2> QED BY <2>1, Zenon DEF Scattered
  <1>3. Garbage \in Point /\ Zero \in Point
    BY SortAssumption DEF Garbage, Zero, Point
  <1>4. Filled
    BY <1>3 DEF Init, Filled
  <1>5. Teamed
    <2>1. lanes \in LaneCounts /\ level = -1 /\ output = Garbage
          /\ lane = [pos \in 0..(lanes - 1) |-> [s |-> Zero, rs |-> Zero, w |-> Zero]]
      BY DEF Init
    <2>2. lane \in [0..(lanes - 1) -> LaneState]
      BY <1>3, <2>1 DEF LaneState
    <2>3. \A K \in Nat : level <= K + 1 /\ ~(level \in 0..K) /\ level # K + 1
      BY <2>1
    <2> QED BY <1>3, <2>1, <2>2, <2>3 DEF Teamed
  <1> QED BY <1>1, <1>2, <1>4, <1>5 DEF MInv

\* Every step keeps all of it.
LEMMA MsmInductive == MInv /\ [Next]_vars => MInv'
  <1> SUFFICES ASSUME MInv, [Next]_vars PROVE MInv'
    OBVIOUS
  <1>1. SInv /\ Scattered /\ Filled /\ Teamed /\ Types
    BY DEF MInv, SInv
  <1>2. SInv'
    BY <1>1, SortInductive
  <1>3. Scattered'
    <2>1. SortNext \/ UNCHANGED sortVars
      BY DEF Next, Accumulate, SumSlices, ShuffleDown, StoreTotal, vars
    <2> QED BY <1>1, <2>1, SortSums
  <1>4. ASSUME SortNext, UNCHANGED <<bucket, added, reduceVars>> PROVE Filled' /\ Teamed'
    <2>1. ~Sorted /\ scalar' = scalar
      BY <1>1, <1>4, NotSorted
    <2>2. added = {}
      BY <1>1, <2>1 DEF Filled
    <2>3. Filled'
      BY <1>1, <1>4, <2>2 DEF Filled
    <2>4. Teamed'
      BY <1>1, <1>4, <2>1, TeamStays
    <2> QED BY <2>3, <2>4
  <1>5. ASSUME NEW i \in Buckets, Accumulate(i) PROVE Filled' /\ Teamed'
    BY <1>5, AccumulateKeeps
  <1>6. CASE SumSlices
    BY <1>2, <1>3, <1>6, SumSlicesKeeps DEF MInv
  <1>7. CASE ShuffleDown
    BY <1>2, <1>3, <1>7, ShuffleDownKeeps DEF MInv
  <1>8. CASE StoreTotal
    BY <1>2, <1>3, <1>8, StoreTotalKeeps DEF MInv
  <1>9. CASE UNCHANGED vars
    <2>1. UNCHANGED <<scalar, phase, perm, bucket, added>> /\ UNCHANGED reduceVars
      BY <1>9 DEF vars, sortVars
    <2>2. Filled' /\ Teamed'
      BY <1>1, <2>1, FilledStays, TeamStays
    <2> QED BY <1>2, <1>3, <2>2 DEF MInv
  <1> QED BY <1>2, <1>3, <1>4, <1>5, <1>6, <1>7, <1>8, <1>9 DEF Next, MInv

\* In every reachable state.
LEMMA MsmInvariance == Spec => []MInv
  BY InitMInv, MsmInductive, PTL DEF Spec

\* Once phase A has stored its output, it is the sum of the scalars times their points:
\* for any scalars below the modulus, digit base and number of digits, any number of
\* terms, any team of lanes, any order of the invocations and threads, and whatever the
\* shuffles past the end of the team return (k_phase_a_sort.comp, k_phase_a.comp,
\* k_bucket_reduce.comp, reduce_buckets of field.glsl.inc).
THEOREM MsmCorrect == Spec => []OutputIsMsm
  <1>1. MInv => OutputIsMsm
    <2> SUFFICES ASSUME MInv, level > 0, 2 ^ level > lanes PROVE output = scalar
      BY DEF OutputIsMsm
    <2>1. Teamed /\ lanes \in LaneCounts /\ level \in Nat
      BY DEF MInv, Teamed
    <2>2. PICK K \in 0..lanes : lanes = 2 ^ K
      BY <2>1, LaneCountIs
    <2>3. K \in Nat
      BY <2>2
    <2>4. level <= K + 1 /\ (level = K + 1 => output = scalar)
      BY <2>1, <2>2, <2>3 DEF Teamed
    <2>5. ~(level <= K)
      <3> SUFFICES ASSUME level <= K PROVE FALSE
        OBVIOUS
      <3>1. 2 ^ level <= 2 ^ K /\ 2 ^ level \in Nat /\ 2 ^ K \in Nat
        BY <2>1, <2>3, PowersBelow, PowersOfTwo
      <3> QED BY <2>2, <3>1
    <2>6. level = K + 1
      BY <2>1, <2>3, <2>4, <2>5
    <2> QED BY <2>4, <2>6
  <1> QED BY <1>1, MsmInvariance, PTL

\* Each kernel keeps to the types of the buffers it shares with the next, and the level
\* of the reduction to what its lanes allow.
THEOREM MsmTypeCorrect == Spec => []TypeOK
  <1>1. MInv /\ SortTypeOK => TypeOK
    <2> SUFFICES ASSUME MInv, SortTypeOK PROVE TypeOK
      OBVIOUS
    <2>1. Teamed /\ Filled /\ lanes \in LaneCounts /\ level \in Int /\ level >= -1
      BY DEF MInv, Teamed
    <2>2. PICK K \in 0..lanes : lanes = 2 ^ K
      BY <2>1, LaneCountIs
    <2>3. K \in Nat /\ lanes \in Nat
      BY <2>1, <2>2, MsmAssumption
    <2>4. level <= K + 1
      BY <2>1, <2>2, <2>3 DEF Teamed
    <2>5. level \in -1..(lanes + 1)
      BY <2>1, <2>2, <2>3, <2>4
    <2> QED BY <2>1, <2>5 DEF TypeOK, Teamed, Filled, LaneState
  <1> QED BY <1>1, MsmInvariance, SortTypeCorrect, PTL
=============================================================================
