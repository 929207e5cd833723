------------------------------- MODULE Curve -------------------------------
(***************************************************************************)
(* The points of y^2 = x^3 + b (field.glsl.inc): Jacobian coordinates      *)
(* <<x, y, z>>, where z = 0 is the point at infinity, and affine ones      *)
(* <<x, y>>, where <<0, 0>> is. Coordinates are in Montgomery form; the    *)
(* limbs below them are those of Limbs.                                    *)
(***************************************************************************)
EXTENDS Integers, Sequences

CONSTANTS
  Q,            \* the field's modulus, FP_P
  Word, NLimbs, \* the limbs of its elements
  N0,           \* FP_N0
  GenX, GenY    \* a point of prime order, not in Montgomery form

Fp == INSTANCE Limbs WITH Modulus <- Q

ASSUME CurveAssumption ==
  /\ GenX \in 0..(Q - 1) /\ GenY \in 1..(Q - 1)

\* A definition whose name ends in _word is a variant of the one that follows
\* it, with a bug the code could have had; no specification uses it.

\* The operations of Fp as tables, tuples of tuples, which TLC fills once.
Residues == 1..Fp!Capacity
SumTable == <<>> \o [a \in Residues |-> <<>> \o [b \in Residues |-> Fp!Add(a - 1, b - 1)]]
DifferenceTable ==
  <<>> \o [a \in Residues |-> <<>> \o [b \in Residues |-> Fp!Sub(a - 1, b - 1)]]
ProductTable ==
  <<>> \o [a \in Residues |-> <<>> \o [b \in Residues |-> Fp!Mul(a - 1, b - 1)]]

fp_add(a, b) == SumTable[a + 1][b + 1]
fp_sub(a, b) == DifferenceTable[a + 1][b + 1]
fp_mul(a, b) == ProductTable[a + 1][b + 1]
fp_sqr(a) == fp_mul(a, a)
fp_dbl(a) == fp_add(a, a)
fp_neg(a) == IF a = 0 THEN a ELSE fp_sub(0, a)
fp_one == Fp!One

TimesIf(bit, square, a) == IF bit THEN fp_mul(square, a) ELSE square

\* a^e, the bits of e taken from the highest.
fp_pow(a, e) ==
  LET power[n \in 1..e] ==
        IF n = 1 THEN a ELSE TimesIf(n % 2 = 1, fp_sqr(power[n \div 2]), a) IN power[e]

\* 0 for 0.
fp_inv(a) == fp_pow(a, Q - 2)

-----------------------------------------------------------------------------

g1_identity == <<0, fp_one, 0>>
g1a_identity == <<0, 0>>

\* dbl-2009-l, from its intermediate D and E and 8 C.
DoubledFrom(p, D, E, C8) ==
  LET x == fp_sub(fp_sqr(E), fp_dbl(D)) IN
  <<x, fp_sub(fp_mul(E, fp_sub(D, x)), C8), fp_dbl(fp_mul(p[2], p[3]))>>

g1_dbl(p) ==
  LET A == fp_sqr(p[1])
      B == fp_sqr(p[2])
      C == fp_sqr(B) IN
  IF p[3] = 0 THEN p
  ELSE DoubledFrom(p, fp_dbl(fp_sub(fp_sub(fp_sqr(fp_add(p[1], B)), A), C)),
                   fp_add(fp_dbl(A), A), fp_dbl(fp_dbl(fp_dbl(C))))

\* What g1_add (add-2007-bl) and g1_madd (madd-2007-bl) have in common: u1, u2 and
\* s1, s2 are the coordinates on a common denominator, z the sum's third.
Chord_dblMissed(a, u1, u2, s1, s2, i, z) ==
  LET j == fp_mul(fp_sub(u2, u1), i)
      k == fp_dbl(fp_sub(s2, s1))
      v == fp_mul(u1, i)
      x == fp_sub(fp_sub(fp_sqr(k), j), fp_dbl(v)) IN
  <<x, fp_sub(fp_mul(k, fp_sub(v, x)), fp_dbl(fp_mul(s1, j))), z>>
Chord(a, u1, u2, s1, s2, i, z) ==
  LET j == fp_mul(fp_sub(u2, u1), i)
      k == fp_dbl(fp_sub(s2, s1))
      v == fp_mul(u1, i)
      x == fp_sub(fp_sub(fp_sqr(k), j), fp_dbl(v)) IN
  IF u1 = u2 THEN IF s1 = s2 THEN g1_dbl(a) ELSE g1_identity
  ELSE <<x, fp_sub(fp_mul(k, fp_sub(v, x)), fp_dbl(fp_mul(s1, j))), z>>

g1_add(a, b) ==
  LET z1z1 == fp_sqr(a[3])
      z2z2 == fp_sqr(b[3])
      u1 == fp_mul(a[1], z2z2)
      u2 == fp_mul(b[1], z1z1)
      h == fp_sub(u2, u1) IN
  IF a[3] = 0 THEN b
  ELSE IF b[3] = 0 THEN a
  ELSE Chord(a, u1, u2, fp_mul(a[2], fp_mul(b[3], z2z2)), fp_mul(b[2], fp_mul(a[3], z1z1)),
             fp_sqr(fp_dbl(h)),
             fp_mul(fp_sub(fp_sub(fp_sqr(fp_add(a[3], b[3])), z1z1), z2z2), h))

\* b is affine.
g1_madd(a, b) ==
  LET z1z1 == fp_sqr(a[3])
      u2 == fp_mul(b[1], z1z1)
      h == fp_sub(u2, a[1]) IN
  IF b = g1a_identity THEN a
  ELSE IF a[3] = 0 THEN <<b[1], b[2], fp_one>>
  ELSE Chord(a, a[1], u2, a[2], fp_mul(b[2], fp_mul(a[3], z1z1)),
             fp_dbl(fp_dbl(fp_sqr(h))),
             fp_sub(fp_sub(fp_sqr(fp_add(a[3], h)), z1z1), fp_sqr(h)))

g1_neg(p) == <<p[1], fp_neg(p[2]), p[3]>>

-----------------------------------------------------------------------------
(* Affine points, from the definition of the group: what the tables hold, and *)
(* what the outputs are compared with.                                      *)

Plain(n) == n % Q
PlainInv(a) == CHOOSE x \in 1..(Q - 1) : Plain(a * x) = 1

Infinity == <<>>

\* The sum of two plain affine points.
PlainSum(p, q) ==
  IF p = Infinity THEN q
  ELSE IF q = Infinity THEN p
  ELSE IF p[1] = q[1] /\ Plain(p[2] + q[2]) = 0 THEN Infinity
  ELSE LET slope == IF p = q THEN Plain(3 * p[1] * p[1] * PlainInv(Plain(2 * p[2])))
                    ELSE Plain((q[2] - p[2]) * PlainInv(Plain(q[1] - p[1])))
           x == Plain(slope * slope - p[1] - q[1]) IN
       <<x, Plain(slope * (p[1] - x) - p[2])>>

\* The multiples of the generator.
Multiples(order) ==
  LET f[n \in 0..(order - 1)] ==
        IF n = 0 THEN Infinity
        ELSE LET twice == PlainSum(f[n \div 2], f[n \div 2]) IN
             IF n % 2 = 0 THEN twice ELSE PlainSum(twice, <<GenX, GenY>>) IN f

ToAffine(p) == IF p = Infinity THEN g1a_identity
               ELSE <<Fp!FromCanonical(p[1]), Fp!FromCanonical(p[2])>>
=============================================================================
