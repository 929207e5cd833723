------------------------------- MODULE Limbs -------------------------------
(***************************************************************************)
(* The modular arithmetic of field.glsl.inc, limb by limb. The shaders     *)
(* have it twice, for Fp (fp_add, fp_mul, ...) and for Fr (fr_add, ...),   *)
(* which differ in the number of limbs and in the modulus.                 *)
(*                                                                         *)
(* An element is a number below Capacity, what its limbs hold; reduced, it *)
(* is below Modulus. It stands for itself divided by Capacity, its         *)
(* Montgomery form.                                                        *)
(***************************************************************************)
EXTENDS Integers, Sequences

CONSTANTS
  Word,      \* 2^32: a limb is below it
  NLimbs,    \* FP_NLIMBS
  Modulus,   \* FP_P
  N0         \* FP_N0: minus the inverse of Modulus, modulo Word

\* What limb n + 1 counts for.
LimbWeight[n \in 0..NLimbs] == IF n = 0 THEN 1 ELSE Word * LimbWeight[n - 1]

Capacity == LimbWeight[NLimbs]
Index == 1..NLimbs

\* What a use of this module assumes of the constants: "p has room in the top limb, so
\* the sum never overflows."
LimbsAssumption ==
  /\ Word \in Nat /\ Word > 1 /\ NLimbs \in Nat \ {0}
  /\ Modulus \in Nat /\ Modulus > 2 /\ 2 * Modulus <= Capacity
  /\ N0 \in 0..(Word - 1) /\ (N0 * Modulus + 1) % Word = 0

\* A definition whose name ends in _word is a variant of the one that follows
\* it, with a bug the code could have had; no specification uses it.

\* Limbs, the lowest first.
ToLimbs(x) == [i \in Index |-> (x \div LimbWeight[i - 1]) % Word]
ValueOf(limbs) ==
  LET low[n \in 0..NLimbs] == IF n = 0 THEN 0 ELSE low[n - 1] + limbs[n] * LimbWeight[n - 1] IN
  low[NLimbs]
ModulusLimbs == ToLimbs(Modulus)

\* One word of a 64-bit accumulator, and what it carries.
Low(s) == s % Word
High(s) == (s \div Word) % Word

-----------------------------------------------------------------------------
(* Sums and differences *)

\* The carry, or the borrow, out of limb n goes into the next.
AddLimbs(a, b) ==
  LET carry[n \in 0..NLimbs] == IF n = 0 THEN 0 ELSE High(a[n] + b[n] + carry[n - 1]) IN
  [i \in Index |-> Low(a[i] + b[i] + carry[i - 1])]

SubLimbs(a, b) ==
  LET borrow[n \in 0..NLimbs] ==
        IF n > 0 /\ a[n] - b[n] - borrow[n - 1] < 0 THEN 1 ELSE 0 IN
  [limbs |-> [i \in Index |-> Low(a[i] - b[i] - borrow[i - 1])], borrow |-> borrow[NLimbs]]

\* t, given by NLimbs limbs and one above, less the modulus unless t is below it.
Chosen(t, less) == IF t[NLimbs + 1] < less.borrow THEN SubSeq(t, 1, NLimbs) ELSE less.limbs
ReducedOnce_never(t) == SubSeq(t, 1, NLimbs)
ReducedOnce(t) == Chosen(t, SubLimbs(SubSeq(t, 1, NLimbs), ModulusLimbs))

Add(a, b) == ValueOf(ReducedOnce(AddLimbs(ToLimbs(a), ToLimbs(b)) \o <<0>>))

\* The modulus is added back under a mask.
Unmasked(d) ==
  AddLimbs(d.limbs, IF d.borrow # 0 THEN ModulusLimbs ELSE ToLimbs(0))
Sub(a, b) == ValueOf(Unmasked(SubLimbs(ToLimbs(a), ToLimbs(b))))

-----------------------------------------------------------------------------
(* The product, a * b / Capacity: CIOS *)

\* t, of NLimbs + 2 limbs, plus a times the limb y.
PlusTimes(t, a, y) ==
  LET carry[n \in 0..NLimbs] == IF n = 0 THEN 0 ELSE High(a[n] * y + t[n] + carry[n - 1])
      s == t[NLimbs + 1] + carry[NLimbs] IN
  [j \in Index |-> Low(a[j] * y + t[j] + carry[j - 1])] \o <<Low(s), High(s)>>

\* t plus the multiple of the modulus that clears its low limb, which is dropped.
Dropped(row, top) ==
  Tail(SubSeq(row, 1, NLimbs + 1)) \o <<Low(top + row[NLimbs + 2]), 0>>
ShiftedDown(t) == Dropped(PlusTimes(t, ModulusLimbs, Low(t[1] * N0)), t[NLimbs + 2])

MulLimbs(a, b) ==
  LET t[n \in 0..NLimbs] == IF n = 0 THEN [i \in 1..(NLimbs + 2) |-> 0]
                            ELSE ShiftedDown(PlusTimes(t[n - 1], a, b[n])) IN
  ReducedOnce(t[NLimbs])

Mul(a, b) == ValueOf(MulLimbs(ToLimbs(a), ToLimbs(b)))

-----------------------------------------------------------------------------
(* What is made of them *)

\* FP_R and FR_R2, from which gen_constants.py makes the forms of constants.
One == Capacity % Modulus
Squared == (One * One) % Modulus

ToCanonical(a) == Mul(a, 1)
FromCanonical(a) == Mul(a, Squared)

\* Limbs are compared from the top.
IsCanonical_inclusive(a) == a <= Modulus
IsCanonical(a) == a < Modulus
IsLexLargest(canonical) == canonical > (Modulus - 1) \div 2
=============================================================================
