------------------------------- MODULE Digits -------------------------------
(***************************************************************************)
(* The signed digits of a scalar, L_NUM_DIGITS of them in base             *)
(* 2^L_WINDOW_BITS (recode_digit in k_phase_a_sort.comp). A digit is in    *)
(* -L_NUM_BUCKETS + 1..L_NUM_BUCKETS, and one that is not zero falls in    *)
(* the bucket of its absolute value.                                       *)
(***************************************************************************)
EXTENDS Integers

CONSTANTS
  NumBuckets,   \* L_NUM_BUCKETS, half of the digit base
  NumDigits     \* L_NUM_DIGITS

Buckets == 0..(NumBuckets - 1)
Digits == 0..(NumDigits - 1)
Base == 2 * NumBuckets

ASSUME DigitsAssumption == NumBuckets \in Nat \ {0} /\ NumDigits \in Nat \ {0}

\* What a unit of each digit weighs: L_WINDOW_BITS doublings from one to the next.
Weight == LET w[d \in 0..NumDigits] == IF d = 0 THEN 1 ELSE Base * w[d - 1] IN w

\* A definition whose name ends in _word is a variant of the one that follows
\* it, with a bug the code could have had; no specification uses it.

OverHalf_inclusive(v) == v >= NumBuckets
OverHalf(v) == v > NumBuckets

\* One call of recode_digit on the scalar's next byte: the digit, what it carries into
\* the one that follows, and what is left of the scalar.
RecodeDigit(st) ==
  LET v == (st.rest % Base) + st.carry
      left == st.rest \div Base IN
  IF OverHalf(v) THEN [digit |-> v - Base, carry |-> 1, rest |-> left]
  ELSE [digit |-> v, carry |-> 0, rest |-> left]

\* The calls on the digits of s, ascending, with the carry threaded through.
Recoding(s) ==
  LET st[n \in 0..NumDigits] ==
        IF n = 0 THEN [digit |-> 0, carry |-> 0, rest |-> s] ELSE RecodeDigit(st[n - 1]) IN
  st
Recoded(s) == LET st == Recoding(s) IN [n \in 1..NumDigits |-> st[n].digit]

Abs(v) == IF v < 0 THEN -v ELSE v
=============================================================================
