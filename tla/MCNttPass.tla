----------------------------- MODULE MCNttPass -----------------------------
(***************************************************************************)
(* NttPass over the 16 roots of unity modulo 17: transforms of the whole   *)
(* domain, both ways, and of half of it, N1 = 2 * N2; and the circulants   *)
(* of 8 cells of 2. A pass is linear in its input, so that the unit arrays *)
(* decide; a dense array is added.                                         *)
(***************************************************************************)
EXTENDS NttPass

WholeHalfAndCirculants == {
  [circulant |-> FALSE, logN1 |-> 2, logN2 |-> 2, inverse |-> FALSE, scale |-> 1],
  [circulant |-> FALSE, logN1 |-> 2, logN2 |-> 1, inverse |-> FALSE, scale |-> 1],
  [circulant |-> FALSE, logN1 |-> 2, logN2 |-> 2, inverse |-> TRUE, scale |-> FrInv(16)],
  [circulant |-> FALSE, logN1 |-> 2, logN2 |-> 1, inverse |-> TRUE, scale |-> FrInv(8)],
  BuildCirculant}

Unit(j) == [e \in Exponents |-> IF e = j THEN 1 ELSE 0]
UnitsAndDense == {Unit(j) : j \in Exponents} \cup {[e \in Exponents |-> (3 * e + 2) % P]}
=============================================================================
