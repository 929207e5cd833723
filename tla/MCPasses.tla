------------------------------ MODULE MCPasses ------------------------------
(***************************************************************************)
(* Passes with 8 cells of 2 elements over the scalars modulo 97, which is  *)
(* the order of the curve y^2 = x^3 + 5 modulo 103.                        *)
(***************************************************************************)
EXTENDS Passes

LadderInversions == <<3, 5, 6>>
ProofInversions == <<3, 8, 8>>

Monomial(k) == [e \in BlobExponents |-> IF e = k THEN 1 ELSE 0]
Dense == [e \in BlobExponents |-> (5 * e + 3) % P]
Zeros == [e \in BlobExponents |-> 0]

\* A blob's words: the values of a polynomial, or all but one of them.
WordsOf(poly) == [i \in BlobExponents |-> CellsOf(poly)[i]]
WithWord(i, w) == [WordsOf(Dense) EXCEPT ![i] = w]

Prove(words) == [kind |-> "prove", words |-> words]

\* v, or a word that is v modulo P but past it.
Past(v, multiple) == IF v + P * multiple < Fr!Capacity THEN v + P * multiple ELSE v + P
Canonical == [e \in Exponents |-> 0]
Uneven == [e \in Exponents |-> e % 3]

\* What stands in the slots of missing cells: the same word in all of them, or words
\* that differ, of which half are not canonical.
Same(w) == [e \in Exponents |-> w]
Scattered == [e \in Exponents |-> (37 * e + 11) % Fr!Capacity]
Junk == {Same(w) : w \in {0, P - 1, P, Fr!Capacity - 1}} \cup {Scattered}

\* The cells of a polynomial in their slots.
InSlots(poly, gone, junk, multiples) ==
  [e \in Exponents |->
     IF e \div CellSize \in gone THEN junk[e] ELSE Past(CellsOf(poly)[e], multiples[e])]

Recover(polys, gone, junk, multiples) ==
  [kind |-> "recover", polys |-> polys, gone |-> gone,
   cells |-> [b \in DOMAIN polys |-> InSlots(polys[b], gone[b], junk, multiples)]]

\* The monomials have proofs at infinity and, in neighbouring cells, equal or
\* opposite ones; together with one that has all coefficients, since all but
\* the curve's exceptional cases is linear, they decide.
Words == {WordsOf(Monomial(k)) : k \in BlobExponents} \cup {Zeros, WordsOf(Dense)}
NotCanonical == {WithWord(i, w) : i \in {0, 3, 7}, w \in {P - 1, P, Fr!Capacity - 1}}

UpToHalf == {g \in SUBSET (0..(Cells - 1)) : Cardinality(g) <= Half}
Mirrored(g) == {Cells - 1 - c : c \in g}

\* A recovery and a batch that is refused leave their values behind for
\* the call that follows.
First == {Recover(<<Dense, Monomial(3)>>, <<{0, 5}, {1}>>, Scattered, Canonical)}
Second == {Prove(<<WordsOf(Dense), WithWord(2, P + 1)>>)}
Third ==
  {Prove(<<w>>) : w \in Words \cup NotCanonical}
  \cup {Prove(<<w, v>>) : w \in Words, v \in {WordsOf(Monomial(5)), WithWord(4, P)}}
  \cup {Recover(<<Monomial(k), Dense>>, <<g, Mirrored(g)>>, junk, Uneven) :
          k \in {2, 7}, g \in UpToHalf, junk \in {Scattered, Same(P), Same(Fr!Capacity - 1)}}
  \cup {Recover(<<Monomial(k)>>, <<{1, 4, 6}>>, Same(7), Canonical) : k \in BlobExponents}
  \cup {Recover(<<Dense>>, <<{0, 3, 7}>>, junk, m) : junk \in Junk, m \in {Canonical, Uneven}}
CallsConsidered == <<First, Second, Third>>
=============================================================================
