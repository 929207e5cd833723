------------------------------- MODULE Domain -------------------------------
(***************************************************************************)
(* The algebra the scalar kernels share (src/shaders, src/vkzg.cpp): the   *)
(* scalar field, the domain of roots of unity and its coset, bit reversal, *)
(* the passes of a four-step transform and the vanishing polynomial.       *)
(*                                                                         *)
(* The field is that of the residues modulo a small prime P instead of r;  *)
(* an element is itself, not its Montgomery form, which fr_from_canonical  *)
(* enters and fr_to_canonical leaves. A domain of DomainSize elements is   *)
(* cut in Cells cells of CellSize elements, and a polynomial is a function *)
(* from exponents to coefficients.                                         *)
(***************************************************************************)
EXTENDS Integers, FiniteSets, Sequences

CONSTANTS
  P,               \* a prime
  Root,            \* of multiplicative order DomainSize modulo P
  LogCells,        \* Cells = 2^LogCells, L_CIRCULANT_SIZE
  LogCellSize      \* CellSize = 2^LogCellSize, L_FIELD_ELEMENTS_PER_CELL

Cells == 2 ^ LogCells
CellSize == 2 ^ LogCellSize
LogDomain == LogCells + LogCellSize
DomainSize == Cells * CellSize
Exponents == 0..(DomainSize - 1)
BlobSize == DomainSize \div 2
BlobExponents == 0..(BlobSize - 1)
Field == 0..(P - 1)

\* A definition whose name ends in _word is a variant of the one that follows
\* it, with a bug the code could have had; no specification uses it.

-----------------------------------------------------------------------------
(* The field *)

FrAdd_unreduced(a, b) == a + b
FrAdd(a, b) == (a + b) % P
FrSub(a, b) == (a - b) % P
FrMul(a, b) == (a * b) % P
FrNeg_borrowKept(a) == 0 - a
FrNeg(a) == FrSub(0, a)

FrPow(a, n) ==
  LET power[m \in 0..n] ==
        IF m = 0 THEN 1
        ELSE LET half == power[m \div 2]
                 square == FrMul(half, half) IN
             IF m % 2 = 0 THEN square ELSE FrMul(square, a) IN power[n]

\* a^(P-2): the inverse, and 0 for 0. A tuple, which TLC fills once.
Inverses == <<>> \o [a \in 1..(P - 1) |-> FrPow(a, P - 2)]
FrInv(a) == IF a = 0 THEN 0 ELSE Inverses[a]

\* f[0] + ... + f[n - 1].
FrSum(f, n) ==
  LET sum[i \in 0..n] == IF i = 0 THEN 0 ELSE FrAdd(sum[i - 1], f[i - 1]) IN sum[n]

ASSUME DomainAssumption ==
  /\ P \in Nat /\ P > 2 /\ \A a \in 1..(P - 1) : FrMul(a, FrInv(a)) = 1
  /\ LogCells \in Nat \ {0} /\ LogCellSize \in Nat
  /\ Root \in Field
  /\ \A e \in 1..DomainSize : FrPow(Root, e) = 1 <=> e = DomainSize

-----------------------------------------------------------------------------
(* The domain *)

\* Value of the low `bits` bits of i, reversed.
Brev(i, bits) ==
  LET rev[b \in 0..bits] ==
        IF b = 0 THEN 0 ELSE 2 * rev[b - 1] + ((i \div 2 ^ (b - 1)) % 2) IN rev[bits]

\* Root^0, Root^1, ...: a tuple, which TLC fills once.
RootPowers == <<>> \o [n \in 1..DomainSize |-> FrPow(Root, n - 1)]

\* bufRootsFwd and bufRootsInv.
RootsFwd == [e \in Exponents |-> RootPowers[e + 1]]
RootsInv == [e \in Exponents |-> RootPowers[((DomainSize - e) % DomainSize) + 1]]

\* The value of a polynomial at Root^e.
ValueAt(poly, e) ==
  FrSum([i \in DOMAIN poly |-> FrMul(poly[i], RootPowers[((i * e) % DomainSize) + 1])],
        Cardinality(DOMAIN poly))

-----------------------------------------------------------------------------
(* Four-step transforms, N = N1 * N2: two passes of groups that each transform *)
(* the n elements found at a stride of each other.                           *)

Pass1(N, N1, N2) ==
  [n |-> N1, groups |-> N2, in_t |-> 1, in_i |-> N2, out_t |-> 1, out_i |-> N2,
   root |-> DomainSize \div N1, twiddle |-> DomainSize \div N, full_n |-> N]

Pass2(N, N1, N2) ==
  [n |-> N2, groups |-> N1, in_t |-> N2, in_i |-> 1, out_t |-> 1, out_i |-> N1,
   root |-> DomainSize \div N2, twiddle |-> 0, full_n |-> N]

\* Where group t of pass q finds, and stores, its i-th element.
InAt(q, t, i) == t * q.in_t + i * q.in_i
OutAt(q, t, i) == t * q.out_t + i * q.out_i

\* The factor between the passes, and the scale some transforms end with.
Twiddle_halfTable(q, roots, t, i) ==
  IF q.twiddle = 0 THEN 1 ELSE roots[(t * i) % q.full_n]
Twiddle(q, roots, t, i) ==
  IF q.twiddle = 0 THEN 1 ELSE roots[((t * i) % q.full_n) * q.twiddle]

\* What pass q makes of an array.
PassOf(q, roots, scale, in) ==
  [e \in 0..(q.full_n - 1) |->
     LET t == e % q.groups
         i == e \div q.groups IN
     FrMul(FrMul(scale, Twiddle(q, roots, t, i)),
           FrSum([j \in 0..(q.n - 1) |->
                    FrMul(in[InAt(q, t, j)], roots[((i * j) % q.n) * q.root])], q.n))]

-----------------------------------------------------------------------------
(* The vanishing polynomial of the missing cells *)

BrevCell_natural(i) == i
BrevCell(i) == Brev(i, LogCells)

\* bufRecMissing: the missing cells in increasing order, each bit-reversed.
MissingList(gone) ==
  LET list[i \in 0..Cells] ==
        IF i = 0 THEN <<>>
        ELSE IF i - 1 \in gone THEN Append(list[i - 1], BrevCell(i - 1))
        ELSE list[i - 1] IN list[Cells]

NegRoot(r) == FrNeg(RootsFwd[r * CellSize])

\* sp times (x - r), the leading coefficient of both left implicit.
TimesLinear(sp, r) ==
  LET i == Len(sp) IN
  [j \in 1..(i + 1) |->
     CASE j = i + 1 -> FrAdd(NegRoot(r), sp[i])
       [] j = 1 -> FrMul(sp[1], NegRoot(r))
       [] OTHER -> FrAdd(FrMul(sp[j], NegRoot(r)), sp[j - 1])]

LeadingOne(sp) == Append(sp, 1)

\* The "short" polynomial, lowest coefficient first: the product of the x - r.
Short(list) ==
  LET short[i \in 1..Len(list)] ==
        IF i = 1 THEN <<NegRoot(list[1])>> ELSE TimesLinear(short[i - 1], list[i]) IN
  IF list = <<>> THEN <<1>> ELSE LeadingOne(short[Len(list)])

\* Its coefficients, spread to every CellSize-th slot.
Spread(sp) == [e \in Exponents |->
  IF e % CellSize = 0 /\ e \div CellSize < Len(sp) THEN sp[(e \div CellSize) + 1] ELSE 0]

\* Element i of a blob's cells, in wire order, is the value at Root^Brev(i).
CellAt(e) == Brev(e, LogDomain) \div CellSize

-----------------------------------------------------------------------------
(* The circulants of a polynomial *)

\* Entry tid of circulant i's first column (k_build_circulant.comp).
CirculantEntry_from1(poly, i, tid) ==
  IF tid = 0 THEN poly[BlobSize - 1 - i]
  ELSE IF tid >= Cells \div 2 + 1 THEN poly[BlobSize - 1 - i - (Cells - tid) * CellSize]
  ELSE 0
CirculantEntry(poly, i, tid) ==
  IF tid = 0 THEN poly[BlobSize - 1 - i]
  ELSE IF tid >= Cells \div 2 + 2 THEN poly[BlobSize - 1 - i - (Cells - tid) * CellSize]
  ELSE 0

\* Its transform, of size Cells.
CirculantAt(poly, roots, i, j) ==
  FrSum([t \in 0..(Cells - 1) |->
           FrMul(CirculantEntry(poly, i, t), roots[((j * t) % Cells) * CellSize])], Cells)
=============================================================================
