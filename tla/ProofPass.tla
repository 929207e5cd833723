----------------------------- MODULE ProofPass -----------------------------
(***************************************************************************)
(* The commands of a proof computation (computeBatch in src/vkzg.cpp): 15  *)
(* dispatches that make the proofs of all cells of a batch of blobs out of *)
(* the blobs' bytes. Passes runs them.                                     *)
(*                                                                         *)
(* The scalars are those of Domain, and the group is the curve's, whose    *)
(* order is P. Msm and NttPass model how the invocations of three of the   *)
(* kernels share their work; here a kernel does it in one fixed order.     *)
(***************************************************************************)
EXTENDS Dispatches, Digits, Curve, SequencesExt

CONSTANTS
  LogM1,           \* the blob's transform is of 2^LogM1 by BlobSize / 2^LogM1
  ReduceLanes,     \* L_REDUCE_LANES
  Subgroup,        \* local_size_x of k_bucket_reduce
  CoreThreshold,   \* kWorkgroupsPerCoreThreshold
  GpuTotalCores,   \* gpuTotalCores, 0 when unknown
  LadderChunks,    \* <<floor, ceiling, threads>> for the ladder's inversions
  ProofChunks,     \* the same for the proofs'
  Tau,             \* the secret of the trusted setup
  FrN0             \* FR_N0

Half == Cells \div 2
Circulants == 0..(Cells - 1)

Fr == INSTANCE Limbs WITH Modulus <- P, N0 <- FrN0
Team == INSTANCE BucketReduce WITH Zero <- g1_identity, Add <- g1_add, Dbl <- g1_dbl

\* Both fields fit in their limbs and scalars in the digits there are, and Tau is not
\* in the domain.
ASSUME ProofAssumption ==
  /\ Fp!LimbsAssumption /\ Fr!LimbsAssumption
  /\ LogM1 \in 1..(LogDomain - 2)
  /\ P <= NumBuckets * Weight[NumDigits - 1]
  /\ ReduceLanes \in Nat \ {0} /\ Subgroup \in Nat /\ Subgroup % (2 * ReduceLanes) = 0
  /\ CoreThreshold \in Nat /\ GpuTotalCores \in Nat
  /\ LadderChunks \in Seq(Nat \ {0}) /\ ProofChunks \in Seq(Nat \ {0})
  /\ Tau \in Field /\ FrPow(Tau, DomainSize) # 1

\* A definition whose name ends in _word is a variant of the one that follows
\* it, with a bug the code could have had; no specification uses it.

ProofBuffers == {"bufBlob", "bufErr", "bufLagrange", "bufWorkA", "bufPolyExt", "bufCoeffs",
                 "bufItems", "bufBuckets", "bufPoints", "bufLadderJac", "bufLadderJacFolded",
                 "bufLadderAff", "bufProofs", "bufProofsAff", "bufProofBytes"}
SetupTables == {"bufRootsFwd", "bufRootsInv", "bufTable",
                "bufKernelItemsPlus", "bufKernelItemsMinus"}

-----------------------------------------------------------------------------
(* The recorded commands *)

ProofCommands ==
  Dispatch("blob_to_fr", "bufLagrange", "bufBlob", "", "") \o
  Ntt("bufPolyExt", "bufWorkA", "bufLagrange", "bufRootsInv",
      LogM1, LogDomain - 1 - LogM1, FrInv(BlobSize % P)) \o
  Dispatch("build_circulant", "bufCoeffs", "bufPolyExt", "bufRootsFwd", "") \o
  Dispatch("phase_a_sort", "bufItems", "bufCoeffs", "", "") \o
  Dispatch("phase_a", "bufBuckets", "bufItems", "bufTable", "") \o
  Dispatch("bucket_reduce", "bufPoints", "bufBuckets", "", "") \o
  Dispatch("ladder", "bufLadderJac", "bufPoints", "", "") \o
  Dispatch("fold_ladder", "bufLadderJacFolded", "bufLadderJac", "", "") \o
  Dispatch("normalize", "bufLadderAff", "bufLadderJacFolded", "", LadderChunks) \o
  Dispatch("phase_b_split", "bufBuckets", "bufLadderAff", "", "") \o
  Dispatch("bucket_reduce", "bufPoints", "bufBuckets", "", "") \o
  Dispatch("combine_split", "bufProofs", "bufPoints", "", "") \o
  Dispatch("normalize", "bufProofsAff", "bufProofs", "", ProofChunks) \o
  Dispatch("compress_proofs", "bufProofBytes", "bufProofsAff", "", "")

useLatencyReduce(count, batch) ==
  /\ GpuTotalCores # 0
  /\ ((ReduceLanes * count) \div Subgroup) * batch < CoreThreshold * GpuTotalCores

inversionChunk(count, floorCeilThreads) ==
  LET chunk == count \div floorCeilThreads[3]
      raised == IF chunk < floorCeilThreads[1] THEN floorCeilThreads[1] ELSE chunk IN
  IF raised > floorCeilThreads[2] THEN floorCeilThreads[2] ELSE raised

-----------------------------------------------------------------------------
(* Scalars *)

\* The blob's words are evaluations, in bit-reversed order.
Lagrange(words) ==
  [i \in BlobExponents |-> Fr!ToCanonical(Fr!FromCanonical(words[Brev(i, LogDomain - 1)]))]
AllCanonical(words) == \A i \in BlobExponents : Fr!IsCanonical(words[i])

\* coeffs[j][i]
BuildCirculant(poly, roots) ==
  [j \in Circulants |-> [i \in 0..(CellSize - 1) |-> CirculantAt(poly, roots, i, j)]]

-----------------------------------------------------------------------------
(* Points *)

\* The digits of scalars, by bucket, as items <<term, position, digit>>. The table
\* generator gives the taps of phase B the same form.
ItemsByBucket(scalars) ==
  LET all == {<<i, d, Recoded(scalars[i])[d + 1]>> : i \in DOMAIN scalars, d \in Digits} IN
  [k \in Buckets |-> SetToSeq({x \in all : Abs(x[3]) = k + 1})]

Signed(point, negative) == IF negative THEN <<point[1], fp_neg(point[2])>> ELSE point

\* A bucket's points, added up.
Accumulated(points) ==
  LET acc[n \in 0..Len(points)] ==
        IF n = 0 THEN g1_identity ELSE g1_madd(acc[n - 1], points[n]) IN acc[Len(points)]

PhaseA(items, table) ==
  [j \in Circulants |-> [k \in Buckets |->
     Accumulated([n \in DOMAIN items[j][k] |->
       LET x == items[j][k][n] IN Signed(table[j][x[1]][x[2]], x[3] < 0)])]]

BucketReduce(buckets, lanes) == [j \in Circulants |-> Team!Reduced(buckets[j], lanes)]

WindowBits == CHOOSE n \in 1..Base : 2 ^ n = Base

\* L[j][d] is 2^(L_WINDOW_BITS d) times u[j]; one array, as in memory.
Rungs == 0..(Cells * NumDigits - 1)
Rung(j, d) == j * NumDigits + d
Ladder(u) ==
  [r \in Rungs |->
     LET acc[s \in 0..(WindowBits * (r % NumDigits))] ==
           IF s = 0 THEN u[r \div NumDigits] ELSE g1_dbl(acc[s - 1]) IN
     acc[WindowBits * (r % NumDigits)]]

\* The sums of two halves, then their differences.
Butterfly(points, half) ==
  [r \in DOMAIN points |->
     g1_add(points[r % half], IF r < half THEN points[r + half] ELSE g1_neg(points[r]))]

\* The positions of the two halves of the split convolution.
FoldLadder(ladder) == Butterfly(ladder, Half * NumDigits)

\* A tap that rotates past index 0 to reach output aa is negated in the second half.
Wraps_never(a, e) == FALSE
Wraps(a, e) == a >= Half /\ e > a % Half

PhaseBSplit(ladder, plus, minus) ==
  [a \in Circulants |->
     LET first == IF a >= Half THEN Half ELSE 0
         items == IF a >= Half THEN minus ELSE plus IN
     [k \in Buckets |-> Accumulated([n \in DOMAIN items[k] |->
        LET x == items[k][n]
            p == ladder[Rung(first + ((a - x[1]) % Half), x[2])] IN
        Signed(Signed(p, x[3] < 0), Wraps(a, x[1]))])]]

CombineSplit(reduced) == Butterfly(reduced, Half)

-----------------------------------------------------------------------------
(* k_normalize: each thread inverts the product of its chunk's z, those of *)
(* points at infinity left out, and gets each inverse back from it.        *)

Times_infinityToo(z, acc) == fp_mul(acc, z)
Times(z, acc) == IF z = 0 THEN acc ELSE fp_mul(acc, z)

Scaled(p, zinv) ==
  <<fp_mul(p[1], fp_sqr(zinv)), fp_mul(p[2], fp_mul(fp_sqr(zinv), zinv))>>

\* Point i, of count points in chunks of chunk.
Normalized(points, count, chunk, i) ==
  LET lo == (i \div chunk) * chunk
      hi == Min({lo + chunk, count})
      before[n \in lo..hi] == IF n = lo THEN fp_one ELSE Times(points[n - 1][3], before[n - 1])
      inverse[n \in lo..hi] == IF n = hi THEN fp_inv(before[hi])
                               ELSE Times(points[n][3], inverse[n + 1])
      zinv == fp_mul(before[i], inverse[i + 1]) IN
  IF points[i][3] = 0 THEN g1a_identity ELSE Scaled(points[i], zinv)

\* Blob b's points, among those of the whole batch, one blob's after the other's.
Normalize(jacobian, batch, chunks, b) ==
  LET n == Cardinality(DOMAIN jacobian[b])
      all == [i \in 0..(batch * n - 1) |-> jacobian[i \div n][i % n]]
      chunk == inversionChunk(batch * n, chunks) IN
  [i \in DOMAIN jacobian[b] |-> Normalized(all, batch * n, chunk, b * n + i)]

\* The compressed form: x and the sign of y.
CompressProofs(affine) ==
  [c \in Circulants |->
     LET p == affine[Brev(c, LogCells)] IN
     IF p = g1a_identity THEN Infinity
     ELSE <<Fp!ToCanonical(p[1]), Fp!IsLexLargest(Fp!ToCanonical(p[2]))>>]

-----------------------------------------------------------------------------

\* What dispatch d makes of blob b of a batch.
ProofKernel(d, buf, batch, b) ==
  LET x == buf[d.a][b]
      lanes == IF useLatencyReduce(Cells, batch) THEN 2 * ReduceLanes ELSE ReduceLanes IN
  CASE d.kernel = "blob_to_fr" -> Lagrange(x)
    [] d.kernel \in {"ntt1", "ntt2"} -> NttKernel(d, buf, b)
    [] d.kernel = "build_circulant" -> BuildCirculant(x, buf[d.b][0])
    [] d.kernel = "phase_a_sort" -> [j \in Circulants |-> ItemsByBucket(x[j])]
    [] d.kernel = "phase_a" -> PhaseA(x, buf[d.b][0])
    [] d.kernel = "bucket_reduce" -> BucketReduce(x, lanes)
    [] d.kernel = "ladder" -> Ladder(x)
    [] d.kernel = "fold_ladder" -> FoldLadder(x)
    [] d.kernel = "normalize" -> Normalize(buf[d.a], batch, d.mode, b)
    [] d.kernel = "phase_b_split" ->
         PhaseBSplit(x, buf["bufKernelItemsPlus"][0], buf["bufKernelItemsMinus"][0])
    [] d.kernel = "combine_split" -> CombineSplit(x)
    [] d.kernel = "compress_proofs" -> CompressProofs(x)

-----------------------------------------------------------------------------
(* What the tables hold: made by a generator that is not in the repository, *)
(* from the setup <<1, Tau, Tau^2, ...>> times the generator of the group.  *)

Powers == Multiples(P)

\* The points FK20 transforms for circulant i, by their multiples.
Setup(i, t) ==
  IF t < Half - 1 THEN FrPow(Tau, BlobSize - CellSize - 1 - i - CellSize * t) ELSE 0
SetupAt(i, j) ==
  FrSum([t \in Circulants |-> FrMul(Setup(i, t), FrPow(Root, (j * t * CellSize) % DomainSize))],
        Cells)

PositionTable ==
  [j \in Circulants |-> [i \in 0..(CellSize - 1) |-> [d \in Digits |->
     ToAffine(Powers[FrMul(FrPow(Base % P, d), SetupAt(i, j))])]]]

\* The convolution's kernel, which undoes the transform, cuts its result in half
\* and transforms it again.
Tap(e) ==
  FrMul(FrInv(Cells % P),
        FrSum([t \in 0..(Half - 1) |-> FrPow(Root, (e * t * CellSize) % DomainSize)], Half))
TapPlus ==
  [e \in 0..(Half - 1) |-> FrMul(FrAdd(Tap(e), Tap(e + Half)), FrInv(2))]
TapMinus ==
  [e \in 0..(Half - 1) |-> FrMul(FrSub(Tap(e), Tap(e + Half)), FrInv(2))]

-----------------------------------------------------------------------------
(* What is computed *)

\* A blob's polynomial, from its values.
InterpolatedFrom(words) ==
  [k \in BlobExponents |->
     FrMul(FrInv(BlobSize % P),
           FrSum([i \in BlobExponents |->
                    FrMul(words[Brev(i, LogDomain - 1)] % P,
                          FrPow(Root, (DomainSize - 2 * ((i * k) % BlobSize))))],
                 BlobSize))]

\* A cell is the values where x^CellSize is shift. Its proof commits to the quotient
\* of the polynomial by x^CellSize - shift, that is, to what the polynomial less its
\* remainder is at Tau, over what the divisor is there.
ProofExponent(poly, cell) ==
  LET shift == FrPow(Root, BrevCell(cell) * CellSize)
      difference == FrSum([k \in BlobExponents |->
          FrMul(poly[k], FrSub(FrPow(Tau, k),
                               FrMul(FrPow(shift, k \div CellSize), FrPow(Tau, k % CellSize))))],
        BlobSize) IN
  FrMul(difference, FrInv(FrSub(FrPow(Tau, CellSize), shift)))

Compressed(point) ==
  IF point = Infinity THEN point ELSE <<point[1], 2 * point[2] > Q>>
=============================================================================
