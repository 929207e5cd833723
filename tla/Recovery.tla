------------------------------ MODULE Recovery ------------------------------
(***************************************************************************)
(* A cell recovery's commands (recoverBatch in src/vkzg.cpp): 22           *)
(* dispatches that recover the missing cells of a batch of blobs, with the *)
(* tables of the coset that the prover filled when it was made             *)
(* (populateCosetShiftTables). Passes runs them.                           *)
(*                                                                         *)
(* What a kernel computes is given by the algebra of Domain: NttPass and   *)
(* VanishingPoly model how the workgroups of two of them compute it.       *)
(***************************************************************************)
EXTENDS Dispatches

CONSTANTS
  LogN1,        \* recoverNtt's N1 = 2^LogN1, and N2 = DomainSize / N1
  Shift         \* FR_SHIFT7, the factor of the coset

\* The coset Shift^1 * <Root> does not meet the domain.
ASSUME RecoveryAssumption ==
  /\ LogN1 \in 1..(LogDomain - 1)
  /\ Shift \in 1..(P - 1) /\ FrPow(Shift, DomainSize) # 1

\* A definition whose name ends in _word is a variant of the one that follows
\* it, with a bug the code could have had; no specification uses it.

RecoverBuffers == {"bufRecMissing", "bufRecScratch", "bufRecBrp", "bufRecZCoeff",
                   "bufRecZEval", "bufRecEZEval", "bufRecEZCoeff", "bufRecShiftedA",
                   "bufRecCosetA", "bufRecCosetB", "bufRecPCoset", "bufRecPCoeffU",
                   "bufRecPCoeff", "bufRecPFull", "bufRecOut"}
CosetTables == {"bufCosetShiftFwd", "bufCosetShiftInv", "bufInvExtBlob"}

-----------------------------------------------------------------------------
(* The recorded commands *)

SetupCommands ==
  Dispatch("pow_seq", "bufCosetShiftFwd", "", "", 0) \o
  Dispatch("pow_seq", "bufCosetShiftInv", "", "", 1)

recoverNtt(out, in, roots) ==
  Ntt(out, "bufRecScratch", in, roots, LogN1, LogDomain - LogN1, 1)

recoverEwMul(out, a, b, mode) == Dispatch("ew_mul", out, a, b, mode)

\* Step 6 needs bufRecShiftedA twice, first for E*Z and then for Z.
CosetZ_unshifted == recoverNtt("bufRecCosetB", "bufRecZCoeff", "bufRootsFwd")
CosetZ == recoverNtt("bufRecCosetB", "bufRecShiftedA", "bufRootsFwd")

RecoverCommands ==
  Dispatch("cells_to_fr", "bufRecBrp", "bufRecScratch", "", "") \o
  Dispatch("vanishing_poly", "bufRecZCoeff", "bufRecMissing", "", "") \o
  recoverNtt("bufRecZEval", "bufRecZCoeff", "bufRootsFwd") \o
  recoverEwMul("bufRecEZEval", "bufRecBrp", "bufRecZEval", "batched") \o
  recoverNtt("bufRecEZCoeff", "bufRecEZEval", "bufRootsInv") \o
  recoverEwMul("bufRecEZCoeff", "bufRecEZCoeff", "bufInvExtBlob", "broadcast") \o
  recoverEwMul("bufRecShiftedA", "bufRecEZCoeff", "bufCosetShiftFwd", "shared") \o
  recoverNtt("bufRecCosetA", "bufRecShiftedA", "bufRootsFwd") \o
  recoverEwMul("bufRecShiftedA", "bufRecZCoeff", "bufCosetShiftFwd", "shared") \o
  CosetZ \o
  Dispatch("ew_div", "bufRecPCoset", "bufRecCosetA", "bufRecCosetB", "") \o
  recoverNtt("bufRecPCoeffU", "bufRecPCoset", "bufRootsInv") \o
  recoverEwMul("bufRecPCoeffU", "bufRecPCoeffU", "bufInvExtBlob", "broadcast") \o
  recoverEwMul("bufRecPCoeff", "bufRecPCoeffU", "bufCosetShiftInv", "shared") \o
  recoverNtt("bufRecPFull", "bufRecPCoeff", "bufRootsFwd") \o
  Dispatch("fr_to_cells", "bufRecOut", "bufRecPFull", "", "")

-----------------------------------------------------------------------------
(* The kernels *)

\* k_ew_mul's second operand for blob b.
Operand(d, buf, b) == CASE d.mode = "batched" -> buf[d.b][b]
                        [] d.mode = "shared" -> buf[d.b][0]
                        [] d.mode = "broadcast" -> [i \in Exponents |-> buf[d.b][0][0]]

\* FR_INV_SHIFT7 in mode 1.
PowSeq(mode) ==
  LET factor == IF mode = 0 THEN Shift ELSE FrInv(Shift) IN
  [i \in Exponents |-> FrPow(factor, i)]

\* Words that are not canonical are reduced: only k_blob_to_fr looks at that.
CellsToFr(words) == [i \in Exponents |-> words[Brev(i, LogDomain)] % P]
FrToCells(values) == [i \in Exponents |-> values[Brev(i, LogDomain)]]
EwMul(x, operand) == [i \in Exponents |-> FrMul(x[i], operand[i])]
EwDiv(x, y) == [i \in Exponents |-> FrMul(x[i], FrInv(y[i]))]

\* What dispatch d makes of blob b.
RecoverKernel(d, buf, b) ==
  LET x == buf[d.a][b] IN
  CASE d.kernel = "cells_to_fr" -> CellsToFr(x)
    [] d.kernel = "fr_to_cells" -> FrToCells(x)
    [] d.kernel = "vanishing_poly" -> Spread(Short(x))
    [] d.kernel = "ew_mul" -> EwMul(x, Operand(d, buf, b))
    [] d.kernel = "ew_div" -> EwDiv(x, buf[d.b][b])
    [] d.kernel \in {"ntt1", "ntt2"} -> NttKernel(d, buf, b)

-----------------------------------------------------------------------------
(* What is recovered *)

\* The cells of a polynomial, in wire order.
CellsOf(p) == [e \in Exponents |-> ValueAt(p, Brev(e, LogDomain))]
=============================================================================
