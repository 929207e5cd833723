---------------------------- MODULE VanishingPoly ----------------------------
(***************************************************************************)
(* The polynomial Z of cell recovery: recoverBatch lists the missing cells *)
(* of a blob (src/vkzg.cpp) and one workgroup per blob of                  *)
(* k_vanishing_poly.comp builds from the list a polynomial that is zero    *)
(* where those cells' elements are, and nowhere else on the domain.        *)
(*                                                                         *)
(* A write to the output (a storage buffer) is performed some time after   *)
(* its invocation has issued it: the barrier() of the kernel, in           *)
(* shader_source.h an OpControlBarrier with semantics AcquireRelease |     *)
(* WorkgroupMemory, waits for the invocations and orders their accesses to *)
(* shared memory, not those to storage buffers.                            *)
(***************************************************************************)
EXTENDS Domain

CONSTANTS
  ZWidth,          \* invocations of the workgroup
  BufferOrdered,   \* TRUE on a device whose barrier orders buffer writes too
  Stale,           \* the field elements an earlier blob may have left
  None             \* no write issued

ZInvocations == 0..(ZWidth - 1)

ASSUME VanishingAssumption ==
  /\ P > DomainSize
  /\ ZWidth \in Nat \ {0}
  /\ BufferOrdered \in BOOLEAN
  /\ Stale \subseteq Field
  /\ None \notin Field

VARIABLES
  gone,      \* the blob's missing cells, by their position in the call
  pc,        \* where each invocation is
  issued,    \* buffer writes issued by an invocation and not yet performed
  zCoeff     \* the blob's slice of bufRecZCoeff

zVars == <<gone, pc, issued, zCoeff>>

-----------------------------------------------------------------------------
(* The workgroup *)

Nothing == [e \in Exponents |-> None]

\* The slots a coefficient may be stored to. The others have one writer and no
\* reader, so that it does not matter when a write to them is performed.
Contended == {e \in Exponents : e % CellSize = 0 /\ e \div CellSize <= Cells \div 2}

\* At most half of the cells are missing, or recoverBatch returns before.
ZInit ==
  /\ gone \in {g \in SUBSET (0..(Cells - 1)) : Cardinality(g) <= Cells \div 2}
  /\ pc = [t \in ZInvocations |-> "zero"]
  /\ issued = [t \in ZInvocations |-> Nothing]
  /\ zCoeff \in {[e \in Exponents |-> x] : x \in Stale}

\* An invocation's stride through the slice.
Strided(t) == {e \in Exponents : e % ZWidth = t}

ZeroSlice(t) ==
  /\ pc[t] = "zero"
  /\ issued' = [issued EXCEPT ![t] = [e \in Exponents |->
                  IF e \in Strided(t) \cap Contended THEN 0 ELSE @[e]]]
  /\ zCoeff' = [e \in Exponents |-> IF e \in Strided(t) \ Contended THEN 0 ELSE zCoeff[e]]
  /\ pc' = [pc EXCEPT ![t] = "barrier"]
  /\ UNCHANGED gone

Barrier ==
  /\ \A t \in ZInvocations : pc[t] = "barrier"
  /\ BufferOrdered => \A t \in ZInvocations : issued[t] = Nothing
  /\ pc' = [t \in ZInvocations |-> IF t = 0 THEN "build" ELSE "done"]
  /\ UNCHANGED <<gone, issued, zCoeff>>

\* Invocation 0 spreads the coefficients to every CellSize-th slot.
Build ==
  /\ pc[0] = "build"
  /\ LET sp == Short(MissingList(gone)) IN
       issued' = [issued EXCEPT ![0] = [e \in Exponents |->
         IF e % CellSize = 0 /\ e \div CellSize < Len(sp)
         THEN Spread(sp)[e] ELSE @[e]]]
  /\ pc' = [pc EXCEPT ![0] = "done"]
  /\ UNCHANGED <<gone, zCoeff>>

\* The memory system performs one issued write.
Perform(t) ==
  \E e \in Exponents :
    /\ issued[t][e] # None
    /\ zCoeff' = [zCoeff EXCEPT ![e] = issued[t][e]]
    /\ issued' = [issued EXCEPT ![t][e] = None]
    /\ UNCHANGED <<gone, pc>>

\* The pipeline barrier after the dispatch waits for all of it.
Complete == \A t \in ZInvocations : pc[t] = "done" /\ issued[t] = Nothing

ZNext == Barrier \/ Build \/ \E t \in ZInvocations : ZeroSlice(t) \/ Perform(t)

ZSpec == ZInit /\ [][ZNext]_zVars

-----------------------------------------------------------------------------
(* Properties *)

ZTypeOK ==
  /\ gone \subseteq 0..(Cells - 1)
  /\ pc \in [ZInvocations -> {"zero", "barrier", "build", "done"}]
  /\ issued \in [ZInvocations -> [Exponents -> Field \cup {None}]]
  /\ zCoeff \in [Exponents -> Field]

\* "vanishes on every missing cell" (k_vanishing_poly.comp:1-2), and on no
\* other: the division by Z on the coset would lose what Z erased in excess.
OutputIsZ == Complete =>
  \A e \in Exponents :
    (ValueAt(zCoeff, e) = 0) <=> (CellAt(e) \in gone)
=============================================================================
