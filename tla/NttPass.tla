------------------------------ MODULE NttPass ------------------------------
(***************************************************************************)
(* A four-step transform as the device runs it: two dispatches of          *)
(* k_ntt_pass.comp, configured by nttPass1 and nttPass2 (src/vkzg.cpp).    *)
(* The invocations of a workgroup load a sub-transform into shared memory, *)
(* run its radix-2 stages there and store it, with a barrier() before      *)
(* every stage and after the last one. k_build_circulant.comp does the     *)
(* same, in one dispatch, to the columns it makes of a polynomial.         *)
(*                                                                         *)
(* Workgroups of a dispatch share nothing they write and run one at a time *)
(* here; the pipeline barrier between the dispatches keeps them apart.     *)
(***************************************************************************)
EXTENDS Domain

CONSTANTS
  Transforms,     \* the transforms recorded, see Transform
  Width,          \* local_size_x of k_ntt_pass
  Inputs,         \* the arrays a run transforms
  Leftover        \* what shared memory and output buffers may hold at first

\* A transform of N = N1 * N2 elements, N1 = 2^logN1 and N2 = 2^logN2, with the
\* roots of bufRootsInv or bufRootsFwd, whose second pass multiplies by scale. Or
\* k_build_circulant, which is laid out as a second pass is: one workgroup for each
\* circulant, a shared array of Cells elements, and a result that is transposed.
Transform == [circulant : BOOLEAN, logN1 : 1..LogDomain, logN2 : 1..LogDomain,
              inverse : BOOLEAN, scale : Field]
BuildCirculant == [circulant |-> TRUE, logN1 |-> LogCellSize, logN2 |-> LogCells,
                   inverse |-> FALSE, scale |-> 1]

\* Circulants of 2 cells would have no coefficient: a polynomial has none but the
\* CellSize lowest then.
ASSUME NttAssumption ==
  /\ Transforms \subseteq Transform
  /\ Width \in Nat
  /\ \A x \in Transforms :
       \/ x = BuildCirculant /\ LogCells > 1
       \/ /\ ~x.circulant
          /\ x.logN1 + x.logN2 <= LogDomain
          /\ 2 ^ x.logN1 <= Width /\ 2 ^ x.logN2 <= Width
  /\ Leftover \in Field
  /\ Inputs \subseteq [Exponents -> Field]

\* A definition whose name ends in _word is a variant of the one that follows
\* it, with a bug the code could have had; the specification never uses it.

VARIABLES
  job,            \* the transform
  in, mid, out,   \* the buffers: of the first pass, handed over, of the second
  pass,           \* 1, 2, then 3 when the transform is complete
  group,          \* the workgroup that runs
  phase,          \* of each invocation; odd: at a barrier, or the end
  tile            \* shared memory

vars == <<job, in, mid, out, pass, group, phase, tile>>

N1 == 2 ^ job.logN1
N2 == 2 ^ job.logN2
N == N1 * N2
Elements == 0..(N - 1)
Invocations == 0..((IF job.circulant THEN Cells ELSE Width) - 1)

Roots == IF job.inverse THEN RootsInv ELSE RootsFwd

\* The push constants of the dispatch that runs.
Q == IF pass = 1 THEN Pass1(N, N1, N2) ELSE Pass2(N, N1, N2)
LogN == IF pass = 1 THEN job.logN1 ELSE job.logN2
ScaleOf(p) == IF p = 2 THEN job.scale ELSE 1

LastPhase == 2 * LogN + 2

FreshTile == [i \in Invocations |-> Leftover]

Init ==
  /\ job \in Transforms
  /\ in \in Inputs
  /\ mid = [e \in Exponents |-> Leftover]
  /\ out = [e \in Exponents |-> Leftover]
  /\ pass = IF job.circulant THEN 2 ELSE 1
  /\ group = 0
  /\ phase = [i \in Invocations |-> 0]
  /\ tile = FreshTile

-----------------------------------------------------------------------------

\* Invocations past n idle, but come to every barrier.
LoadSlot(tid) == Brev(tid, LogN)
Loaded(tid) == IF job.circulant THEN CirculantEntry(in, group, tid)
               ELSE IF pass = 1 THEN in[InAt(Q, group, tid)]
               ELSE mid[InAt(Q, group, tid)]

Load(tid) ==
  /\ pass < 3
  /\ phase[tid] = 0
  /\ tile' = IF tid < Q.n
             THEN [tile EXCEPT ![LoadSlot(tid)] = Loaded(tid)] ELSE tile
  /\ phase' = [phase EXCEPT ![tid] = 1]
  /\ UNCHANGED <<job, in, mid, out, pass, group>>

BarrierOpen_secondDropped(b) ==
  (b = 3 /\ ~job.circulant) \/ \A u \in Invocations : phase[u] >= b
BarrierOpen(b) == \A u \in Invocations : phase[u] >= b

Cross(tid) ==
  /\ pass < 3
  /\ phase[tid] % 2 = 1
  /\ phase[tid] < LastPhase
  /\ BarrierOpen(phase[tid])
  /\ phase' = [phase EXCEPT ![tid] = @ + 1]
  /\ UNCHANGED <<job, in, mid, out, pass, group, tile>>

\* Stage s combines pairs hlen apart; n / 2 invocations have one each.
Butterfly(tid) ==
  LET s == phase[tid] \div 2
      len == 2 ^ s
      hlen == len \div 2
      j == tid % hlen
      lo == (tid \div hlen) * len + j
      c == FrMul(tile[lo + hlen], Roots[j * (Q.n \div len) * Q.root]) IN
  /\ pass < 3
  /\ phase[tid] % 2 = 0
  /\ phase[tid] \in 2..(LastPhase - 1)
  /\ tile' = IF tid < Q.n \div 2
             THEN [tile EXCEPT ![lo] = FrAdd(@, c), ![lo + hlen] = FrSub(tile[lo], c)]
             ELSE tile
  /\ phase' = [phase EXCEPT ![tid] = @ + 1]
  /\ UNCHANGED <<job, in, mid, out, pass, group>>

Stored(tid) == FrMul(FrMul(tile[tid], Twiddle(Q, Roots, group, tid)), ScaleOf(pass))

Store(tid) ==
  /\ pass < 3
  /\ phase[tid] = LastPhase
  /\ LET o == OutAt(Q, group, tid) IN
       IF tid >= Q.n THEN UNCHANGED <<mid, out>>
       ELSE IF pass = 1 THEN mid' = [mid EXCEPT ![o] = Stored(tid)] /\ UNCHANGED out
       ELSE out' = [out EXCEPT ![o] = Stored(tid)] /\ UNCHANGED mid
  /\ phase' = [phase EXCEPT ![tid] = @ + 1]
  /\ UNCHANGED <<job, in, pass, group, tile>>

\* The next workgroup; after the last one of the first dispatch, the second.
NextGroup ==
  /\ pass < 3
  /\ \A tid \in Invocations : phase[tid] > LastPhase
  /\ IF group + 1 < Q.groups THEN group' = group + 1 /\ UNCHANGED pass
     ELSE group' = 0 /\ pass' = pass + 1
  /\ phase' = [tid \in Invocations |-> 0]
  /\ tile' = FreshTile
  /\ UNCHANGED <<job, in, mid, out>>

Next ==
  \/ NextGroup
  \/ \E tid \in Invocations : Load(tid) \/ Cross(tid) \/ Butterfly(tid) \/ Store(tid)

Spec == Init /\ [][Next]_vars

-----------------------------------------------------------------------------
(* Properties *)

TypeOK ==
  /\ job \in Transforms
  /\ in \in Inputs
  /\ mid \in [Exponents -> Field]
  /\ out \in [Exponents -> Field]
  /\ pass \in 1..3
  /\ group \in 0..(Q.groups - 1)
  /\ phase \in [Invocations -> 0..(LastPhase + 1)]
  /\ tile \in [Invocations -> Field]

\* Whatever the order the invocations run in between barriers, a dispatch leaves
\* in its buffer the transforms of size n of the groups, twiddled and scaled.
PassesTransformGroups == ~job.circulant =>
  /\ pass > 1 => \A e \in Elements :
       mid[e] = PassOf(Pass1(N, N1, N2), Roots, ScaleOf(1), in)[e]
  /\ pass > 2 => \A e \in Elements :
       out[e] = PassOf(Pass2(N, N1, N2), Roots, ScaleOf(2), mid)[e]

\* Strides, twiddles and the subsampling of a root table made for DomainSize fit
\* together: the two passes are the transform of size N, in natural order.
TransformIsDft == pass = 3 /\ ~job.circulant => \A k \in Elements :
  out[k] = FrMul(job.scale,
                 FrSum([j \in Elements |->
                          FrMul(in[j], Roots[((j * k) % N) * (DomainSize \div N)])], N))

\* coeffs[j][i] is entry j of the transform of circulant i, whose first column is
\* c_i[0] = poly[d - i], c_i[Cells - j] = poly[d - i - CellSize j]: all of the
\* polynomial's coefficients but the CellSize lowest, each in one place.
ColumnsTransformed == pass = 3 /\ job.circulant =>
  \A i \in 0..(CellSize - 1), j \in 0..(Cells - 1) :
    out[j * CellSize + i] =
      FrSum([t \in 0..(Cells \div 2 - 2) |->
               FrMul(in[BlobSize - 1 - i - t * CellSize],
                     Roots[((j * (Cells - t)) % Cells) * CellSize])], Cells \div 2 - 1)
=============================================================================
