---------------------------- MODULE KernelProofs ----------------------------
(***************************************************************************)
(* Theorems about the kernels that compute with scalars: the workgroups,   *)
(* for any domain, any number of invocations and any order they run in     *)
(* between the barriers; and the limbs.                                    *)
(*                                                                         *)
(* Of VanishingPoly, on devices whose barrier orders buffer writes: the    *)
(* polynomial that is stored is zero on the elements of the missing cells  *)
(* and nowhere else on the domain.                                         *)
(*                                                                         *)
(* Of NttPass, for transforms of any size: each pass leaves the transforms *)
(* of its groups; the two passes are the transform of the whole; and       *)
(* k_build_circulant leaves those of the columns it makes. DomainProofs    *)
(* has the algebra. Here it is shown that no invocation reads a slot of    *)
(* shared memory before the stage it needs is written to it, nor after.    *)
(*                                                                         *)
(* Of Limbs, for any size and number of words and any modulus that leaves  *)
(* the top bit free: sums, differences and products of elements in         *)
(* Montgomery form are the forms of those of the numbers, and the entry to *)
(* that form and the exit from it are right for whatever words there are.  *)
(***************************************************************************)
EXTENDS VanishingPoly, NttPass, Limbs, DomainProofs, SequenceTheorems

-----------------------------------------------------------------------------
(* The workgroup *)

\* What is to be stored.
Z == Spread(Short(MissingList(gone)))

\* No more cells are missing than recoverBatch allows.
Half == Cardinality(gone) <= Cells \div 2

\* Z is zero on the elements of the missing cells and nowhere else.
LEMMA ZIs ==
  ASSUME ZTypeOK, Half
  PROVE  /\ Z \in [Exponents -> Field]
         /\ \A e \in Exponents : ValueAt(Z, e) = 0 <=> CellAt(e) \in gone
  <1>1. gone \subseteq 0..(Cells - 1) /\ Cardinality(gone) <= Cells \div 2
    BY DEF ZTypeOK, Half
  <1> QED BY <1>1, VanishesOnMissing DEF Z

\* There is an invocation 0, and every slot is in the stride of some invocation.
LEMMA Workgroup ==
  /\ 0 \in ZInvocations /\ 0 \in Field /\ None \notin Field /\ None # 0
  /\ \A e \in Exponents : e % ZWidth \in ZInvocations /\ e \in Strided(e % ZWidth)
  <1>1. ZWidth \in Nat \ {0} /\ None \notin Field
    BY VanishingAssumption
  <1>2. 0 \in ZInvocations /\ 0 \in Field
    BY <1>1, Closed DEF ZInvocations
  <1>3. ASSUME NEW e \in Exponents PROVE e % ZWidth \in ZInvocations /\ e \in Strided(e % ZWidth)
    <2>1. e \in Nat
      BY Sizes DEF Exponents
    <2>2. e % ZWidth \in 0..(ZWidth - 1)
      BY <1>1, <2>1, Division
    <2> QED BY <2>2 DEF ZInvocations, Strided
  <1> QED BY <1>1, <1>2, <1>3

\* The types hold, and half of the cells are there, when the workgroup starts.
LEMMA TypeInit == ZInit => ZTypeOK /\ Half
  <1> SUFFICES ASSUME ZInit PROVE ZTypeOK /\ Half
    OBVIOUS
  <1>1. gone \subseteq 0..(Cells - 1) /\ Cardinality(gone) <= Cells \div 2
    BY DEF ZInit
  <1>2. pc \in [ZInvocations -> {"zero", "barrier", "build", "done"}]
    BY DEF ZInit
  <1>3. issued \in [ZInvocations -> [Exponents -> Field \cup {None}]]
    BY DEF ZInit, Nothing
  <1>4. zCoeff \in [Exponents -> Field]
    <2>1. PICK x \in Stale : zCoeff = [e \in Exponents |-> x]
      BY DEF ZInit
    <2>2. x \in Field
      BY VanishingAssumption
    <2> QED BY <2>1, <2>2
  <1> QED BY <1>1, <1>2, <1>3, <1>4 DEF ZTypeOK, Half

\* Every step keeps that.
LEMMA TypeNext == ZTypeOK /\ Half /\ [ZNext]_zVars => ZTypeOK' /\ Half'
  <1> SUFFICES ASSUME ZTypeOK, Half, [ZNext]_zVars PROVE ZTypeOK' /\ Half'
    OBVIOUS
  <1>1. /\ gone \subseteq 0..(Cells - 1)
        /\ pc \in [ZInvocations -> {"zero", "barrier", "build", "done"}]
        /\ issued \in [ZInvocations -> [Exponents -> Field \cup {None}]]
        /\ zCoeff \in [Exponents -> Field]
    BY DEF ZTypeOK
  <1>2. gone' = gone
    BY DEF ZNext, Barrier, Build, ZeroSlice, Perform, zVars
  <1>3. Half' /\ gone' \subseteq 0..(Cells - 1)
    BY <1>1, <1>2 DEF Half
  <1>4. SUFFICES /\ pc' \in [ZInvocations -> {"zero", "barrier", "build", "done"}]
                 /\ issued' \in [ZInvocations -> [Exponents -> Field \cup {None}]]
                 /\ zCoeff' \in [Exponents -> Field]
    BY <1>3 DEF ZTypeOK
  <1>5. CASE Barrier
    BY <1>1, <1>5 DEF Barrier
  <1>6. CASE Build
    <2> DEFINE n == Len(Short(MissingList(gone)))
               f == [e \in Exponents |->
                      IF e % CellSize = 0 /\ e \div CellSize < n THEN Z[e] ELSE issued[0][e]]
    <2>1. issued' = [issued EXCEPT ![0] = f] /\ zCoeff' = zCoeff /\ pc' = [pc EXCEPT ![0] = "done"]
      BY <1>6 DEF Build, Z
    <2>2. f \in [Exponents -> Field \cup {None}]
      <3>1. Z \in [Exponents -> Field]
        BY ZIs
      <3>2. issued[0] \in [Exponents -> Field \cup {None}]
        BY <1>1, Workgroup
      <3> HIDE DEF n
      <3> QED BY <3>1, <3>2
    <2> HIDE DEF f
    <2> QED BY <1>1, <2>1, <2>2
  <1>7. ASSUME NEW t \in ZInvocations, ZeroSlice(t)
        PROVE  /\ pc' \in [ZInvocations -> {"zero", "barrier", "build", "done"}]
               /\ issued' \in [ZInvocations -> [Exponents -> Field \cup {None}]]
               /\ zCoeff' \in [Exponents -> Field]
    <2> DEFINE f == [e \in Exponents |-> IF e \in Strided(t) \cap Contended THEN 0 ELSE issued[t][e]]
               g == [e \in Exponents |-> IF e \in Strided(t) \ Contended THEN 0 ELSE zCoeff[e]]
    <2>1. issued' = [issued EXCEPT ![t] = f] /\ zCoeff' = g /\ pc' = [pc EXCEPT ![t] = "barrier"]
      BY <1>7 DEF ZeroSlice
    <2>2. f \in [Exponents -> Field \cup {None}] /\ g \in [Exponents -> Field]
      BY <1>1, Workgroup
    <2> HIDE DEF f, g
    <2> QED BY <1>1, <2>1, <2>2
  <1>8. ASSUME NEW t \in ZInvocations, Perform(t)
        PROVE  /\ pc' \in [ZInvocations -> {"zero", "barrier", "build", "done"}]
               /\ issued' \in [ZInvocations -> [Exponents -> Field \cup {None}]]
               /\ zCoeff' \in [Exponents -> Field]
    <2>1. PICK e \in Exponents :
            /\ issued[t][e] # None
            /\ zCoeff' = [zCoeff EXCEPT ![e] = issued[t][e]]
            /\ issued' = [issued EXCEPT ![t][e] = None]
            /\ pc' = pc
      BY <1>8 DEF Perform
    <2>2. issued[t][e] \in Field
      BY <1>1, <2>1
    <2> QED BY <1>1, <2>1, <2>2
  <1>9. CASE UNCHANGED zVars
    BY <1>1, <1>9 DEF zVars
  <1> QED BY <1>5, <1>6, <1>7, <1>8, <1>9 DEF ZNext

\* In every state gone, pc, issued and zCoeff have the types ZTypeOK gives them,
\* whether or not the barrier orders buffer writes (k_vanishing_poly.comp).
THEOREM VanishingTyped == ZSpec => []ZTypeOK
  <1>1. ZInit => ZTypeOK /\ Half
    BY TypeInit
  <1>2. ZTypeOK /\ Half /\ [ZNext]_zVars => (ZTypeOK /\ Half)'
    BY TypeNext
  <1> QED BY <1>1, <1>2, PTL DEF ZSpec

\* Before the barrier: a slot of an invocation that has been over its slice
\* is zero, or is about to be.
Zeroed ==
  \A t \in ZInvocations :
    /\ pc[t] \in {"zero", "barrier"}
    /\ \A e \in Exponents : issued[t][e] \in {0, None}
    /\ pc[t] = "barrier" => \A e \in Strided(t) : issued[t][e] = None => zCoeff[e] = 0

\* After it: the slice is zero, and once it is built has Z, or is about to.
Built ==
  /\ \A t \in ZInvocations \ {0} : pc[t] = "done" /\ issued[t] = Nothing
  /\ pc[0] \in {"build", "done"}
  /\ pc[0] = "build" => issued[0] = Nothing /\ \A e \in Exponents : zCoeff[e] = 0
  /\ pc[0] = "done" => \A e \in Exponents :
       issued[0][e] \in {Z[e], None} /\ (issued[0][e] = None => zCoeff[e] = Z[e])

\* One or the other holds.
Ordered == Zeroed \/ Built

\* When the workgroup starts nothing is written or about to be.
LEMMA OrderedInit == ZInit => Ordered
  <1> SUFFICES ASSUME ZInit PROVE Zeroed
    BY DEF Ordered
  <1>1. \A t \in ZInvocations : pc[t] = "zero" /\ issued[t] = Nothing
    BY DEF ZInit
  <1>2. \A t \in ZInvocations, e \in Exponents : issued[t][e] = None
    BY <1>1 DEF Nothing
  <1> QED BY <1>1, <1>2 DEF Zeroed

\* A step keeps what holds before the barrier, or crosses it with all writes performed.
LEMMA ZeroedNext ==
  ASSUME ZTypeOK, Zeroed, NEW t \in ZInvocations, ZeroSlice(t) \/ Perform(t) PROVE Zeroed'
  <1>1. /\ pc \in [ZInvocations -> {"zero", "barrier", "build", "done"}]
        /\ issued \in [ZInvocations -> [Exponents -> Field \cup {None}]]
        /\ zCoeff \in [Exponents -> Field]
    BY DEF ZTypeOK
  <1>2. \A u \in ZInvocations : \A e \in Strided(u) : e \in Exponents
    BY DEF Strided
  <1>3. CASE ZeroSlice(t)
    <2>1. /\ pc' = [pc EXCEPT ![t] = "barrier"]
          /\ \A u \in ZInvocations, e \in Exponents :
               issued'[u][e] = IF u = t /\ e \in Strided(t) \cap Contended THEN 0 ELSE issued[u][e]
          /\ \A e \in Exponents : zCoeff'[e] = IF e \in Strided(t) \ Contended THEN 0 ELSE zCoeff[e]
      BY <1>1, <1>3 DEF ZeroSlice
    <2>2. ASSUME NEW u \in ZInvocations
          PROVE  /\ pc'[u] \in {"zero", "barrier"}
                 /\ \A e \in Exponents : issued'[u][e] \in {0, None}
                 /\ pc'[u] = "barrier" => \A e \in Strided(u) : issued'[u][e] = None => zCoeff'[e] = 0
      <3>1. pc'[u] \in {"zero", "barrier"} /\ (u # t => pc'[u] = pc[u])
        BY <1>1, <2>1 DEF Zeroed
      <3>2. \A e \in Exponents : issued'[u][e] \in {0, None}
        BY <2>1 DEF Zeroed
      <3>3. ASSUME pc'[u] = "barrier", NEW e \in Strided(u), issued'[u][e] = None PROVE zCoeff'[e] = 0
        <4>1. e \in Exponents
          BY <1>2
        <4>2. CASE u = t
          <5>1. e \notin Contended
            BY <2>1, <3>3, <4>1, <4>2, Workgroup
          <5> QED BY <2>1, <4>1, <4>2, <5>1
        <4>3. CASE u # t
          <5>1. issued[u][e] = None /\ pc[u] = "barrier"
            BY <2>1, <3>1, <3>3, <4>1, <4>3
          <5>2. zCoeff[e] = 0
            BY <5>1 DEF Zeroed
          <5> QED BY <2>1, <4>1, <5>2
        <4> QED BY <4>2, <4>3
      <3> QED BY <3>1, <3>2, <3>3
    <2> QED BY <2>2 DEF Zeroed
  <1>4. CASE Perform(t)
    <2>1. PICK x \in Exponents :
            /\ issued[t][x] # None
            /\ zCoeff' = [zCoeff EXCEPT ![x] = issued[t][x]]
            /\ issued' = [issued EXCEPT ![t][x] = None]
            /\ pc' = pc
      BY <1>4 DEF Perform
    <2>2. issued[t][x] = 0
      BY <2>1 DEF Zeroed
    <2>3. \A e \in Exponents : zCoeff'[e] = IF e = x THEN 0 ELSE zCoeff[e]
      BY <1>1, <2>1, <2>2
    <2>4. \A u \in ZInvocations, e \in Exponents :
            issued'[u][e] = IF u = t /\ e = x THEN None ELSE issued[u][e]
      BY <1>1, <2>1
    <2> QED BY <1>2, <2>1, <2>3, <2>4 DEF Zeroed
  <1> QED BY <1>3, <1>4

\* A step keeps what holds after it.
LEMMA BuiltNext ==
  ASSUME ZTypeOK, Half, Built, ZNext PROVE Built'
  <1>1. /\ pc \in [ZInvocations -> {"zero", "barrier", "build", "done"}]
        /\ issued \in [ZInvocations -> [Exponents -> Field \cup {None}]]
        /\ zCoeff \in [Exponents -> Field]
    BY DEF ZTypeOK
  <1>2. 0 \in ZInvocations /\ \A e \in Exponents : Nothing[e] = None
    BY Workgroup DEF Nothing
  <1>3. gone' = gone
    BY DEF ZNext, Barrier, Build, ZeroSlice, Perform
  <1>4. Z' = Z /\ Nothing' = Nothing
    BY <1>3 DEF Z
  <1>5. ~Barrier
    BY <1>2 DEF Barrier, Built
  <1>6. \A t \in ZInvocations : ~ZeroSlice(t)
    BY <1>2 DEF ZeroSlice, Built
  <1>7. CASE Build
    <2> DEFINE n == Len(Short(MissingList(gone)))
               f == [e \in Exponents |->
                      IF e % CellSize = 0 /\ e \div CellSize < n THEN Z[e] ELSE issued[0][e]]
    <2>1. /\ issued' = [issued EXCEPT ![0] = f] /\ zCoeff' = zCoeff /\ pc' = [pc EXCEPT ![0] = "done"]
          /\ pc[0] = "build"
      BY <1>7 DEF Build, Z
    <2>2. issued[0] = Nothing /\ \A e \in Exponents : zCoeff[e] = 0
      BY <2>1 DEF Built
    <2>3. ASSUME NEW e \in Exponents
          PROVE  f[e] \in {Z[e], None} /\ (f[e] = None => zCoeff[e] = Z[e])
      <3>1. CASE e % CellSize = 0 /\ e \div CellSize < n
        <4>1. f[e] = Z[e]
          BY <3>1
        <4>2. Z[e] \in Field
          BY ZIs
        <4> HIDE DEF f
        <4> QED BY <4>1, <4>2, Workgroup
      <3>2. CASE ~(e % CellSize = 0 /\ e \div CellSize < n)
        <4>1. f[e] = None
          BY <1>2, <2>2, <3>2
        <4>2. Z[e] = 0
          BY <3>2 DEF Z, Spread
        <4> HIDE DEF f
        <4> QED BY <2>2, <4>1, <4>2
      <3> QED BY <3>1, <3>2
    <2> HIDE DEF f
    <2>4. issued'[0] = f /\ pc'[0] = "done" /\ \A t \in ZInvocations \ {0} : issued'[t] = issued[t] /\ pc'[t] = pc[t]
      BY <1>1, <1>2, <2>1
    <2> QED BY <1>4, <2>1, <2>3, <2>4 DEF Built
  <1>8. ASSUME NEW t \in ZInvocations, Perform(t) PROVE Built'
    <2>1. PICK x \in Exponents :
            /\ issued[t][x] # None
            /\ zCoeff' = [zCoeff EXCEPT ![x] = issued[t][x]]
            /\ issued' = [issued EXCEPT ![t][x] = None]
            /\ pc' = pc
      BY <1>8 DEF Perform
    <2>2. t = 0 /\ pc[0] = "done"
      BY <1>2, <2>1 DEF Built
    <2>3. issued[0][x] = Z[x]
      BY <2>1, <2>2 DEF Built
    <2>4. /\ \A e \in Exponents : zCoeff'[e] = IF e = x THEN Z[x] ELSE zCoeff[e]
          /\ \A e \in Exponents : issued'[0][e] = IF e = x THEN None ELSE issued[0][e]
          /\ \A u \in ZInvocations \ {0} : issued'[u] = issued[u]
      BY <1>1, <1>2, <2>1, <2>2, <2>3
    <2>5. ASSUME NEW e \in Exponents
          PROVE  issued'[0][e] \in {Z[e], None} /\ (issued'[0][e] = None => zCoeff'[e] = Z[e])
      BY <2>2, <2>4 DEF Built
    <2>6. pc'[0] = "done" /\ \A u \in ZInvocations \ {0} : pc'[u] = "done" /\ issued'[u] = Nothing
      BY <2>1, <2>2, <2>4 DEF Built
    <2> QED BY <1>4, <2>5, <2>6 DEF Built
  <1> QED BY <1>5, <1>6, <1>7, <1>8 DEF ZNext

\* Every step keeps one or the other.
LEMMA OrderedNext ==
  ASSUME BufferOrdered PROVE ZTypeOK /\ Half /\ Ordered /\ [ZNext]_zVars => Ordered'
  <1> SUFFICES ASSUME ZTypeOK, Half, Ordered, [ZNext]_zVars PROVE Ordered'
    OBVIOUS
  <1>1. 0 \in ZInvocations /\ pc \in [ZInvocations -> {"zero", "barrier", "build", "done"}]
    BY Workgroup DEF ZTypeOK
  <1>2. CASE UNCHANGED zVars
    <2>1. gone' = gone /\ pc' = pc /\ issued' = issued /\ zCoeff' = zCoeff
      BY <1>2 DEF zVars
    <2>2. Z' = Z
      BY <2>1 DEF Z
    <2> QED BY <2>1, <2>2 DEF Ordered, Zeroed, Built, Nothing
  <1>3. CASE ZNext /\ Built
    BY <1>3, BuiltNext DEF Ordered
  <1>4. CASE ZNext /\ Zeroed
    <2>1. ~Build
      BY <1>1, <1>4 DEF Build, Zeroed
    <2>2. CASE Barrier
      <3>1. /\ \A t \in ZInvocations : pc[t] = "barrier" /\ issued[t] = Nothing
            /\ pc' = [t \in ZInvocations |-> IF t = 0 THEN "build" ELSE "done"]
            /\ issued' = issued /\ zCoeff' = zCoeff
        BY <2>2 DEF Barrier
      <3>2. ASSUME NEW e \in Exponents PROVE zCoeff[e] = 0
        <4> DEFINE t == e % ZWidth
        <4>1. t \in ZInvocations /\ e \in Strided(t)
          BY Workgroup
        <4> HIDE DEF t
        <4>2. issued[t][e] = None /\ pc[t] = "barrier"
          BY <3>1, <4>1 DEF Nothing
        <4> QED BY <1>4, <4>1, <4>2 DEF Zeroed
      <3>3. pc'[0] = "build" /\ \A t \in ZInvocations \ {0} : pc'[t] = "done" /\ issued'[t] = Nothing
        BY <1>1, <3>1
      <3>4. Built'
        BY <1>1, <3>1, <3>2, <3>3 DEF Built, Nothing
      <3> QED BY <3>4 DEF Ordered
    <2>3. ASSUME NEW t \in ZInvocations, ZeroSlice(t) \/ Perform(t) PROVE Ordered'
      BY <1>4, <2>3, ZeroedNext DEF Ordered
    <2> QED BY <1>4, <2>1, <2>2, <2>3 DEF ZNext
  <1> QED BY <1>2, <1>3, <1>4 DEF Ordered

\* On a device whose barrier orders buffer writes, what the kernel leaves in
\* bufRecZCoeff is zero on the elements of the missing cells and nowhere else
\* ("vanishes on every missing cell", k_vanishing_poly.comp:1-2).
THEOREM ZVanishes == ASSUME BufferOrdered PROVE ZSpec => []OutputIsZ
  <1>1. ZInit => ZTypeOK /\ Half /\ Ordered
    BY TypeInit, OrderedInit
  <1>2. ZTypeOK /\ Half /\ Ordered /\ [ZNext]_zVars => (ZTypeOK /\ Half /\ Ordered)'
    BY TypeNext, OrderedNext
  <1>3. ZTypeOK /\ Half /\ Ordered => OutputIsZ
    <2> SUFFICES ASSUME ZTypeOK, Half, Ordered, Complete,
                        NEW e \in Exponents
                 PROVE  ValueAt(zCoeff, e) = 0 <=> CellAt(e) \in gone
      BY DEF OutputIsZ
    <2>1. 0 \in ZInvocations /\ \A i \in Exponents : Nothing[i] = None
      BY Workgroup DEF Nothing
    <2>2. pc[0] = "done" /\ issued[0] = Nothing
      BY <2>1 DEF Complete
    <2>3. Built
      BY <2>1, <2>2 DEF Ordered, Zeroed
    <2>4. \A i \in Exponents : zCoeff[i] = Z[i]
      BY <2>1, <2>2, <2>3 DEF Built
    <2>5. zCoeff \in [Exponents -> Field] /\ Z \in [Exponents -> Field]
      BY ZIs DEF ZTypeOK
    <2>6. zCoeff = Z
      BY <2>4, <2>5
    <2> QED BY <2>6, ZIs
  <1> QED BY <1>1, <1>2, <1>3, PTL DEF ZSpec

-----------------------------------------------------------------------------
(* The dispatches of a transform *)

\* Pass p's push constants, and the logarithm of the size of its groups.
QAt(p) == IF p = 1 THEN Pass1(N, N1, N2) ELSE Pass2(N, N1, N2)
LogAt(p) == IF p = 1 THEN job.logN1 ELSE job.logN2

\* A pass there is.
Runs(p) == p \in {1, 2} /\ (p = 1 => ~job.circulant)

\* What the invocations of a workgroup load, and what each of them stores.
Source(p, g) ==
  [j \in 0..(QAt(p).n - 1) |->
     IF job.circulant THEN CirculantEntry(in, g, j)
     ELSE IF p = 1 THEN in[InAt(QAt(p), g, j)]
     ELSE mid[InAt(QAt(p), g, j)]]
Result(p, g, i) ==
  FrMul(FrMul(StageSum(Source(p, g), Roots, LogAt(p), LogAt(p), 0, i),
              Twiddle(QAt(p), Roots, g, i)), ScaleOf(p))

\* The sizes fit.
LEMMA JobIs ==
  ASSUME job \in Transforms
  PROVE  /\ job \in Transform /\ job.logN1 \in Nat \ {0} /\ job.logN2 \in Nat \ {0}
         /\ job.logN1 + job.logN2 \in Nat /\ job.logN1 + job.logN2 <= LogDomain /\ LogDomain \in Nat
         /\ N1 \in Nat \ {0} /\ N2 \in Nat \ {0} /\ N \in Nat \ {0}
         /\ N = 2 ^ (job.logN1 + job.logN2)
         /\ N * (DomainSize \div N) = DomainSize /\ DomainSize \div N \in Nat \ {0}
         /\ Elements \subseteq Exponents
         /\ Roots \in RootTables
         /\ job.circulant => /\ N1 = CellSize /\ N2 = Cells /\ N = DomainSize /\ LogCells > 1
                             /\ Invocations = 0..(Cells - 1)
                             /\ job.scale = 1 /\ Roots = RootsFwd
         /\ ~job.circulant => N1 <= Width /\ N2 <= Width /\ Invocations = 0..(Width - 1) /\ Width \in Nat
  <1> DEFINE a == job.logN1
             b == job.logN2
  <1>1. job \in Transform /\ a \in 1..LogDomain /\ b \in 1..LogDomain /\ job.circulant \in BOOLEAN
    BY NttAssumption DEF Transform
  <1>2. /\ LogDomain \in Nat /\ LogCells \in Nat /\ LogCellSize \in Nat
        /\ LogDomain = LogCells + LogCellSize
    BY Sizes DEF LogDomain
  <1>3. \/ job = BuildCirculant /\ LogCells > 1
        \/ /\ ~job.circulant /\ a + b <= LogDomain /\ Width \in Nat
           /\ 2 ^ a <= Width /\ 2 ^ b <= Width
    BY NttAssumption
  <1>4. job.circulant => /\ a = LogCellSize /\ b = LogCells /\ LogCells > 1
                         /\ job.scale = 1 /\ ~job.inverse
    BY <1>3 DEF BuildCirculant
  <1>5. a + b <= LogDomain /\ a \in Nat \ {0} /\ b \in Nat \ {0} /\ a + b \in Nat
    <2>1. CASE job.circulant
      BY <1>1, <1>2, <1>4, <2>1
    <2>2. CASE ~job.circulant
      BY <1>1, <1>2, <1>3, <2>2 DEF BuildCirculant
    <2> QED BY <2>1, <2>2
  <1>6. N1 = 2 ^ a /\ N2 = 2 ^ b
    BY DEF N1, N2
  <1> HIDE DEF a, b
  <1>7. N = 2 ^ (a + b) /\ N1 \in Nat \ {0} /\ N2 \in Nat \ {0}
    BY <1>5, <1>6, TwoAdds, PowersOfTwo DEF N
  <1> DEFINE c == a + b
  <1>8. /\ 2 ^ c \in Nat \ {0} /\ DomainSize \div 2 ^ c \in Nat \ {0}
        /\ DomainSize = 2 ^ c * (DomainSize \div 2 ^ c)
    <2> HIDE DEF c
    <2> QED BY <1>5, PartOfDomain DEF c
  <1>9. N \in Nat \ {0} /\ N * (DomainSize \div N) = DomainSize /\ DomainSize \div N \in Nat \ {0}
    BY <1>7, <1>8
  <1>10. Elements \subseteq Exponents
    <2> DEFINE d == DomainSize \div N
    <2>1. N * d = DomainSize /\ d \in Nat \ {0} /\ N \in Nat \ {0} /\ DomainSize \in Nat
      BY <1>9, Sizes
    <2> HIDE DEF d
    <2>2. N * d >= N
      BY <2>1
    <2>3. 0..(N - 1) \subseteq 0..(DomainSize - 1)
      BY <2>1, <2>2
    <2> QED BY <2>3 DEF Elements, Exponents
  <1>11. Roots \in RootTables
    BY DEF Roots, RootTables
  <1>12. job.circulant => /\ N1 = CellSize /\ N2 = Cells /\ N = DomainSize
                          /\ Invocations = 0..(Cells - 1) /\ Roots = RootsFwd
    <2> SUFFICES ASSUME job.circulant
                 PROVE  /\ N1 = CellSize /\ N2 = Cells /\ N = DomainSize
                        /\ Invocations = 0..(Cells - 1) /\ Roots = RootsFwd
      OBVIOUS
    <2>1. N1 = CellSize /\ N2 = Cells
      BY <1>4, <1>6 DEF a, b, CellSize, Cells
    <2>2. CellSize * Cells = Cells * CellSize
      BY Sizes
    <2>3. N = DomainSize
      BY <2>1, <2>2 DEF N, DomainSize
    <2> QED BY <1>4, <2>1, <2>3 DEF Invocations, Roots
  <1>13. ~job.circulant => N1 <= Width /\ N2 <= Width /\ Invocations = 0..(Width - 1) /\ Width \in Nat
    BY <1>3, <1>6 DEF Invocations, BuildCirculant, a, b
  <1> QED BY <1>1, <1>2, <1>4, <1>5, <1>7, <1>9, <1>10, <1>11, <1>12, <1>13 DEF a, b

\* A pass has a group of 2^LogAt elements for each workgroup.
LEMMA PassIs ==
  ASSUME job \in Transforms, NEW p, Runs(p)
  PROVE  /\ LogAt(p) \in Nat \ {0} /\ LogAt(p) <= LogDomain
         /\ QAt(p).n = 2 ^ LogAt(p) /\ QAt(p).n \in Nat \ {0}
         /\ QAt(p).groups \in Nat \ {0} /\ QAt(p).n * QAt(p).groups = N
         /\ QAt(p).root = DomainSize \div QAt(p).n /\ QAt(p).root \in Nat \ {0}
         /\ DomainSize = QAt(p).n * QAt(p).root
         /\ 0..(QAt(p).n - 1) \subseteq Invocations
         /\ QAt(p).full_n = N /\ QAt(p).out_t = 1 /\ QAt(p).out_i = QAt(p).groups
         /\ p = 1 => QAt(p) = Pass1(N, N1, N2)
         /\ p = 2 => QAt(p) = Pass2(N, N1, N2)
         /\ job.circulant => p = 2 /\ QAt(p).n = Cells /\ QAt(p).groups = CellSize
  <1>1. /\ job.logN1 \in Nat \ {0} /\ job.logN2 \in Nat \ {0}
        /\ job.logN1 + job.logN2 <= LogDomain /\ LogDomain \in Nat
        /\ N1 \in Nat \ {0} /\ N2 \in Nat \ {0} /\ N \in Nat \ {0}
    BY JobIs
  <1>2. /\ p = 1 => QAt(p) = Pass1(N, N1, N2)
        /\ p = 2 => QAt(p) = Pass2(N, N1, N2)
        /\ p \in {1, 2} /\ (p = 1 => ~job.circulant)
    BY DEF QAt, Runs
  <1>3. /\ LogAt(p) \in Nat \ {0} /\ LogAt(p) <= LogDomain
        /\ QAt(p).n = 2 ^ LogAt(p) /\ QAt(p).root = DomainSize \div QAt(p).n
        /\ QAt(p).full_n = N /\ QAt(p).out_t = 1 /\ QAt(p).out_i = QAt(p).groups
    <2>1. CASE p = 1
      BY <1>1, <1>2, <2>1 DEF LogAt, Pass1, N1
    <2>2. CASE p = 2
      BY <1>1, <1>2, <2>2 DEF LogAt, Pass2, N2
    <2> QED BY <1>2, <2>1, <2>2
  <1>4. /\ QAt(p).groups \in Nat \ {0} /\ QAt(p).n * QAt(p).groups = N
        /\ job.circulant => p = 2 /\ QAt(p).n = Cells /\ QAt(p).groups = CellSize
    <2>1. N = N1 * N2 /\ N1 * N2 = N2 * N1
      BY <1>1 DEF N
    <2>2. CASE p = 1
      BY <1>1, <1>2, <2>1, <2>2 DEF Pass1
    <2>3. CASE p = 2
      <3>1. QAt(p).groups = N1 /\ QAt(p).n = N2
        BY <1>2, <2>3 DEF Pass2
      <3>2. job.circulant => N1 = CellSize /\ N2 = Cells
        BY JobIs
      <3> QED BY <1>1, <2>1, <2>3, <3>1, <3>2
    <2> QED BY <1>2, <2>2, <2>3
  <1>5. /\ QAt(p).n \in Nat \ {0} /\ DomainSize \div QAt(p).n \in Nat \ {0}
        /\ DomainSize = QAt(p).n * (DomainSize \div QAt(p).n)
    <2> DEFINE l == LogAt(p)
    <2>1. /\ 2 ^ l \in Nat \ {0} /\ DomainSize \div 2 ^ l \in Nat \ {0}
          /\ DomainSize = 2 ^ l * (DomainSize \div 2 ^ l)
      <3> HIDE DEF l
      <3> QED BY <1>3, PartOfDomain DEF l
    <2> QED BY <1>3, <2>1
  <1>6. 0..(QAt(p).n - 1) \subseteq Invocations
    <2>1. CASE job.circulant
      BY <1>4, <2>1, JobIs
    <2>2. CASE ~job.circulant
      <3>1. N1 <= Width /\ N2 <= Width /\ Invocations = 0..(Width - 1) /\ Width \in Nat
        BY <2>2, JobIs
      <3>2. QAt(p).n = N1 \/ QAt(p).n = N2
        BY <1>2 DEF Pass1, Pass2
      <3> QED BY <1>1, <3>1, <3>2
    <2> QED BY <2>1, <2>2
  <1> QED BY <1>2, <1>3, <1>4, <1>5, <1>6

\* Where a group's elements are, and that no two are at one place.
LEMMA PlacesAre ==
  ASSUME job \in Transforms, NEW p, Runs(p),
         NEW g \in 0..(QAt(p).groups - 1), NEW i \in 0..(QAt(p).n - 1)
  PROVE  /\ OutAt(QAt(p), g, i) \in Elements
         /\ OutAt(QAt(p), g, i) = g + QAt(p).groups * i
         /\ OutAt(QAt(p), g, i) % QAt(p).groups = g /\ OutAt(QAt(p), g, i) \div QAt(p).groups = i
         /\ InAt(QAt(p), g, i) \in Elements
         /\ p = 1 => InAt(QAt(p), g, i) = g + N2 * i
         /\ p = 2 => InAt(QAt(p), g, i) = i + N2 * g
  <1> DEFINE c == QAt(p).groups
             n == QAt(p).n
  <1>1. /\ c \in Nat \ {0} /\ n \in Nat \ {0} /\ n * c = N
        /\ QAt(p).out_t = 1 /\ QAt(p).out_i = c /\ p \in {1, 2}
    BY PassIs DEF Runs
  <1>2. /\ p = 1 => QAt(p).in_t = 1 /\ QAt(p).in_i = N2 /\ c = N2
        /\ p = 2 => QAt(p).in_t = N2 /\ QAt(p).in_i = 1 /\ n = N2
    BY PassIs DEF Pass1, Pass2
  <1>3. N2 \in Nat \ {0}
    BY JobIs
  <1>4. g \in Nat /\ i \in Nat /\ g < c /\ i < n /\ g \in 0..(c - 1) /\ i \in 0..(n - 1)
    BY <1>1
  <1> HIDE DEF c, n
  \* An element of a block of b that is the k-th of a.
  <1>5. ASSUME NEW a \in Nat \ {0}, NEW b \in Nat \ {0}, NEW x \in Nat, NEW y \in Nat,
               x < b, y < a
        PROVE  x + b * y \in 0..(a * b - 1)
    <2> DEFINE d == a - (y + 1)
               u == b * y
               w == b * d
               z == a * b
    <2>1. d \in Nat /\ a = (y + 1) + d
      BY <1>5
    <2> HIDE DEF d
    <2>2. ((y + 1) + d) * b = (u + b) + w /\ u \in Nat /\ w \in Nat
      BY <2>1
    <2>3. z = (u + b) + w
      BY <2>1, <2>2
    <2> HIDE DEF u, w, z
    <2>4. x + u \in 0..(z - 1)
      BY <1>5, <2>2, <2>3
    <2> QED BY <2>4 DEF u, z
  <1>6. OutAt(QAt(p), g, i) = g + c * i
    <2>1. OutAt(QAt(p), g, i) = g * 1 + i * c
      BY <1>1 DEF OutAt
    <2> QED BY <1>1, <1>4, <2>1
  <1>7. g + c * i \in Elements
    <2>1. g + c * i \in 0..(n * c - 1)
      BY <1>1, <1>4, <1>5
    <2> QED BY <1>1, <2>1 DEF Elements
  <1>8. (g + c * i) % c = g /\ (g + c * i) \div c = i
    <2>1. i \in Int
      BY <1>4
    <2> QED BY <1>1, <1>4, <2>1, DivisionIs
  <1>9. /\ p = 1 => InAt(QAt(p), g, i) = g + N2 * i
        /\ p = 2 => InAt(QAt(p), g, i) = i + N2 * g
    <2>1. /\ p = 1 => InAt(QAt(p), g, i) = g * 1 + i * N2
          /\ p = 2 => InAt(QAt(p), g, i) = g * N2 + i * 1
      BY <1>2 DEF InAt
    <2> QED BY <1>3, <1>4, <2>1
  <1>10. InAt(QAt(p), g, i) \in Elements
    <2>1. CASE p = 1
      BY <1>2, <1>6, <1>7, <1>9, <2>1
    <2>2. CASE p = 2
      <3>1. i + n * g \in 0..(c * n - 1) /\ c * n = n * c
        BY <1>1, <1>4, <1>5
      <3> QED BY <1>1, <1>2, <1>9, <2>2, <3>1 DEF Elements
    <2> QED BY <1>1, <2>1, <2>2
  <1> QED BY <1>6, <1>7, <1>8, <1>9, <1>10 DEF c

\* The buffers hold field elements.
Buffers ==
  /\ in \in [Exponents -> Field]
  /\ mid \in [Exponents -> Field]
  /\ out \in [Exponents -> Field]

\* What a workgroup transforms.
LEMMA SourceIs ==
  ASSUME job \in Transforms, Buffers, NEW p, Runs(p), NEW g \in 0..(QAt(p).groups - 1)
  PROVE  Transformable(Source(p, g), Roots, LogAt(p))
  <1>1. /\ LogAt(p) \in Nat /\ LogAt(p) <= LogDomain /\ QAt(p).n = 2 ^ LogAt(p)
        /\ job.circulant => p = 2 /\ QAt(p).n = Cells /\ QAt(p).groups = CellSize
    BY PassIs
  <1>2. Roots \in RootTables /\ Elements \subseteq Exponents /\ (job.circulant => LogCells > 1)
    BY JobIs
  <1>3. ASSUME NEW j \in 0..(QAt(p).n - 1) PROVE Source(p, g)[j] \in Field
    <2>1. InAt(QAt(p), g, j) \in Exponents
      BY <1>2, PlacesAre
    <2>2. job.circulant => CirculantEntry(in, g, j) \in Field
      BY <1>1, <1>2, CirculantIn DEF Buffers
    <2> QED BY <2>1, <2>2 DEF Source, Buffers
  <1>4. Source(p, g) \in [0..(QAt(p).n - 1) -> Field]
    BY <1>3 DEF Source
  <1> QED BY <1>1, <1>2, <1>4 DEF Transformable

-----------------------------------------------------------------------------
(* Types *)

\* The types, and that a dispatch that runs is one of the job.
Typed == TypeOK /\ (pass < 3 => Runs(pass))

\* A step keeps the job.
LEMMA SameJob ==
  ASSUME job' = job
  PROVE  /\ N1' = N1 /\ N2' = N2 /\ N' = N /\ Roots' = Roots
         /\ Elements' = Elements /\ Invocations' = Invocations
         /\ Q' = QAt(pass') /\ LogN' = LogAt(pass')
         /\ ScaleOf(pass)' = ScaleOf(pass')
         /\ \A p : /\ QAt(p)' = QAt(p) /\ LogAt(p)' = LogAt(p)
                   /\ ScaleOf(p)' = ScaleOf(p) /\ Runs(p)' = Runs(p)
  <1>1. N1' = N1 /\ N2' = N2 /\ Roots' = Roots /\ Invocations' = Invocations
    BY DEF N1, N2, Roots, Invocations
  <1>2. N' = N
    BY <1>1 DEF N
  <1>3. Elements' = Elements
    BY <1>2 DEF Elements
  <1>4. Q' = QAt(pass') /\ LogN' = LogAt(pass') /\ ScaleOf(pass)' = ScaleOf(pass')
    BY <1>1, <1>2 DEF Q, QAt, LogN, LogAt, ScaleOf
  <1>5. ASSUME NEW p
        PROVE  /\ QAt(p)' = QAt(p) /\ LogAt(p)' = LogAt(p)
               /\ ScaleOf(p)' = ScaleOf(p) /\ Runs(p)' = Runs(p)
    BY <1>1, <1>2 DEF QAt, LogAt, ScaleOf, Runs
  <1> QED BY <1>1, <1>2, <1>3, <1>4, <1>5

\* What a typed state has.
Shape ==
  /\ job \in Transforms /\ Buffers /\ in \in Inputs
  /\ pass \in 1..3 /\ Q = QAt(pass) /\ LogN = LogAt(pass) /\ LastPhase = 2 * LogN + 2
  /\ phase \in [Invocations -> 0..(LastPhase + 1)]
  /\ tile \in [Invocations -> Field]
  /\ group \in 0..(Q.groups - 1)
  /\ Leftover \in Field

\* And one in which a dispatch runs.
Running ==
  /\ Runs(pass) /\ LogN \in Nat \ {0} /\ LogN <= LogDomain
  /\ Q.n = 2 ^ LogN /\ Q.n \in Nat \ {0} /\ Q.groups \in Nat \ {0}
  /\ Q.root \in Nat \ {0} /\ DomainSize = Q.n * Q.root
  /\ 0..(Q.n - 1) \subseteq Invocations
  /\ Q.full_n = N
  /\ Transformable(Source(pass, group), Roots, LogN)
  /\ ScaleOf(pass) \in Field

\* A typed state has it.
LEMMA Shaped ==
  ASSUME Typed
  PROVE  Shape /\ (pass < 3 => Running)
  <1>1. Shape
    <2>1. Q = QAt(pass) /\ LogN = LogAt(pass)
      BY DEF Q, QAt, LogN, LogAt
    <2> QED BY <2>1, NttAssumption DEF Typed, TypeOK, Shape, Buffers, LastPhase
  <1>2. ASSUME pass < 3 PROVE Running
    <2>1. Runs(pass) /\ Q = QAt(pass) /\ LogN = LogAt(pass) /\ job \in Transforms
      BY <1>1, <1>2 DEF Typed, Shape
    <2>2. /\ LogN \in Nat \ {0} /\ LogN <= LogDomain
          /\ Q.n = 2 ^ LogN /\ Q.n \in Nat \ {0} /\ Q.groups \in Nat \ {0}
          /\ Q.root \in Nat \ {0} /\ DomainSize = Q.n * Q.root
          /\ 0..(Q.n - 1) \subseteq Invocations /\ Q.full_n = N
      BY <2>1, PassIs
    <2>3. Transformable(Source(pass, group), Roots, LogN)
      <3>1. group \in 0..(QAt(pass).groups - 1) /\ Buffers
        BY <1>1 DEF Shape
      <3> QED BY <2>1, <3>1, SourceIs
    <2>4. ScaleOf(pass) \in Field
      <3>1. job.scale \in Field
        BY <2>1, JobIs DEF Transform
      <3> QED BY <3>1, Closed DEF ScaleOf
    <2> QED BY <2>1, <2>2, <2>3, <2>4 DEF Running
  <1> QED BY <1>1, <1>2

\* The barriers, as numbers: phase 2s is stage s, before LastPhase.
LEMMA Phases ==
  ASSUME Typed, pass < 3, NEW tid \in Invocations
  PROVE  /\ phase[tid] \in Nat /\ phase[tid] <= LastPhase + 1
         /\ LastPhase = 2 * LogN + 2 /\ LogN \in Nat \ {0}
  <1>1. Shape /\ Running
    BY Shaped
  <1> QED BY <1>1 DEF Shape, Running

\* The pair a stage combines, and their root.
LEMMA PairIs ==
  ASSUME Typed, pass < 3, NEW tid \in Invocations, tid < Q.n \div 2, NEW s \in 1..LogN
  PROVE  LET len == 2 ^ s
             hlen == len \div 2
             j == tid % hlen
             b == tid \div hlen
             lo == b * len + j
         IN  /\ hlen = 2 ^ (s - 1) /\ hlen \in Nat \ {0} /\ len = 2 * hlen
             /\ j \in 0..(hlen - 1) /\ b \in Nat
             /\ lo \in 0..(Q.n - 1) /\ lo + hlen \in 0..(Q.n - 1)
             /\ j * (Q.n \div len) * Q.root \in Exponents
             /\ j * (DomainSize \div len) \in Nat
             /\ Roots[j * (Q.n \div len) * Q.root] = RootAt(Roots, j * (DomainSize \div len))
  <1> DEFINE len == 2 ^ s
             hlen == len \div 2
             j == tid % hlen
             b == tid \div hlen
             n == Q.n
             c == 2 ^ (LogN - s)
             half == Q.n \div 2
  <1>1. /\ LogN \in Nat \ {0} /\ LogN <= LogDomain /\ n = 2 ^ LogN /\ n \in Nat \ {0}
        /\ Q.root \in Nat \ {0} /\ DomainSize = n * Q.root /\ tid \in Nat
    <2>1. Shape /\ Running
      BY Shaped
    <2>2. tid \in Nat
      <3>1. Invocations = 0..(Cells - 1) \/ Invocations = 0..(Width - 1)
        BY DEF Invocations
      <3> QED BY <3>1, Sizes, NttAssumption
    <2> QED BY <2>1, <2>2 DEF Running
  <1>2. /\ hlen = 2 ^ (s - 1) /\ hlen \in Nat \ {0} /\ len = 2 * hlen
    <2> DEFINE r == s - 1
    <2>1. r \in Nat /\ s = r + 1
      BY <1>1
    <2>2. 2 ^ r \in Nat \ {0} /\ 2 ^ (r + 1) = 2 * 2 ^ r
      <3> HIDE DEF r
      <3> QED BY <2>1, PowersOfTwo
    <2>3. len = 2 * 2 ^ r
      BY <2>1, <2>2
    <2> QED BY <2>2, <2>3
  <1>3. c \in Nat \ {0} /\ n = c * len
    <2> DEFINE e == LogN - s
    <2>1. e \in Nat /\ e + s = LogN /\ s \in Nat
      BY <1>1
    <2>2. 2 ^ e \in Nat \ {0} /\ 2 ^ (e + s) = 2 ^ e * 2 ^ s
      <3> HIDE DEF e
      <3> QED BY <2>1, TwoAdds, PowersOfTwo
    <2> QED BY <1>1, <2>1, <2>2
  <1> HIDE DEF c, len, hlen
  <1>4. half = c * hlen /\ half \in Nat /\ n = 2 * half
    <2> DEFINE y == c * hlen
    <2>1. c * (2 * hlen) = 2 * y /\ y \in Nat
      BY <1>2, <1>3
    <2>2. n = 2 * y
      BY <1>2, <1>3, <2>1
    <2> HIDE DEF n, y
    <2>3. n \div 2 = y
      BY <2>1, <2>2
    <2> QED BY <2>1, <2>2, <2>3 DEF n, y
  <1>5. tid = j + hlen * b /\ j \in 0..(hlen - 1) /\ b \in Nat
    <2>1. tid \in Nat /\ hlen \in Nat \ {0}
      BY <1>1, <1>2
    <2> QED BY <2>1, Division
  <1> HIDE DEF j, b
  <1>6. b \in Nat /\ b < c
    <2>1. tid < half
      OBVIOUS
    <2>2. tid < c * hlen /\ tid \in Nat
      BY <1>1, <1>4, <2>1
    <2>4. ASSUME b >= c PROVE FALSE
      <3>1. hlen * b >= c * hlen
        <4> DEFINE d == b - c
        <4>1. d \in Nat /\ b = c + d
          BY <1>3, <1>5, <2>4
        <4> HIDE DEF d
        <4>2. hlen * (c + d) = c * hlen + hlen * d /\ hlen * d >= 0
          BY <1>2, <1>3, <4>1
        <4> QED BY <1>2, <1>3, <4>1, <4>2
      <3> DEFINE u == hlen * b
                 v == c * hlen
      <3>2. u \in Int /\ v \in Int
        BY <1>2, <1>3, <1>5
      <3> HIDE DEF u, v
      <3> QED BY <1>2, <1>5, <2>2, <3>1, <3>2 DEF u, v
    <2> QED BY <1>3, <1>5, <2>4
  <1> DEFINE lo == b * len + j
  <1>7. lo \in 0..(n - 1) /\ lo + hlen \in 0..(n - 1)
    <2> DEFINE e == c - (b + 1)
               u == b * len
               w == e * len
    <2>1. e \in Nat /\ c = (b + 1) + e
      BY <1>3, <1>6
    <2> HIDE DEF e
    <2>2. ((b + 1) + e) * len = (u + len) + w /\ u \in Nat /\ w \in Nat
      BY <1>2, <1>6, <2>1
    <2>3. n = (u + len) + w
      BY <1>3, <2>1, <2>2
    <2> HIDE DEF u, w, n
    <2>4. u + j \in 0..(n - 1) /\ (u + j) + hlen \in 0..(n - 1)
      BY <1>2, <1>5, <2>2, <2>3
    <2> QED BY <2>4 DEF u, n
  <1>8. n \div len = c
    <2>1. n = 0 + len * c /\ c \in Int /\ 0 \in 0..(len - 1) /\ len \in Nat \ {0}
      BY <1>2, <1>3
    <2> QED BY <2>1, DivisionIs
  <1> DEFINE m == c * Q.root
  <1>9. m \in Nat \ {0} /\ DomainSize = len * m
    <2> DEFINE r == Q.root
    <2>1. (c * len) * r = len * (c * r) /\ c * r \in Nat \ {0}
      <3> HIDE DEF r
      <3>1. r \in Nat \ {0}
        BY <1>1 DEF r
      <3> QED BY <1>2, <1>3, <3>1
    <2> QED BY <1>1, <1>3, <2>1
  <1>10. j * (n \div len) * Q.root = j * m
    <2> DEFINE r == Q.root
    <2> HIDE DEF r
    <2>1. r \in Nat /\ j \in Nat
      BY <1>1, <1>5 DEF r
    <2>2. j * c * r = j * (c * r)
      BY <1>3, <2>1
    <2> QED BY <1>8, <2>2 DEF r
  <1> HIDE DEF m, n
  <1>11. /\ DomainSize \div len = m /\ j * m \in Exponents /\ Roots[j * m] = RootAt(Roots, j * m)
    <2>1. Roots \in RootTables /\ j \in 0..(len - 1) /\ len \in Nat \ {0}
      <3>1. job \in Transforms
        BY DEF Typed, TypeOK
      <3> QED BY <1>2, <1>5, <3>1, JobIs
    <2> QED BY <1>9, <2>1, EntryIs
  <1>12. j * m \in Nat
    BY <1>5, <1>9
  <1> QED BY <1>2, <1>5, <1>6, <1>7, <1>10, <1>11, <1>12 DEF len, hlen, j, b, n

\* The types hold when the transform starts.
LEMMA TypedInit == ASSUME Init PROVE Typed
  <1>1. /\ job \in Transforms /\ in \in Inputs /\ group = 0
        /\ mid = [e \in Exponents |-> Leftover] /\ out = [e \in Exponents |-> Leftover]
        /\ phase = [i \in Invocations |-> 0] /\ tile = [i \in Invocations |-> Leftover]
        /\ pass = IF job.circulant THEN 2 ELSE 1
    BY DEF Init, FreshTile
  <1>2. pass \in 1..3 /\ Runs(pass)
    <2>1. CASE job.circulant
      BY <1>1, <2>1 DEF Runs
    <2>2. CASE ~job.circulant
      BY <1>1, <2>2 DEF Runs
    <2> QED BY <2>1, <2>2
  <1>3. QAt(pass).groups \in Nat \ {0} /\ LogAt(pass) \in Nat \ {0}
    BY <1>1, <1>2, PassIs
  <1>4. Q = QAt(pass) /\ LogN = LogAt(pass)
    BY DEF Q, QAt, LogN, LogAt
  <1>5. Leftover \in Field
    BY NttAssumption
  <1>6. group \in 0..(Q.groups - 1) /\ 0 \in 0..(LastPhase + 1)
    BY <1>1, <1>3, <1>4 DEF LastPhase
  <1>7. /\ phase \in [Invocations -> 0..(LastPhase + 1)] /\ tile \in [Invocations -> Field]
        /\ mid \in [Exponents -> Field] /\ out \in [Exponents -> Field]
    BY <1>1, <1>5, <1>6
  <1> QED BY <1>1, <1>2, <1>6, <1>7 DEF Typed, TypeOK

\* The steps within a workgroup keep the rest.
LEMMA TypedWithin ==
  ASSUME Typed, UNCHANGED <<job, in, pass, group>>, NEW tid \in Invocations, NEW k, k \in 0..(LastPhase + 1),
         phase' = [phase EXCEPT ![tid] = k],
         tile' \in [Invocations -> Field], mid' \in [Exponents -> Field], out' \in [Exponents -> Field]
  PROVE  Typed'
  <1>1. Shape
    BY Shaped
  <1>2. Invocations' = Invocations /\ Q' = Q /\ LogN' = LogN /\ Runs(pass)' = Runs(pass)
    BY <1>1, SameJob DEF Shape, Runs
  <1>3. LastPhase' = LastPhase
    BY <1>2 DEF LastPhase
  <1>4. phase' \in [Invocations -> 0..(LastPhase + 1)]
    BY <1>1 DEF Shape
  <1> QED BY <1>1, <1>2, <1>3, <1>4 DEF Typed, TypeOK, Shape

\* The slots a stage writes, and with what.
LEMMA ButterflyIs ==
  ASSUME Typed, NEW tid \in Invocations, Butterfly(tid), NEW s, phase[tid] \div 2 = s
  PROVE  LET len == 2 ^ s
             hlen == len \div 2
             j == tid % hlen
             lo == (tid \div hlen) * len + j
             c == FrMul(tile[lo + hlen], RootAt(Roots, j * (DomainSize \div len))) IN
         /\ s \in 1..LogN /\ phase[tid] = 2 * s
         /\ tid < Q.n \div 2 =>
              /\ tile[lo] \in Field /\ c \in Field
              /\ tile' = [tile EXCEPT ![lo] = FrAdd(tile[lo], c), ![lo + hlen] = FrSub(tile[lo], c)]
         /\ ~(tid < Q.n \div 2) => tile' = tile
  <1> DEFINE len == 2 ^ s
             hlen == len \div 2
             j == tid % hlen
             b == tid \div hlen
             lo == b * len + j
             r == j * (Q.n \div len) * Q.root
             w == RootAt(Roots, j * (DomainSize \div len))
             c == FrMul(tile[lo + hlen], w)
  <1>1. pass < 3 /\ Shape /\ Running
    BY Shaped DEF Butterfly
  <1>2. s \in 1..LogN /\ phase[tid] = 2 * s
    <2>1. phase[tid] % 2 = 0 /\ phase[tid] \in 2..(LastPhase - 1)
      BY DEF Butterfly
    <2>2. phase[tid] \in Nat /\ LastPhase = 2 * LogN + 2 /\ LogN \in Nat
      BY <1>1, Phases
    <2> QED BY <2>1, <2>2
  <1>3. /\ ~(tid < Q.n \div 2) => tile' = tile
        /\ tid < Q.n \div 2 =>
             tile' = [tile EXCEPT ![lo] = FrAdd(@, FrMul(tile[lo + hlen], Roots[r])),
                                  ![lo + hlen] = FrSub(tile[lo], FrMul(tile[lo + hlen], Roots[r]))]
    BY DEF Butterfly
  <1>4. ASSUME tid < Q.n \div 2
        PROVE  /\ tile[lo] \in Field /\ c \in Field
               /\ tile' = [tile EXCEPT ![lo] = FrAdd(tile[lo], c), ![lo + hlen] = FrSub(tile[lo], c)]
    <2>1. /\ lo \in 0..(Q.n - 1) /\ lo + hlen \in 0..(Q.n - 1)
          /\ Roots[r] = w /\ j * (DomainSize \div len) \in Nat
      BY <1>1, <1>2, <1>4, PairIs
    <2>2. tile[lo] \in Field /\ tile[lo + hlen] \in Field
      BY <1>1, <2>1 DEF Shape, Running
    <2>3. w \in Field
      <3>1. Roots \in RootTables
        BY <1>1 DEF Running, Transformable
      <3> QED BY <2>1, <3>1, Weights
    <2>4. c \in Field
      BY <2>2, <2>3, Closed
    <2> HIDE DEF lo, hlen, r, w
    <2>5. tile' = [tile EXCEPT ![lo] = FrAdd(tile[lo], c), ![lo + hlen] = FrSub(tile[lo], c)]
      BY <1>3, <1>4, <2>1
    <2> QED BY <2>2, <2>4, <2>5
  <1> QED BY <1>2, <1>3, <1>4, Zenon

\* A butterfly keeps the types.
LEMMA TypedButterfly ==
  ASSUME Typed, NEW tid \in Invocations, Butterfly(tid) PROVE Typed'
  <1> DEFINE s == phase[tid] \div 2
             len == 2 ^ s
             hlen == len \div 2
             j == tid % hlen
             lo == (tid \div hlen) * len + j
             c == FrMul(tile[lo + hlen], RootAt(Roots, j * (DomainSize \div len)))
  <1>1. pass < 3 /\ Shape /\ Running
    BY Shaped DEF Butterfly
  <1>2. /\ s \in 1..LogN /\ phase[tid] = 2 * s
        /\ tid < Q.n \div 2 =>
             /\ tile[lo] \in Field /\ c \in Field
             /\ tile' = [tile EXCEPT ![lo] = FrAdd(tile[lo], c), ![lo + hlen] = FrSub(tile[lo], c)]
        /\ ~(tid < Q.n \div 2) => tile' = tile
    BY ButterflyIs
  <1> HIDE DEF lo, hlen, c
  <1>3. tile' \in [Invocations -> Field]
    <2>1. CASE tid < Q.n \div 2
      <3>1. FrAdd(tile[lo], c) \in Field /\ FrSub(tile[lo], c) \in Field
        BY <1>2, <2>1, Closed, SubIs
      <3> QED BY <1>1, <1>2, <2>1, <3>1 DEF Shape
    <2>2. CASE ~(tid < Q.n \div 2)
      BY <1>1, <1>2, <2>2 DEF Shape
    <2> QED BY <2>1, <2>2
  <1>4. 2 * s + 1 \in 0..(LastPhase + 1)
    BY <1>1, <1>2, Phases
  <1>5. /\ phase' = [phase EXCEPT ![tid] = 2 * s + 1] /\ UNCHANGED <<job, in, mid, out, pass, group>>
    <2>1. phase' = [phase EXCEPT ![tid] = phase[tid] + 1] /\ UNCHANGED <<job, in, mid, out, pass, group>>
      BY DEF Butterfly
    <2> QED BY <1>2, <2>1
  <1>6. mid' \in [Exponents -> Field] /\ out' \in [Exponents -> Field]
    BY <1>1, <1>5 DEF Shape, Buffers
  <1> HIDE DEF s
  <1> QED BY <1>3, <1>4, <1>5, <1>6, TypedWithin

\* What an invocation loads, and where.
LEMMA LoadIs ==
  ASSUME Typed, NEW tid \in Invocations, Load(tid)
  PROVE  /\ pass < 3 /\ phase[tid] = 0 /\ phase' = [phase EXCEPT ![tid] = 1]
         /\ UNCHANGED <<job, in, mid, out, pass, group>>
         /\ tid < Q.n => /\ tid \in 0..(Q.n - 1)
                         /\ Source(pass, group)[tid] \in Field
                         /\ tile' = [tile EXCEPT ![Brev(tid, LogN)] = Source(pass, group)[tid]]
         /\ ~(tid < Q.n) => tile' = tile
  <1>1. pass < 3 /\ Shape /\ Running
    BY Shaped DEF Load
  <1>2. ASSUME tid < Q.n
        PROVE  /\ tid \in 0..(Q.n - 1)
               /\ Source(pass, group)[tid] \in Field
               /\ Loaded(tid) = Source(pass, group)[tid]
    <2>1. tid \in 0..(Q.n - 1)
      <3>1. Invocations = 0..(Cells - 1) \/ Invocations = 0..(Width - 1)
        BY DEF Invocations
      <3>2. tid \in Nat
        BY <3>1, Sizes, NttAssumption
      <3> QED BY <1>1, <1>2, <3>2 DEF Running
    <2>2. Loaded(tid) = Source(pass, group)[tid]
      BY <1>1, <2>1 DEF Loaded, Source, Shape
    <2>3. Source(pass, group) \in [0..(2 ^ LogN - 1) -> Field]
      BY <1>1 DEF Running, Transformable
    <2> QED BY <1>1, <2>1, <2>2, <2>3 DEF Running
  <1> QED BY <1>1, <1>2 DEF Load, LoadSlot

\* A load keeps the types.
LEMMA TypedLoad ==
  ASSUME Typed, NEW tid \in Invocations, Load(tid) PROVE Typed'
  <1>1. pass < 3 /\ Shape /\ Running
    BY Shaped DEF Load
  <1>2. tile' \in [Invocations -> Field]
    BY <1>1, LoadIs DEF Shape
  <1>3. 1 \in 0..(LastPhase + 1)
    BY <1>1, Phases
  <1>4. mid' \in [Exponents -> Field] /\ out' \in [Exponents -> Field]
    BY <1>1, LoadIs DEF Shape, Buffers
  <1> QED BY <1>2, <1>3, <1>4, LoadIs, TypedWithin

\* Crossing a barrier keeps them.
LEMMA TypedCross ==
  ASSUME Typed, NEW tid \in Invocations, Cross(tid) PROVE Typed'
  <1>1. pass < 3 /\ Shape /\ Running
    BY Shaped DEF Cross
  <1> DEFINE k == phase[tid] + 1
  <1>2. k \in 0..(LastPhase + 1)
    BY <1>1, Phases DEF Cross
  <1>3. tile' \in [Invocations -> Field] /\ mid' \in [Exponents -> Field] /\ out' \in [Exponents -> Field]
    BY <1>1 DEF Cross, Shape, Buffers
  <1>4. phase' = [phase EXCEPT ![tid] = k] /\ UNCHANGED <<job, in, pass, group>>
    BY DEF Cross
  <1> HIDE DEF k
  <1> QED BY <1>2, <1>3, <1>4, TypedWithin

\* What an invocation stores, and where.
BufOf(p) == IF p = 1 THEN mid ELSE out

\* What an invocation stores, and where.
LEMMA StoreIs ==
  ASSUME Typed, NEW tid \in Invocations, Store(tid)
  PROVE  /\ pass < 3 /\ phase[tid] = LastPhase /\ phase' = [phase EXCEPT ![tid] = LastPhase + 1]
         /\ UNCHANGED <<job, in, pass, group, tile>>
         /\ pass = 1 => UNCHANGED out
         /\ pass = 2 => UNCHANGED mid
         /\ ~(tid < Q.n) => UNCHANGED <<mid, out>>
         /\ tid < Q.n => /\ tid \in 0..(Q.n - 1) /\ OutAt(Q, group, tid) \in Exponents
                         /\ Stored(tid) \in Field
                         /\ pass = 1 => mid' = [mid EXCEPT ![OutAt(Q, group, tid)] = Stored(tid)]
                         /\ pass = 2 => out' = [out EXCEPT ![OutAt(Q, group, tid)] = Stored(tid)]
  <1>1. pass < 3 /\ Shape /\ Running
    BY Shaped DEF Store
  <1>2. Q.n \in Nat /\ tid \in Nat
    <2>1. Invocations = 0..(Cells - 1) \/ Invocations = 0..(Width - 1)
      BY DEF Invocations
    <2>2. tid \in Nat
      BY <2>1, Sizes, NttAssumption
    <2> QED BY <1>1, <2>2 DEF Running
  <1>3. /\ phase[tid] = LastPhase /\ phase' = [phase EXCEPT ![tid] = LastPhase + 1]
        /\ UNCHANGED <<job, in, pass, group, tile>>
        /\ tid >= Q.n => UNCHANGED <<mid, out>>
        /\ ~(tid >= Q.n) /\ pass = 1 =>
             mid' = [mid EXCEPT ![OutAt(Q, group, tid)] = Stored(tid)] /\ UNCHANGED out
        /\ ~(tid >= Q.n) /\ pass # 1 =>
             out' = [out EXCEPT ![OutAt(Q, group, tid)] = Stored(tid)] /\ UNCHANGED mid
    BY DEF Store
  <1>4. (tid < Q.n) <=> ~(tid >= Q.n)
    BY <1>2
  <1>5. ASSUME tid < Q.n
        PROVE  /\ tid \in 0..(Q.n - 1) /\ OutAt(Q, group, tid) \in Exponents
               /\ Stored(tid) \in Field
    <2>1. tid \in 0..(Q.n - 1)
      BY <1>2, <1>5
    <2>2. OutAt(Q, group, tid) \in Elements
      BY <1>1, <2>1, PlacesAre DEF Shape, Running
    <2>3. Elements \subseteq Exponents
      BY <1>1, JobIs DEF Shape
    <2>4. tile[tid] \in Field /\ ScaleOf(pass) \in Field
      BY <1>1, <2>1 DEF Shape, Running
    <2>5. Twiddle(Q, Roots, group, tid) \in Field
      <3>1. CASE Q.twiddle = 0
        BY <3>1, Closed DEF Twiddle
      <3>2. CASE Q.twiddle # 0
        <4>1. pass = 1 /\ Q = Pass1(N, N1, N2)
          BY <1>1, <3>2 DEF Shape, QAt, Pass2
        <4>2. Q.twiddle = DomainSize \div N /\ Q.full_n = N
          BY <4>1 DEF Pass1
        <4>3. group \in Nat /\ tid \in Nat /\ group * tid \in Nat
          <5>1. group \in Nat
            BY <1>1 DEF Shape, Running
          <5> QED BY <1>2, <5>1
        <4>4. /\ N \in Nat \ {0} /\ DomainSize \div N \in Nat \ {0} /\ DomainSize = N * (DomainSize \div N)
              /\ Roots \in RootTables
          BY <1>1, JobIs DEF Shape
        <4>5. /\ ((group * tid) % N) * (DomainSize \div N) \in Exponents
          BY <4>3, <4>4, EntryIs
        <4>6. Roots[((group * tid) % N) * (DomainSize \div N)] \in Field
          <5>1. Roots \in [Exponents -> Field]
            BY <4>4, WeightIs
          <5> QED BY <4>5, <5>1
        <4> QED BY <3>2, <4>2, <4>6 DEF Twiddle
      <3> QED BY <3>1, <3>2
    <2>6. Stored(tid) \in Field
      BY <2>4, <2>5, Closed DEF Stored
    <2> QED BY <2>1, <2>2, <2>3, <2>6
  <1> QED BY <1>1, <1>3, <1>4, <1>5

\* A store keeps the types.
LEMMA TypedStore ==
  ASSUME Typed, NEW tid \in Invocations, Store(tid) PROVE Typed'
  <1>1. pass < 3 /\ Shape /\ Running
    BY Shaped DEF Store
  <1>2. /\ pass < 3 /\ phase' = [phase EXCEPT ![tid] = LastPhase + 1]
        /\ UNCHANGED <<job, in, pass, group, tile>>
    BY StoreIs
  <1>3. mid' \in [Exponents -> Field] /\ out' \in [Exponents -> Field]
    <2>1. pass \in {1, 2} /\ mid \in [Exponents -> Field] /\ out \in [Exponents -> Field]
      BY <1>1 DEF Shape, Buffers, Running, Runs
    <2>2. CASE tid < Q.n
      BY <2>1, <2>2, StoreIs
    <2>3. CASE ~(tid < Q.n)
      BY <2>1, <2>3, StoreIs
    <2> QED BY <2>2, <2>3
  <1>4. tile' \in [Invocations -> Field]
    BY <1>1, <1>2 DEF Shape
  <1>5. LastPhase + 1 \in 0..(LastPhase + 1)
    BY <1>1 DEF Shape, Running
  <1> QED BY <1>2, <1>3, <1>4, <1>5, TypedWithin

\* The change to the next workgroup, or dispatch, keeps them.
LEMMA TypedNextGroup ==
  ASSUME Typed, NextGroup PROVE Typed'
  <1>1. pass < 3 /\ Shape /\ Running
    BY Shaped DEF NextGroup
  <1>2. /\ UNCHANGED <<job, in, mid, out>>
        /\ phase' = [i \in Invocations |-> 0] /\ tile' = [i \in Invocations |-> Leftover]
        /\ \/ group + 1 < Q.groups /\ group' = group + 1 /\ pass' = pass
           \/ group' = 0 /\ pass' = pass + 1
    BY DEF NextGroup, FreshTile
  <1>3. Invocations' = Invocations /\ Q' = QAt(pass') /\ LogN' = LogAt(pass')
    BY <1>2, SameJob
  <1>4. pass \in {1, 2} /\ job \in Transforms /\ Runs(pass)
    BY <1>1 DEF Running, Runs, Shape
  <1>5. /\ pass' \in 1..3 /\ (pass' < 3 => Runs(pass)')
        /\ LogAt(pass') \in Nat \ {0} /\ group' \in 0..(QAt(pass').groups - 1)
    <2>1. CASE group + 1 < Q.groups /\ group' = group + 1 /\ pass' = pass
      <3>1. QAt(pass') = Q /\ LogAt(pass') = LogN /\ Runs(pass)'
        BY <1>1, <1>2, <1>4, <2>1 DEF Shape, Runs
      <3>2. group \in 0..(Q.groups - 1) /\ Q.groups \in Nat
        BY <1>1 DEF Shape, Running
      <3> QED BY <1>1, <1>4, <2>1, <3>1, <3>2 DEF Running
    <2>2. CASE group' = 0 /\ pass' = pass + 1
      <3>1. Runs(2) /\ QAt(pass') = QAt(2) /\ LogAt(pass') = LogAt(2) /\ pass' \in {2, 3}
        BY <1>4, <2>2 DEF Runs, QAt, LogAt
      <3>2. QAt(2).groups \in Nat \ {0} /\ LogAt(2) \in Nat \ {0}
        BY <1>4, <3>1, PassIs
      <3>3. pass' < 3 => Runs(pass)'
        BY <1>2, <3>1 DEF Runs
      <3> QED BY <2>2, <3>1, <3>2, <3>3
    <2> QED BY <1>2, <2>1, <2>2
  <1>6. 0 \in 0..(LastPhase' + 1)
    BY <1>3, <1>5 DEF LastPhase
  <1>7. phase' \in [Invocations' -> 0..(LastPhase' + 1)] /\ tile' \in [Invocations' -> Field]
    BY <1>1, <1>2, <1>3, <1>6 DEF Shape
  <1>8. job' \in Transforms /\ in' \in Inputs /\ mid' \in [Exponents -> Field] /\ out' \in [Exponents -> Field]
    BY <1>1, <1>2 DEF Shape, Buffers
  <1> QED BY <1>3, <1>5, <1>7, <1>8 DEF Typed, TypeOK

\* Every step keeps them.
LEMMA TypedNext == ASSUME Typed, [Next]_vars PROVE Typed'
  <1>1. CASE NextGroup
    BY <1>1, TypedNextGroup
  <1>2. ASSUME NEW tid \in Invocations, Load(tid) \/ Cross(tid) \/ Butterfly(tid) \/ Store(tid)
        PROVE  Typed'
    BY <1>2, TypedLoad, TypedCross, TypedButterfly, TypedStore
  <1>3. CASE UNCHANGED vars
    BY <1>3, SameJob DEF vars, Typed, TypeOK, Runs, Q, LogN, LastPhase, QAt, LogAt
  <1> QED BY <1>1, <1>2, <1>3 DEF Next

\* In every state the invocations, shared memory and the buffers have the types TypeOK
\* gives them, for any transform that fits the domain and the workgroup. In particular no
\* load, butterfly or store reads outside of an array, where what it finds need not be a
\* field element (k_ntt_pass.comp and k_build_circulant.comp, with the push constants of
\* nttPass1 and nttPass2 in src/vkzg.cpp).
THEOREM NttTypeCorrect == Spec => []TypeOK
  <1>1. Init => Typed
    BY TypedInit
  <1>2. Typed /\ [Next]_vars => Typed'
    BY TypedNext
  <1>3. Typed => TypeOK
    BY DEF Typed
  <1> QED BY <1>1, <1>2, <1>3, PTL DEF Spec

-----------------------------------------------------------------------------
(* Who writes a slot *)

\* The invocation that writes slot i at stage s: stage 0 is the load.
Owner(s, i) == IF s = 0 THEN Brev(i, LogN)
               ELSE (i \div 2 ^ s) * 2 ^ (s - 1) + (i % 2 ^ (s - 1))

\* A pair of stage s has one owner, and an owner one pair.
PairAt(h, tid, lo) ==
  /\ lo \in Nat
  /\ lo \div (2 * h) = tid \div h /\ lo % h = tid % h /\ lo % (2 * h) = tid % h
  /\ (lo + h) \div (2 * h) = tid \div h /\ (lo + h) % h = tid % h
  /\ (lo + h) % (2 * h) = (tid % h) + h
  /\ (tid \div h) * h + (tid % h) = tid

\* The slots an invocation combines are those it owns.
LEMMA PairOwned ==
  ASSUME NEW h \in Nat \ {0}, NEW tid \in Nat, NEW lo, lo = (tid \div h) * (2 * h) + (tid % h)
  PROVE  PairAt(h, tid, lo)
  <1> DEFINE b == tid \div h
             j == tid % h
             l == 2 * h
  <1>1. b \in Nat /\ j \in 0..(h - 1) /\ tid = j + h * b
    BY Division
  <1> HIDE DEF b, j
  <1>2. l \in Nat \ {0} /\ b \in Int /\ j \in 0..(l - 1) /\ j + h \in 0..(l - 1)
    BY <1>1
  <1>3. lo = j + l * b /\ lo + h = (j + h) + l * b
    <2>1. lo = b * (2 * h) + j
      BY DEF b, j
    <2>2. b * (2 * h) = l * b /\ l * b \in Nat
      BY <1>1
    <2> DEFINE y == l * b
    <2>3. lo = y + j /\ y \in Nat
      BY <2>1, <2>2
    <2> HIDE DEF y
    <2>4. y + j = j + y /\ (y + j) + h = (j + h) + y
      BY <1>1, <2>3
    <2>5. lo = j + y /\ lo + h = (j + h) + y
      BY <2>3, <2>4, Zenon
    <2> QED BY <2>5 DEF y
  <1>4. lo \div l = b /\ lo % l = j /\ (lo + h) \div l = b /\ (lo + h) % l = j + h
    <2> DEFINE k == j + h
    <2>1. l \in Nat \ {0} /\ b \in Int /\ j \in 0..(l - 1) /\ k \in 0..(l - 1)
      BY <1>2
    <2>2. lo = j + l * b /\ lo + h = k + l * b
      BY <1>3
    <2> HIDE DEF l, k
    <2>3. (j + l * b) \div l = b /\ (j + l * b) % l = j
      BY <2>1, DivisionIs
    <2>4. (k + l * b) \div l = b /\ (k + l * b) % l = k
      BY <2>1, DivisionIs
    <2> QED BY <2>2, <2>3, <2>4 DEF k
  <1>5. l * b = h * (2 * b) /\ h + h * (2 * b) = h * (2 * b + 1) /\ l * b \in Nat
    BY <1>1
  <1>6. lo % h = j /\ (lo + h) % h = j
    <2> DEFINE y == 2 * b
               z == 2 * b + 1
    <2>1. y \in Int /\ z \in Int /\ lo = j + h * y /\ lo + h = j + h * z
      <3> DEFINE v == h * (2 * b)
      <3>1. v \in Nat /\ lo = j + v /\ lo + h = (j + h) + v /\ h + v = h * (2 * b + 1)
        BY <1>3, <1>5
      <3> HIDE DEF v
      <3>2. lo + h = j + (h + v)
        BY <1>1, <3>1
      <3> QED BY <1>1, <3>1, <3>2 DEF v
    <2> HIDE DEF y, z
    <2> QED BY <1>1, <2>1, DivisionIs
  <1>7. lo \in Nat
    <2> DEFINE y == l * b
    <2>1. y \in Nat /\ lo = j + y
      BY <1>3, <1>5
    <2> HIDE DEF y
    <2> QED BY <1>1, <2>1
  <1>8. b * h + j = tid
    BY <1>1
  <1> QED BY <1>1, <1>2, <1>4, <1>6, <1>7, <1>8 DEF b, j, l, PairAt

\* The slots an invocation owns are those it combines.
LEMMA OwnerPair ==
  ASSUME NEW h \in Nat \ {0}, NEW i \in Nat, NEW t, t = (i \div (2 * h)) * h + (i % h)
  PROVE  /\ t \in Nat /\ t \div h = i \div (2 * h) /\ t % h = i % h
         /\ \/ i = (t \div h) * (2 * h) + (t % h)
            \/ i = (t \div h) * (2 * h) + (t % h) + h
         /\ \A c \in Nat : i < c * (2 * h) => t < c * h
  <1> DEFINE l == 2 * h
             b == i \div l
             r == i % l
             j == i % h
  <1>1. l \in Nat \ {0}
    OBVIOUS
  <1>2. b \in Nat /\ r \in 0..(l - 1) /\ i = r + l * b
    <2> HIDE DEF l
    <2> QED BY <1>1, Division
  <1> HIDE DEF b, r
  <1> DEFINE x == IF r < h THEN 0 ELSE 1
             k == IF r < h THEN r ELSE r - h
  <1>3. x \in {0, 1} /\ k \in 0..(h - 1) /\ r = k + h * x
    <2>1. CASE r < h
      BY <1>2, <2>1
    <2>2. CASE ~(r < h)
      BY <1>2, <2>2
    <2> QED BY <2>1, <2>2
  <1> HIDE DEF x, k
  <1>4. i = k + h * (2 * b + x)
    <2>1. h * (2 * b + x) = h * x + l * b
      BY <1>2, <1>3
    <2> DEFINE u == h * x
               v == l * b
               w == h * (2 * b + x)
    <2>2. u \in Nat /\ v \in Nat /\ w = u + v /\ i = r + v /\ r = k + u
      BY <1>1, <1>2, <1>3, <2>1
    <2> HIDE DEF u, v, w
    <2>3. i = k + w
      BY <1>2, <1>3, <2>2
    <2> QED BY <2>3 DEF w
  <1>5. j = k
    <2> DEFINE y == 2 * b + x
    <2>1. y \in Int
      BY <1>2, <1>3
    <2> HIDE DEF y
    <2>2. (k + h * y) % h = k
      BY <1>3, <2>1, DivisionIs
    <2> QED BY <1>4, <2>2 DEF y
  <1>6. t = k + h * b /\ t \in Nat
    <2>1. t = b * h + k
      BY <1>5 DEF b, j, l
    <2>2. b * h = h * b /\ h * b \in Nat
      BY <1>2
    <2> DEFINE y == h * b
    <2>3. t = y + k /\ y \in Nat
      BY <2>1, <2>2
    <2> HIDE DEF y
    <2>4. y + k = k + y /\ k + y \in Nat
      BY <1>3, <2>3
    <2>5. t = k + y /\ t \in Nat
      BY <2>3, <2>4, Zenon
    <2> QED BY <2>5 DEF y
  <1>7. t % h = k /\ t \div h = b
    <2>1. (k + h * b) % h = k /\ (k + h * b) \div h = b
      <3>1. b \in Int
        BY <1>2
      <3> QED BY <1>3, <3>1, DivisionIs
    <2> QED BY <1>6, <2>1, Zenon
  <1>8. \/ i = (t \div h) * (2 * h) + (t % h)
        \/ i = (t \div h) * (2 * h) + (t % h) + h
    <2> DEFINE y == b * (2 * h)
    <2>1. y = l * b /\ y \in Nat
      BY <1>2
    <2> HIDE DEF y
    <2>2. i = r + y /\ (r = k \/ r = k + h)
      <3>1. h * 0 = 0 /\ h * 1 = h
        OBVIOUS
      <3> QED BY <1>2, <1>3, <2>1, <3>1
    <2>3. i = y + k \/ i = y + k + h
      BY <1>2, <1>3, <2>1, <2>2
    <2> QED BY <1>7, <2>3 DEF y
  <1>9. ASSUME NEW c \in Nat, i < c * (2 * h) PROVE t < c * h
    <2>1. b < c
      <3> SUFFICES ASSUME b >= c PROVE FALSE
        BY <1>2, <1>9
      <3> DEFINE d == b - c
      <3>1. d \in Nat /\ b = c + d
        BY <1>2, <1>9
      <3> HIDE DEF d
      <3>2. l * (c + d) = c * (2 * h) + l * d /\ l * d \in Nat /\ c * (2 * h) \in Nat
        BY <1>9, <3>1
      <3> DEFINE u == l * b
                 v == c * (2 * h)
                 w == l * d
      <3>3. u = v + w /\ v \in Nat /\ w \in Nat /\ i = r + u /\ i < v
        BY <1>2, <1>9, <3>1, <3>2
      <3> HIDE DEF u, v, w
      <3> QED BY <1>1, <1>2, <3>3
    <2> DEFINE d == c - (b + 1)
    <2>2. d \in Nat /\ c = (b + 1) + d
      BY <1>2, <1>9, <2>1
    <2> HIDE DEF d
    <2>3. ((b + 1) + d) * h = (h * b + h) + d * h /\ h * b \in Nat /\ d * h \in Nat
      BY <1>2, <2>2
    <2> DEFINE u == h * b
               v == c * h
               w == d * h
    <2>4. v = (u + h) + w /\ u \in Nat /\ w \in Nat /\ t = k + u
      BY <1>6, <2>2, <2>3
    <2> HIDE DEF u, v, w
    <2>5. t < v
      BY <1>3, <2>4
    <2> QED BY <2>5 DEF v
  <1> QED BY <1>5, <1>6, <1>7, <1>8, <1>9 DEF b, j, l

\* The stages an invocation is through with.
Done(t) == (phase[t] + 1) \div 2

\* No invocation is a stage ahead of another.
Barriers == \A t, u \in Invocations : phase[u] >= 2 * (phase[t] \div 2) - 1

\* Slot i has been through stage s, and not through the next.
At(s, i) == Done(Owner(s, i)) > s /\ (s < LogN => Done(Owner(s + 1, i)) <= s + 1)

\* A slot that has been through stage s holds its entry of the transform of the block of
\* 2^s slots it is in, as of the loaded group.
Tiled == pass < 3 => \A i \in 0..(Q.n - 1), s \in 0..LogN :
  At(s, i) => tile[i] = StageSum(Source(pass, group), Roots, LogN, s, i \div 2 ^ s, i % 2 ^ s)

\* The slots of shared memory that are used.
Slots == 0..(Q.n - 1)

\* A stage cuts the slots in blocks of two halves.
LEMMA StageSizes ==
  ASSUME NEW L \in Nat, NEW s \in 1..L
  PROVE  LET h == 2 ^ (s - 1) IN
         /\ h \in Nat \ {0} /\ 2 ^ s = 2 * h /\ (2 ^ s) \div 2 = h
         /\ \E c \in Nat : 2 ^ L = c * (2 * h) /\ 2 ^ L \div 2 = c * h
  <1> DEFINE r == s - 1
             e == L - s
             h == 2 ^ r
             c == 2 ^ e
  <1>1. r \in Nat /\ s = r + 1 /\ e \in Nat /\ e + s = L /\ s \in Nat
    OBVIOUS
  <1>2. h \in Nat \ {0} /\ 2 ^ (r + 1) = 2 * h
    <2> HIDE DEF r
    <2> QED BY <1>1, PowersOfTwo
  <1>3. c \in Nat /\ 2 ^ (e + s) = c * 2 ^ s
    <2> HIDE DEF e
    <2> QED BY <1>1, TwoAdds, PowersOfTwo
  <1>4. 2 ^ s = 2 * h /\ 2 ^ L = c * (2 * h)
    BY <1>1, <1>2, <1>3
  <1> HIDE DEF h, c
  <1>5. (2 * h) \div 2 = h
    BY <1>2
  <1>6. 2 ^ L \div 2 = c * h
    <2> DEFINE y == c * h
    <2>1. c * (2 * h) = 2 * y /\ y \in Nat
      BY <1>2, <1>3
    <2> HIDE DEF y
    <2>2. (2 * y) \div 2 = y
      BY <2>1
    <2> QED BY <1>4, <2>1, <2>2 DEF y
  <1> QED BY <1>2, <1>3, <1>4, <1>5, <1>6 DEF h

\* An owner is one of the workgroup's.
LEMMA OwnerBelow ==
  ASSUME NEW L \in Nat, NEW s \in 0..L, NEW i \in 0..(2 ^ L - 1), NEW t,
         t = IF s = 0 THEN Brev(i, L) ELSE (i \div 2 ^ s) * 2 ^ (s - 1) + (i % 2 ^ (s - 1))
  PROVE  t \in 0..(2 ^ L - 1) /\ (s # 0 => t < 2 ^ L \div 2)
  <1> DEFINE n == 2 ^ L
  <1>1. n \in Nat \ {0} /\ i \in Nat /\ i < n
    BY PowersOfTwo
  <1>2. CASE s = 0
    BY <1>1, <1>2, BrevBelow
  <1>3. CASE s # 0
    <2> DEFINE h == 2 ^ (s - 1)
    <2>1. s \in 1..L
      BY <1>3
    <2>2. h \in Nat \ {0} /\ 2 ^ s = 2 * h /\ \E c \in Nat : n = c * (2 * h) /\ n \div 2 = c * h
      BY <2>1, StageSizes
    <2>3. t = (i \div (2 * h)) * h + (i % h)
      BY <1>3, <2>2
    <2>4. PICK c \in Nat : n = c * (2 * h) /\ n \div 2 = c * h
      BY <2>2
    <2> HIDE DEF h, n
    <2>5. t \in Nat /\ \A a \in Nat : i < a * (2 * h) => t < a * h
      BY <1>1, <2>2, <2>3, OwnerPair
    <2>6. i < c * (2 * h)
      BY <1>1, <2>4, Zenon
    <2>7. t < c * h
      BY <2>5, <2>6
    <2>8. t < n \div 2
      BY <2>4, <2>7, Zenon
    <2>9. n \div 2 <= n /\ n \div 2 \in Int
      BY <1>1
    <2>10. t \in 0..(n - 1)
      <3> DEFINE k == n \div 2
      <3>1. t < k /\ k <= n /\ k \in Int
        BY <2>8, <2>9
      <3> HIDE DEF k
      <3>2. t < n
        BY <1>1, <2>5, <3>1
      <3> QED BY <1>1, <2>5, <3>2
    <2> QED BY <2>8, <2>10 DEF n
  <1> QED BY <1>2, <1>3

\* The owner of a slot, in a state.
LEMMA OwnerIs ==
  ASSUME Typed, pass < 3, NEW s \in 0..LogN, NEW i \in Slots
  PROVE  /\ Owner(s, i) \in Slots /\ Owner(s, i) \in Invocations /\ i \in Nat
         /\ s # 0 => Owner(s, i) < Q.n \div 2
  <1>1. Running
    BY Shaped
  <1>2. /\ LogN \in Nat /\ Q.n = 2 ^ LogN /\ Q.n \in Nat \ {0} /\ Slots \subseteq Invocations
        /\ Slots = 0..(2 ^ LogN - 1)
    BY <1>1 DEF Running, Slots
  <1>3. i \in Nat
    BY <1>2
  <1> DEFINE t == Owner(s, i)
             L == LogN
  <1>4. t = IF s = 0 THEN Brev(i, L) ELSE (i \div 2 ^ s) * 2 ^ (s - 1) + (i % 2 ^ (s - 1))
    BY DEF Owner
  <1>5. t \in 0..(2 ^ L - 1) /\ (s # 0 => t < 2 ^ L \div 2)
    <2>1. L \in Nat /\ s \in 0..L /\ i \in 0..(2 ^ L - 1)
      BY <1>2
    <2> HIDE DEF t, L
    <2> QED BY <1>4, <2>1, OwnerBelow
  <1> QED BY <1>2, <1>3, <1>5

-----------------------------------------------------------------------------
(* The barriers *)

\* Everybody starts in phase 0.
LEMMA BarriersInit == ASSUME Init PROVE Barriers
  BY DEF Init, Barriers

\* A step within a workgroup moves one invocation on by one; out of an odd
\* phase, only if none is behind it.
LEMMA BarriersWithin ==
  ASSUME Typed, pass < 3, Barriers, job' = job, NEW tid \in Invocations,
         phase' = [phase EXCEPT ![tid] = phase[tid] + 1],
         phase[tid] % 2 = 1 => \A u \in Invocations : phase[u] >= phase[tid]
  PROVE  Barriers'
  <1>1. Invocations' = Invocations /\ Shape
    BY SameJob, Shaped
  <1>2. \A t \in Invocations : phase[t] \in Nat
    BY Phases
  <1>3. \A t \in Invocations : phase'[t] = IF t = tid THEN phase[tid] + 1 ELSE phase[t]
    BY <1>1 DEF Shape
  <1>4. ASSUME NEW t \in Invocations, NEW u \in Invocations
        PROVE  phase'[u] >= 2 * (phase'[t] \div 2) - 1
    <2>1. phase[u] >= 2 * (phase[t] \div 2) - 1
      BY DEF Barriers
    <2>2. phase'[u] >= phase[u] /\ phase'[u] \in Nat
      BY <1>2, <1>3
    <2>3. CASE t # tid
      BY <1>2, <1>3, <2>1, <2>2, <2>3
    <2>4. CASE t = tid /\ phase[tid] % 2 = 0
      BY <1>2, <1>3, <2>1, <2>2, <2>4
    <2>5. CASE t = tid /\ phase[tid] % 2 = 1
      BY <1>2, <1>3, <2>2, <2>5
    <2>6. phase[tid] % 2 \in {0, 1}
      BY <1>2
    <2> QED BY <2>3, <2>4, <2>5, <2>6
  <1> QED BY <1>1, <1>4 DEF Barriers

\* Every step keeps the barriers.
LEMMA BarriersNext == ASSUME Typed, Barriers, [Next]_vars PROVE Barriers'
  <1>1. ASSUME NextGroup PROVE Barriers'
    <2>1. job' = job /\ phase' = [i \in Invocations |-> 0]
      BY <1>1 DEF NextGroup
    <2>2. Invocations' = Invocations
      BY <2>1, SameJob
    <2>3. \A t \in Invocations : phase'[t] = 0
      BY <2>1
    <2> QED BY <2>2, <2>3 DEF Barriers
  <1>2. ASSUME NEW tid \in Invocations, Load(tid) \/ Cross(tid) \/ Butterfly(tid) \/ Store(tid)
        PROVE  Barriers'
    <2>1. pass < 3 /\ job' = job /\ phase' = [phase EXCEPT ![tid] = phase[tid] + 1]
      BY <1>2 DEF Load, Cross, Butterfly, Store
    <2>2. phase[tid] \in Nat /\ LastPhase = 2 * LogN + 2 /\ LogN \in Nat
      BY <2>1, Phases
    <2>3. phase[tid] % 2 = 1 => \A u \in Invocations : phase[u] >= phase[tid]
      <3>1. CASE Cross(tid)
        BY <3>1 DEF Cross, BarrierOpen
      <3>2. CASE Load(tid) \/ Butterfly(tid) \/ Store(tid)
        BY <2>2, <3>2 DEF Load, Butterfly, Store
      <3> QED BY <1>2, <3>1, <3>2
    <2> QED BY <2>1, <2>3, BarriersWithin
  <1>3. CASE UNCHANGED vars
    BY <1>3, SameJob DEF vars, Barriers
  <1> QED BY <1>1, <1>2, <1>3 DEF Next

-----------------------------------------------------------------------------
(* Shared memory *)

\* The values the phases of a workgroup's invocations have to one another.
LEMMA Together ==
  ASSUME Typed, pass < 3, Barriers, NEW tid \in Invocations, NEW s \in 0..LogN, phase[tid] = 2 * s,
         NEW t \in Invocations
  PROVE  /\ phase[t] \in Nat /\ phase[t] >= 2 * s - 1 /\ phase[t] <= 2 * s + 1
         /\ Done(t) \in Nat /\ Done(t) >= s /\ Done(t) <= s + 1 /\ Done(tid) = s
  <1>1. phase[t] \in Nat /\ s \in Nat
    BY Phases
  <1>2. phase[t] >= 2 * (phase[tid] \div 2) - 1 /\ phase[tid] >= 2 * (phase[t] \div 2) - 1
    BY DEF Barriers
  <1> QED BY <1>1, <1>2 DEF Done

\* Done, of the next state.
After(t) == (phase'[t] + 1) \div 2

\* An invocation that takes stage s moves its slots on, and only them.
LEMMA Moved ==
  ASSUME Typed, pass < 3, Barriers, UNCHANGED <<job, in, mid, pass, group>>,
         NEW tid \in Invocations, NEW s \in 0..LogN, phase[tid] = 2 * s,
         phase' = [phase EXCEPT ![tid] = 2 * s + 1],
         NEW i \in Slots, NEW u \in 0..LogN, At(u, i)'
  PROVE  /\ Owner(s, i) # tid => At(u, i)
         /\ Owner(s, i) = tid => u = s
  <1>1. /\ Shape /\ Running /\ Invocations' = Invocations /\ LogN' = LogN
    BY Shaped, SameJob DEF Shape
  <1>2. \A v, k : Owner(v, k)' = Owner(v, k)
    BY <1>1 DEF Owner
  <1>3. LogN \in Nat /\ s \in Nat /\ u \in Nat
    BY <1>1 DEF Running
  <1>4. ASSUME NEW t \in Invocations
        PROVE  /\ t = tid => After(t) = s + 1 /\ Done(t) = s
               /\ t # tid => After(t) = Done(t)
               /\ Done(t) \in Nat /\ Done(t) >= s /\ Done(t) <= s + 1
    <2>1. phase'[t] = IF t = tid THEN 2 * s + 1 ELSE phase[t]
      BY <1>1 DEF Shape
    <2>2. Done(t) \in Nat /\ Done(t) >= s /\ Done(t) <= s + 1 /\ Done(tid) = s
      BY Together
    <2>3. ((2 * s + 1) + 1) \div 2 = s + 1
      BY <1>3
    <2> QED BY <2>1, <2>2, <2>3 DEF Done, After
  <1> DEFINE a == Owner(u, i)
             b == Owner(u + 1, i)
  <1>5. a \in Invocations /\ (u < LogN => b \in Invocations)
    <2>1. u < LogN => u + 1 \in 0..LogN
      BY <1>3
    <2> QED BY <2>1, OwnerIs
  <1>6. After(a) > u /\ (u < LogN => After(b) <= u + 1)
    BY <1>1, <1>2 DEF At, Done, After
  <1>7. ASSUME Owner(s, i) # tid PROVE At(u, i)
    <2>1. Done(a) > u
      <3>1. CASE a = tid
        <4>1. u # s
          BY <1>7, <3>1
        <4> QED BY <1>3, <1>4, <1>5, <1>6, <3>1, <4>1
      <3>2. CASE a # tid
        BY <1>4, <1>5, <1>6, <3>2
      <3> QED BY <3>1, <3>2
    <2>2. u < LogN => Done(b) <= u + 1
      <3> SUFFICES ASSUME u < LogN PROVE Done(b) <= u + 1
        OBVIOUS
      <3>1. After(b) <= u + 1 /\ b \in Invocations
        BY <1>5, <1>6
      <3> QED BY <1>3, <1>4, <3>1
    <2> QED BY <2>1, <2>2 DEF At
  <1>8. ASSUME Owner(s, i) = tid PROVE u = s
    <2>1. ASSUME u > s PROVE FALSE
      <3>1. After(a) > u /\ After(a) <= s + 1
        BY <1>3, <1>4, <1>5, <1>6
      <3>2. After(a) \in Nat
        BY <1>3, <1>4, <1>5
      <3> QED BY <1>3, <2>1, <3>1, <3>2
    <2>2. ASSUME u < s PROVE FALSE
      <3>1. u < LogN
        BY <1>3, <2>2
      <3>2. After(b) <= u + 1 /\ b \in Invocations
        BY <1>5, <1>6, <3>1
      <3>3. After(b) \in Nat /\ After(b) >= s
        BY <1>3, <1>4, <3>2
      <3>4. s = u + 1
        BY <1>3, <2>2, <3>2, <3>3
      <3>5. b = tid
        BY <1>8, <3>4
      <3> QED BY <1>3, <1>4, <3>2, <3>4, <3>5
    <2> QED BY <1>3, <2>1, <2>2
  <1> QED BY <1>7, <1>8

\* What an unmoved workgroup has to keep.
LEMMA TiledSame ==
  ASSUME Typed, pass < 3, job' = job, in' = in, pass' = pass, group' = group,
         pass = 2 => mid' = mid,
         \A i \in Slots, u \in 0..LogN : At(u, i)' =>
           tile'[i] = StageSum(Source(pass, group), Roots, LogN, u, i \div 2 ^ u, i % 2 ^ u)
  PROVE  Tiled'
  <1>1. Running /\ Shape
    BY Shaped
  <1>2. Q' = Q /\ LogN' = LogN /\ Roots' = Roots
    BY <1>1, SameJob DEF Shape
  <1>3. Source(pass, group)' = Source(pass, group)
    <2>1. QAt(pass)' = QAt(pass')
      BY <1>2, SameJob
    <2>2. pass \in {1, 2} /\ QAt(pass') = QAt(pass)
      BY <1>1 DEF Running, Runs
    <2>3. CASE pass = 1
      BY <2>1, <2>2, <2>3 DEF Source
    <2>4. CASE pass = 2
      BY <2>1, <2>2, <2>4 DEF Source
    <2> QED BY <2>2, <2>3, <2>4
  <1> QED BY <1>2, <1>3 DEF Tiled, Slots

\* Nothing is in shared memory when the transform starts.
LEMMA TiledInit == ASSUME Init PROVE Tiled
  <1>1. Typed /\ phase = [i \in Invocations |-> 0]
    BY TypedInit DEF Init
  <1>2. ASSUME pass < 3, NEW i \in Slots, NEW s \in 0..LogN, At(s, i) PROVE FALSE
    <2>1. Owner(s, i) \in Invocations
      BY <1>1, <1>2, OwnerIs
    <2>2. Done(Owner(s, i)) = 0
      BY <1>1, <2>1 DEF Done
    <2>3. LogN \in Nat
      BY <1>1, <1>2, Shaped DEF Running
    <2> QED BY <1>2, <2>2, <2>3 DEF At
  <1> QED BY <1>2 DEF Tiled, Slots

\* Nothing is when a workgroup does.
LEMMA TiledNextGroup == ASSUME Typed, NextGroup PROVE Tiled'
  <1>1. /\ phase' = [i \in Invocations |-> 0] /\ Invocations' = Invocations
        /\ Q' = QAt(pass') /\ LogN' = LogAt(pass') /\ job \in Transforms
    BY SameJob, Shaped DEF NextGroup, Shape
  <1>2. ASSUME (pass < 3)', NEW i \in Slots', NEW s \in (0..LogN)', At(s, i)' PROVE FALSE
    <2>1. Runs(pass') /\ pass' < 3
      <3>1. Typed'
        BY TypedNextGroup
      <3>2. job' = job
        BY DEF NextGroup
      <3> QED BY <1>2, <3>1, <3>2 DEF Typed, Runs
    <2> DEFINE L == LogN'
               o == Owner(s, i)'
    <2>2. /\ L \in Nat /\ Slots' = 0..(2 ^ L - 1) /\ Slots' \subseteq Invocations
          /\ s \in 0..L
      <3>1. /\ LogAt(pass') \in Nat \ {0} /\ QAt(pass').n = 2 ^ LogAt(pass')
            /\ 0..(QAt(pass').n - 1) \subseteq Invocations
        BY <1>1, <2>1, PassIs
      <3> QED BY <1>1, <1>2, <3>1 DEF Slots
    <2>3. o = IF s = 0 THEN Brev(i, L) ELSE (i \div 2 ^ s) * 2 ^ (s - 1) + (i % 2 ^ (s - 1))
      BY DEF Owner
    <2>4. o \in Invocations
      <3> HIDE DEF L, o
      <3>1. o \in 0..(2 ^ L - 1)
        BY <1>2, <2>2, <2>3, OwnerBelow
      <3> QED BY <2>2, <3>1
    <2>5. (phase'[o] + 1) \div 2 > s
      BY <1>2 DEF At, Done
    <2>6. (phase'[o] + 1) \div 2 = 0
      BY <1>1, <2>4
    <2> QED BY <2>2, <2>5, <2>6
  <1> QED BY <1>2 DEF Tiled, Slots

\* A load writes the slots of stage 0.
LEMMA TiledLoad ==
  ASSUME Typed, Barriers, Tiled, NEW tid \in Invocations, Load(tid) PROVE Tiled'
  <1>1. pass < 3 /\ Shape /\ Running
    BY Shaped DEF Load
  <1>2. /\ phase[tid] = 0 /\ phase' = [phase EXCEPT ![tid] = 1]
        /\ UNCHANGED <<job, in, mid, out, pass, group>>
        /\ tid < Q.n => /\ tid \in Slots
                        /\ tile' = [tile EXCEPT ![Brev(tid, LogN)] = Source(pass, group)[tid]]
        /\ ~(tid < Q.n) => tile' = tile
    BY LoadIs DEF Slots
  <1>3. ASSUME NEW i \in Slots, NEW u \in 0..LogN, At(u, i)'
        PROVE  tile'[i] = StageSum(Source(pass, group), Roots, LogN, u, i \div 2 ^ u, i % 2 ^ u)
    <2>0. i \in Nat /\ i < Q.n /\ LogN \in Nat /\ Q.n = 2 ^ LogN /\ Q.n \in Nat \ {0} /\ Slots \subseteq Invocations
      BY <1>1 DEF Running, Slots
    <2>1. /\ Owner(0, i) # tid => At(u, i)
          /\ Owner(0, i) = tid => u = 0
      <3> DEFINE z == 0
      <3>1. z \in 0..LogN /\ phase[tid] = 2 * z /\ phase' = [phase EXCEPT ![tid] = 2 * z + 1]
        BY <1>2, <2>0
      <3> HIDE DEF z
      <3>2. /\ Owner(z, i) # tid => At(u, i)
            /\ Owner(z, i) = tid => u = z
        BY <1>1, <1>2, <1>3, <3>1, Moved
      <3> QED BY <3>2 DEF z
    <2>2. Owner(0, i) = Brev(i, LogN)
      BY DEF Owner
    <2>3. CASE Owner(0, i) # tid
      <3>1. tile'[i] = tile[i]
        <4>1. CASE tid < Q.n
          <5>1. Brev(tid, LogN) # i
            <6> SUFFICES ASSUME Brev(tid, LogN) = i PROVE FALSE
              OBVIOUS
            <6>1. tid \in Nat /\ tid < 2 ^ LogN
              BY <1>2, <2>0, <4>1 DEF Slots
            <6>2. Brev(i, LogN) = tid % 2 ^ LogN
              BY <2>0, <6>1, BrevTwice
            <6>3. tid % 2 ^ LogN = tid
              <7> DEFINE n == 2 ^ LogN
              <7>1. n \in Nat \ {0} /\ tid < n
                BY <2>0, <6>1
              <7> HIDE DEF n
              <7>2. tid % n = tid
                BY <6>1, <7>1
              <7> QED BY <7>2 DEF n
            <6> QED BY <2>2, <2>3, <6>2, <6>3
          <5> QED BY <1>1, <1>2, <2>0, <4>1, <5>1 DEF Shape
        <4>2. CASE ~(tid < Q.n)
          BY <1>2, <4>2
        <4> QED BY <4>1, <4>2
      <3>2. At(u, i)
        BY <2>1, <2>3
      <3> QED BY <1>1, <3>1, <3>2 DEF Tiled, Slots
    <2>4. CASE Owner(0, i) = tid
      <3>1. tid \in 0..(2 ^ LogN - 1) /\ tid < Q.n
        BY <2>0, <2>2, <2>4, BrevBelow
      <3>2. Brev(tid, LogN) = i
        <4>1. Brev(tid, LogN) = i % 2 ^ LogN
          BY <2>0, <2>2, <2>4, BrevTwice
        <4> DEFINE n == 2 ^ LogN
        <4>2. n \in Nat \ {0} /\ i < n
          BY <2>0
        <4> HIDE DEF n
        <4>3. i % n = i
          BY <2>0, <4>2
        <4> QED BY <4>1, <4>3 DEF n
      <3>3. tile'[i] = Source(pass, group)[tid]
        BY <1>1, <1>2, <2>0, <3>1, <3>2 DEF Shape
      <3>4. StageSum(Source(pass, group), Roots, LogN, 0, i, 0) = Source(pass, group)[tid]
        <4>1. i \in 0..(2 ^ LogN - 1) /\ Transformable(Source(pass, group), Roots, LogN)
          BY <1>1, <2>0 DEF Running
        <4> QED BY <2>2, <2>4, <4>1, StageEnds
      <3>5. u = 0 /\ i \div 2 ^ 0 = i /\ i % 2 ^ 0 = 0
        BY <2>0, <2>1, <2>4, PowersOfTwo
      <3> QED BY <3>3, <3>4, <3>5
    <2> QED BY <2>3, <2>4
  <1> QED BY <1>1, <1>2, <1>3, TiledSame

\* A butterfly finds both of its slots at the stage before, and leaves them at its own.
LEMMA TiledButterfly ==
  ASSUME Typed, Barriers, Tiled, NEW tid \in Invocations, Butterfly(tid) PROVE Tiled'
  <1> DEFINE s == phase[tid] \div 2
             h == 2 ^ (s - 1)
             len == 2 ^ s
             j == tid % h
             b == tid \div h
             lo == b * len + j
             hi == lo + h
             w == RootAt(Roots, j * (DomainSize \div len))
             c == FrMul(tile[hi], w)
             x == Source(pass, group)
             L == LogN
             StageAt(v, k, m) == StageSum(x, Roots, L, v, k, m)
  <1>1. pass < 3 /\ Shape /\ Running /\ L \in Nat /\ Transformable(x, Roots, L)
    BY Shaped DEF Butterfly, Running
  <1>2. /\ phase' = [phase EXCEPT ![tid] = phase[tid] + 1]
        /\ UNCHANGED <<job, in, mid, out, pass, group>>
    BY DEF Butterfly
  <1>3. s \in 1..L /\ phase[tid] = 2 * s
    BY ButterflyIs
  <1>4. h \in Nat \ {0} /\ len = 2 * h /\ len \div 2 = h /\ s - 1 \in Nat
    <2>1. h \in Nat \ {0} /\ len = 2 * h /\ len \div 2 = h
      <3> HIDE DEF s
      <3> QED BY <1>1, <1>3, StageSizes
    <2> QED BY <1>3, <2>1
  <1>5. /\ tid < Q.n \div 2 =>
             /\ tile[lo] \in Field /\ c \in Field
             /\ tile' = [tile EXCEPT ![lo] = FrAdd(tile[lo], c), ![hi] = FrSub(tile[lo], c)]
             /\ lo \in Slots /\ hi \in Slots
        /\ ~(tid < Q.n \div 2) => tile' = tile
    <2>1. /\ tid < Q.n \div 2 =>
               /\ tile[lo] \in Field /\ c \in Field
               /\ tile' = [tile EXCEPT ![lo] = FrAdd(tile[lo], c), ![hi] = FrSub(tile[lo], c)]
          /\ ~(tid < Q.n \div 2) => tile' = tile
      BY <1>4, ButterflyIs
    <2>2. tid < Q.n \div 2 => lo \in Slots /\ hi \in Slots
      BY <1>1, <1>3, <1>4, PairIs DEF Slots
    <2> QED BY <2>1, <2>2
  <1>6. tid \in Nat /\ Slots \subseteq Invocations
    <2>1. Invocations = 0..(Cells - 1) \/ Invocations = 0..(Width - 1)
      BY DEF Invocations
    <2>2. tid \in Nat
      BY <2>1, Sizes, NttAssumption
    <2> QED BY <1>1, <2>2 DEF Running, Slots
  <1>7. /\ lo \div len = b /\ lo % h = j /\ lo % len = j
        /\ hi \div len = b /\ hi % h = j /\ hi % len = j + h
        /\ b * h + j = tid /\ b \in Nat /\ j \in Nat /\ j < h
    <2>1. /\ lo \div (2 * h) = b /\ lo % h = j /\ lo % (2 * h) = j
          /\ hi \div (2 * h) = b /\ hi % h = j /\ hi % (2 * h) = j + h
          /\ b * h + j = tid
      <3>1. lo = (tid \div h) * (2 * h) + (tid % h)
        BY <1>4
      <3>2. h \in Nat \ {0} /\ tid \in Nat
        BY <1>4, <1>6
      <3> HIDE DEF h, lo, len, b, j
      <3>3. PairAt(h, tid, lo)
        BY <3>1, <3>2, PairOwned
      <3> QED BY <3>3, Zenon DEF PairAt, b, j
    <2>2. b \in Nat /\ j \in Nat /\ j < h
      <3> HIDE DEF h
      <3>1. b \in Nat /\ j \in 0..(h - 1)
        BY <1>4, <1>6, Division
      <3> HIDE DEF j
      <3> QED BY <1>4, <3>1
    <2> QED BY <1>4, <2>1, <2>2
  \* The slots of this step.
  <1>8. ASSUME NEW i \in Slots, Owner(s, i) = tid PROVE tid < Q.n \div 2 /\ (i = lo \/ i = hi)
    <2>1. tid < Q.n \div 2 /\ i \in Nat
      BY <1>1, <1>3, <1>8, OwnerIs
    <2>2. tid = (i \div len) * h + (i % h)
      BY <1>3, <1>8 DEF Owner
    <2> HIDE DEF h, len
    <2>3. \/ i = (tid \div h) * (2 * h) + (tid % h)
          \/ i = (tid \div h) * (2 * h) + (tid % h) + h
      BY <1>4, <2>1, <2>2, OwnerPair
    <2> QED BY <1>4, <2>1, <2>3
  <1>9. tid < Q.n \div 2 => Owner(s, lo) = tid /\ Owner(s, hi) = tid
    BY <1>3, <1>7 DEF Owner
  \* They come from the stage before.
  <1>10. ASSUME tid < Q.n \div 2
         PROVE  tile'[lo] = StageAt(s, b, j) /\ tile'[hi] = StageAt(s, b, j + h)
    <2> DEFINE r == s - 1
    <2>1. r \in 0..L /\ r \in Nat /\ r < L /\ r + 1 = s
      BY <1>1, <1>3
    <2>2. ASSUME NEW i \in Slots, i = lo \/ i = hi PROVE At(r, i)
      <3>1. Owner(r, i) \in Invocations
        BY <1>1, <2>1, OwnerIs
      <3>2. Done(Owner(r, i)) \in Nat /\ Done(Owner(r, i)) >= s /\ Done(tid) = s
        <4>1. s \in 0..LogN
          BY <1>3
        <4> HIDE DEF s, r
        <4> QED BY <1>1, <1>3, <3>1, <4>1, Together
      <3>3. Owner(r + 1, i) = tid
        <4> HIDE DEF s, lo, hi, r
        <4> QED BY <1>9, <1>10, <2>1, <2>2
      <3>4. Done(Owner(r, i)) > r
        <4> HIDE DEF s, r
        <4> QED BY <1>3, <2>1, <3>2
      <3>5. Done(Owner(r + 1, i)) <= r + 1
        <4> HIDE DEF s, r
        <4> QED BY <1>3, <2>1, <3>2, <3>3
      <3> QED BY <3>4, <3>5 DEF At
    <2>3. /\ tile[lo] = StageAt(r, lo \div h, lo % h)
          /\ tile[hi] = StageAt(r, hi \div h, hi % h)
      <3>1. At(r, lo) /\ At(r, hi) /\ lo \in Slots /\ hi \in Slots
        BY <1>5, <1>10, <2>2
      <3> HIDE DEF lo, hi, s
      <3> QED BY <1>1, <2>1, <3>1 DEF Tiled, Slots
    <2>4. lo \div h = 2 * b /\ hi \div h = 2 * b + 1
      <3> HIDE DEF h, len, b, j, s
      <3>1. b * (2 * h) = h * (2 * b) /\ h * (2 * b) + h = h * (2 * b + 1) /\ h * (2 * b) \in Nat
        BY <1>4, <1>7
      <3> DEFINE y == h * (2 * b)
                 z == h * (2 * b + 1)
      <3>2. lo = j + y /\ hi = j + z
        <4>1. lo = y + j
          BY <1>4, <3>1
        <4>2. y \in Nat /\ z = y + h
          BY <3>1
        <4> HIDE DEF y, z, lo
        <4> QED BY <1>4, <1>7, <4>1, <4>2
      <3>3. (j + h * (2 * b)) \div h = 2 * b /\ (j + h * (2 * b + 1)) \div h = 2 * b + 1
        <4> DEFINE u == 2 * b
                   v == 2 * b + 1
        <4>1. u \in Int /\ v \in Int /\ j \in 0..(h - 1)
          BY <1>4, <1>7
        <4> HIDE DEF u, v
        <4>2. (j + h * u) \div h = u /\ (j + h * v) \div h = v
          BY <1>4, <4>1, DivisionIs
        <4> QED BY <4>2 DEF u, v
      <3> HIDE DEF lo, hi
      <3> QED BY <3>2, <3>3
    <2>5. /\ StageAt(r + 1, b, j) = FrAdd(tile[lo], c)
          /\ StageAt(r + 1, b, j + 2 ^ r) = FrSub(tile[lo], c)
      <3>1. tile[lo] = StageAt(r, 2 * b, j) /\ tile[hi] = StageAt(r, 2 * b + 1, j)
        <4> HIDE DEF lo, hi, h, j, b
        <4> QED BY <1>7, <2>3, <2>4
      <3>2. c = FrMul(tile[hi], RootAt(Roots, j * (DomainSize \div 2 ^ (r + 1))))
        BY <2>1
      <3> HIDE DEF lo, hi, j, b, x, c, r, s
      <3> QED BY <1>1, <1>7, <2>1, <3>1, <3>2, StageNext
    <2>6. 2 ^ r = h
      OBVIOUS
    <2>7. lo # hi /\ lo \in Invocations /\ hi \in Invocations
      <3>1. lo \in Nat
        <4>1. lo = (tid \div h) * (2 * h) + (tid % h) /\ h \in Nat \ {0} /\ tid \in Nat
          BY <1>4, <1>6
        <4> HIDE DEF h, lo, len, b, j
        <4>2. PairAt(h, tid, lo)
          BY <4>1, PairOwned
        <4> QED BY <4>2 DEF PairAt
      <3>2. lo \in Slots /\ hi \in Slots
        BY <1>5, <1>10
      <3> HIDE DEF lo, h
      <3> QED BY <1>4, <1>6, <3>1, <3>2
    <2>8. tile'[lo] = FrAdd(tile[lo], c) /\ tile'[hi] = FrSub(tile[lo], c)
      <3> HIDE DEF lo, hi, c
      <3> QED BY <1>1, <1>5, <1>10, <2>7 DEF Shape
    <2> HIDE DEF lo, hi, c, h, s
    <2> QED BY <2>1, <2>5, <2>6, <2>8
  <1>11. ASSUME NEW i \in Slots, NEW u \in 0..LogN, At(u, i)'
         PROVE  tile'[i] = StageAt(u, i \div 2 ^ u, i % 2 ^ u)
    <2>1. /\ Owner(s, i) # tid => At(u, i)
          /\ Owner(s, i) = tid => u = s
      <3>1. s \in 0..LogN
        BY <1>3
      <3> HIDE DEF s
      <3> QED BY <1>1, <1>2, <1>3, <1>11, <3>1, Moved
    <2>2. CASE Owner(s, i) # tid
      <3>1. tile'[i] = tile[i]
        <4>1. CASE tid < Q.n \div 2
          <5>1. i # lo /\ i # hi
            BY <1>9, <2>2, <4>1
          <5> HIDE DEF lo, hi, c
          <5> QED BY <1>1, <1>5, <1>6, <4>1, <5>1 DEF Shape
        <4>2. CASE ~(tid < Q.n \div 2)
          BY <1>5, <4>2
        <4> QED BY <4>1, <4>2
      <3>2. At(u, i)
        BY <2>1, <2>2
      <3> QED BY <1>1, <3>1, <3>2 DEF Tiled, Slots
    <2>3. CASE Owner(s, i) = tid
      <3>1. u = s /\ tid < Q.n \div 2 /\ (i = lo \/ i = hi)
        BY <1>8, <2>1, <2>3
      <3> HIDE DEF s, lo, hi, h, b, j
      <3> QED BY <1>7, <1>10, <3>1
    <2> QED BY <2>2, <2>3
  <1> HIDE DEF s
  <1> QED BY <1>1, <1>2, <1>11, TiledSame

\* Neither crossing a barrier nor storing moves a slot.
LEMMA TiledStill ==
  ASSUME Typed, pass < 3, Tiled, NEW tid \in Invocations, NEW k \in Nat,
         phase' = [phase EXCEPT ![tid] = k],
         UNCHANGED <<job, in, pass, group, tile>>, pass = 2 => mid' = mid,
         \/ (k + 1) \div 2 = Done(tid)
         \/ (k + 1) \div 2 >= Done(tid) /\ Done(tid) > LogN
  PROVE  Tiled'
  <1>1. Shape /\ Running /\ Invocations' = Invocations /\ LogN' = LogN
    BY Shaped, SameJob DEF Shape
  <1>2. \A v, i : Owner(v, i)' = Owner(v, i)
    BY <1>1 DEF Owner
  <1>3. LogN \in Nat
    BY <1>1 DEF Running
  <1>4. ASSUME NEW t \in Invocations
        PROVE  /\ Done(t) \in Nat
               /\ After(t) = IF t = tid THEN (k + 1) \div 2 ELSE Done(t)
    <2>1. phase'[t] = IF t = tid THEN k ELSE phase[t]
      BY <1>1 DEF Shape
    <2>2. phase[t] \in Nat
      BY Phases
    <2> QED BY <2>1, <2>2 DEF Done, After
  <1>5. ASSUME NEW i \in Slots, NEW u \in 0..LogN, At(u, i)' PROVE At(u, i)
    <2> DEFINE a == Owner(u, i)
               b == Owner(u + 1, i)
    <2>1. a \in Invocations /\ (u < LogN => b \in Invocations)
      <3>1. u < LogN => u + 1 \in 0..LogN
        BY <1>3
      <3> QED BY <3>1, OwnerIs
    <2>2. After(a) > u /\ (u < LogN => After(b) <= u + 1)
      BY <1>1, <1>2, <1>5 DEF At, Done, After
    <2>3. Done(a) > u
      BY <1>3, <1>4, <2>1, <2>2
    <2>4. u < LogN => Done(b) <= u + 1
      <3> DEFINE v == (k + 1) \div 2
      <3>1. v \in Nat
        OBVIOUS
      <3>2. v >= Done(tid) /\ Done(tid) \in Nat
        BY <1>4, <3>1
      <3> HIDE DEF v
      <3> SUFFICES ASSUME u < LogN PROVE Done(b) <= u + 1
        OBVIOUS
      <3>3. b \in Invocations /\ After(b) <= u + 1
        BY <2>1, <2>2
      <3>4. Done(b) <= After(b)
        BY <1>4, <3>2, <3>3 DEF v
      <3>5. Done(b) \in Nat /\ After(b) \in Nat
        BY <1>4, <3>1, <3>3 DEF v
      <3> QED BY <1>3, <3>3, <3>4, <3>5
    <2> QED BY <2>3, <2>4 DEF At
  <1>6. ASSUME NEW i \in Slots, NEW u \in 0..LogN, At(u, i)'
        PROVE  tile'[i] = StageSum(Source(pass, group), Roots, LogN, u, i \div 2 ^ u, i % 2 ^ u)
    BY <1>5, <1>6 DEF Tiled, Slots
  <1> QED BY <1>6, TiledSame

\* Every step keeps shared memory as it should be.
LEMMA TiledNext == ASSUME Typed, Barriers, Tiled, [Next]_vars PROVE Tiled'
  <1>1. CASE NextGroup
    BY <1>1, TiledNextGroup
  <1>2. ASSUME NEW tid \in Invocations, Cross(tid) PROVE Tiled'
    <2>1. pass < 3 /\ phase[tid] \in Nat /\ phase[tid] % 2 = 1
      BY <1>2, Phases DEF Cross
    <2> DEFINE k == phase[tid] + 1
    <2>2. k \in Nat /\ (k + 1) \div 2 = Done(tid)
      BY <2>1 DEF Done
    <2>3. phase' = [phase EXCEPT ![tid] = k] /\ UNCHANGED <<job, in, pass, group, tile, mid>>
      BY <1>2 DEF Cross
    <2> HIDE DEF k
    <2> QED BY <2>1, <2>2, <2>3, TiledStill
  <1>3. ASSUME NEW tid \in Invocations, Store(tid) PROVE Tiled'
    <2>1. /\ pass < 3 /\ phase[tid] = LastPhase /\ phase' = [phase EXCEPT ![tid] = LastPhase + 1]
          /\ UNCHANGED <<job, in, pass, group, tile>>
          /\ pass = 2 => mid' = mid
      BY <1>3, StoreIs
    <2>2. LastPhase = 2 * LogN + 2 /\ LogN \in Nat
      BY <2>1, Phases
    <2> DEFINE k == LastPhase + 1
    <2>3. k \in Nat /\ (k + 1) \div 2 >= Done(tid) /\ Done(tid) > LogN
      BY <2>1, <2>2 DEF Done
    <2> HIDE DEF k
    <2> QED BY <2>1, <2>3, TiledStill DEF k
  <1>4. ASSUME NEW tid \in Invocations, Load(tid) \/ Cross(tid) \/ Butterfly(tid) \/ Store(tid)
        PROVE  Tiled'
    BY <1>2, <1>3, <1>4, TiledLoad, TiledButterfly
  <1>5. CASE UNCHANGED vars
    <2>1. Q' = Q /\ LogN' = LogN /\ Roots' = Roots /\ Source(pass, group)' = Source(pass, group)
      BY <1>5 DEF vars, Q, LogN, Roots, Source, QAt, N, N1, N2
    <2>2. \A s, i : At(s, i)' = At(s, i)
      BY <1>5, <2>1 DEF vars, At, Owner, Done
    <2> QED BY <1>5, <2>1, <2>2 DEF Tiled, vars
  <1> QED BY <1>1, <1>4, <1>5 DEF Next

-----------------------------------------------------------------------------
(* The buffers *)

\* Element i of group g is in pass p's buffer.
Kept(p, g, i) == p < pass \/ (p = pass /\ (g < group \/ (g = group /\ phase[i] > LastPhase)))

\* What is in a buffer is the result of the group it belongs to.
Saved == \A p \in {1, 2} : Runs(p) =>
  \A g \in 0..(QAt(p).groups - 1), i \in 0..(QAt(p).n - 1) :
    Kept(p, g, i) => BufOf(p)[OutAt(QAt(p), g, i)] = Result(p, g, i)

\* What a dispatch is to store depends on the buffer it reads alone.
LEMMA SameResult ==
  ASSUME job' = job, in' = in, NEW p, Runs(p), p = 2 => mid' = mid, NEW g, NEW i
  PROVE  Result(p, g, i)' = Result(p, g, i)
  <1>1. QAt(p)' = QAt(p) /\ Roots' = Roots /\ LogAt(p)' = LogAt(p) /\ ScaleOf(p)' = ScaleOf(p)
    BY SameJob
  <1>2. Source(p, g)' = Source(p, g)
    <2>1. CASE p = 1
      BY <1>1, <2>1 DEF Source
    <2>2. CASE p = 2
      BY <1>1, <2>2 DEF Source
    <2> QED BY <2>1, <2>2 DEF Runs
  <1> QED BY <1>1, <1>2 DEF Result

\* It is enough to look at what a step adds.
LEMMA SavedWithin ==
  ASSUME Typed, pass < 3, Saved, job' = job, in' = in, pass = 2 => mid' = mid, pass' \in 1..3,
         ASSUME NEW p \in {1, 2}, Runs(p), p <= pass,
                NEW g \in 0..(QAt(p).groups - 1), NEW i \in 0..(QAt(p).n - 1), Kept(p, g, i)'
         PROVE  BufOf(p)'[OutAt(QAt(p), g, i)] = Result(p, g, i),
         \A p \in {1, 2} : pass < p =>
           \A g \in 0..(QAt(p).groups - 1), i \in 0..(QAt(p).n - 1) : ~Kept(p, g, i)'
  PROVE  Saved'
  <1>1. SUFFICES ASSUME NEW p \in {1, 2}, Runs(p)',
                        NEW g \in 0..(QAt(p)'.groups - 1), NEW i \in 0..(QAt(p)'.n - 1), Kept(p, g, i)'
                 PROVE  BufOf(p)'[OutAt(QAt(p)', g, i)] = Result(p, g, i)'
    BY DEF Saved
  <1>2. QAt(p)' = QAt(p) /\ Runs(p)
    BY <1>1, SameJob
  <1>3. pass \in {1, 2} /\ p <= pass
    <2>1. pass \in {1, 2}
      BY DEF Typed, Runs
    <2>2. p <= pass \/ pass < p
      BY <2>1
    <2> QED BY <1>1, <1>2, <2>1, <2>2
  <1>4. Result(p, g, i)' = Result(p, g, i)
    BY <1>2, <1>3, SameResult
  <1>5. BufOf(p)'[OutAt(QAt(p), g, i)] = Result(p, g, i)
    BY <1>1, <1>2, <1>3
  <1> QED BY <1>2, <1>4, <1>5

\* There is nothing in the buffers when the transform starts.
LEMMA SavedInit == ASSUME Init PROVE Saved
  <1>1. Typed /\ group = 0 /\ phase = [i \in Invocations |-> 0]
        /\ pass = IF job.circulant THEN 2 ELSE 1
    BY TypedInit DEF Init
  <1>2. SUFFICES ASSUME NEW p \in {1, 2}, Runs(p),
                        NEW g \in 0..(QAt(p).groups - 1), NEW i \in 0..(QAt(p).n - 1), Kept(p, g, i)
                 PROVE  FALSE
    BY DEF Saved
  <1>3. p >= pass
    <2>1. CASE job.circulant
      BY <1>1, <1>2, <2>1 DEF Runs
    <2>2. CASE ~job.circulant
      BY <1>1, <1>2, <2>2
    <2> QED BY <2>1, <2>2
  <1>4. pass \in {1, 2} /\ pass < 3 /\ job \in Transforms
    BY <1>1, Shaped DEF Shape
  <1>5. i \in Invocations /\ g \in Nat
    <2>1. QAt(p).groups \in Nat /\ 0..(QAt(p).n - 1) \subseteq Invocations
      BY <1>2, <1>4, PassIs
    <2> QED BY <1>2, <2>1
  <1>6. LastPhase = 2 * LogN + 2 /\ LogN \in Nat
    BY <1>1, <1>4, <1>5, Phases
  <1> QED BY <1>1, <1>2, <1>3, <1>4, <1>5, <1>6 DEF Kept

\* A step before the last phase adds nothing.
LEMMA SavedStill ==
  ASSUME Typed, pass < 3, Saved, UNCHANGED <<job, in, mid, out, pass, group>>,
         NEW tid \in Invocations, NEW k \in Nat, k <= LastPhase, phase' = [phase EXCEPT ![tid] = k]
  PROVE  Saved'
  <1>1. Shape /\ LogN' = LogN
    BY Shaped, SameJob DEF Shape
  <1>2. LastPhase' = LastPhase /\ LastPhase \in Nat
    BY <1>1, Phases DEF LastPhase
  <1>3. pass \in {1, 2} /\ pass' \in 1..3 /\ job \in Transforms
    BY <1>1 DEF Typed, Runs, Shape
  <1>4. ASSUME NEW p \in {1, 2}, Runs(p), NEW g, NEW i \in 0..(QAt(p).n - 1), Kept(p, g, i)'
        PROVE  Kept(p, g, i)
    <2>1. i \in Invocations
      BY <1>3, <1>4, PassIs
    <2>2. phase'[i] > LastPhase => phase[i] > LastPhase
      BY <1>1, <1>2, <2>1 DEF Shape
    <2> QED BY <1>2, <1>4, <2>2 DEF Kept
  <1>5. ASSUME NEW p \in {1, 2}, Runs(p), p <= pass,
               NEW g \in 0..(QAt(p).groups - 1), NEW i \in 0..(QAt(p).n - 1), Kept(p, g, i)'
        PROVE  BufOf(p)'[OutAt(QAt(p), g, i)] = Result(p, g, i)
    <2>1. BufOf(p)' = BufOf(p)
      BY DEF BufOf
    <2>2. Kept(p, g, i)
      BY <1>4, <1>5
    <2> QED BY <1>5, <2>1, <2>2 DEF Saved
  <1>6. \A p \in {1, 2} : pass < p =>
          \A g \in 0..(QAt(p).groups - 1), i \in 0..(QAt(p).n - 1) : ~Kept(p, g, i)'
    BY <1>3 DEF Kept
  <1> QED BY <1>3, <1>5, <1>6, SavedWithin

\* A slot of the last stage is stored.
LEMMA StoredIs ==
  ASSUME Typed, Barriers, Tiled, NEW tid \in Slots, Store(tid)
  PROVE  Stored(tid) = Result(pass, group, tid)
  <1>1. pass < 3 /\ Shape /\ Running
    BY Shaped DEF Store
  <1>2. /\ tid \in Invocations /\ tid \in Nat /\ tid < Q.n /\ LogN \in Nat /\ Q.n = 2 ^ LogN /\ Q.n \in Nat \ {0}
        /\ phase[tid] = LastPhase /\ LastPhase = 2 * LogN + 2
    BY <1>1 DEF Running, Shape, Slots, Store
  <1>3. At(LogN, tid)
    <2> DEFINE L == LogN
               o == Owner(L, tid)
    <2>1. o \in Invocations
      BY <1>1, <1>2, OwnerIs
    <2>2. phase[o] >= 2 * (phase[tid] \div 2) - 1 /\ phase[o] \in Nat
      BY <1>1, <1>2, <2>1, Phases DEF Barriers
    <2>3. Done(o) > L
      BY <1>2, <2>2 DEF Done
    <2>4. ~(L < L)
      BY <1>2
    <2> QED BY <2>3, <2>4 DEF At
  <1>4. tid \div 2 ^ LogN = 0 /\ tid % 2 ^ LogN = tid
    <2> DEFINE n == 2 ^ LogN
    <2>1. n \in Nat \ {0} /\ tid < n
      BY <1>2
    <2> HIDE DEF n
    <2>2. tid \div n = 0 /\ tid % n = tid
      BY <1>2, <2>1
    <2> QED BY <2>2 DEF n
  <1>5. tile[tid] = StageSum(Source(pass, group), Roots, LogN, LogN, tid \div 2 ^ LogN, tid % 2 ^ LogN)
    <2>1. LogN \in 0..LogN
      BY <1>2
    <2> QED BY <1>1, <1>3, <2>1 DEF Tiled, Slots
  <1>6. tile[tid] = StageSum(Source(pass, group), Roots, LogN, LogN, 0, tid)
    BY <1>4, <1>5
  <1>7. Q = QAt(pass) /\ LogN = LogAt(pass)
    BY <1>1 DEF Shape
  <1> QED BY <1>6, <1>7 DEF Stored, Result

\* An invocation stores the element that was missing, and overwrites none that is there.
LEMMA SavedStore ==
  ASSUME Typed, Barriers, Tiled, Saved, NEW tid \in Invocations, Store(tid) PROVE Saved'
  <1>1. pass < 3 /\ Shape /\ Running
    BY Shaped DEF Store
  <1>2. /\ phase[tid] = LastPhase /\ phase' = [phase EXCEPT ![tid] = LastPhase + 1]
        /\ UNCHANGED <<job, in, pass, group, tile>>
        /\ pass = 1 => UNCHANGED out
        /\ pass = 2 => UNCHANGED mid
        /\ ~(tid < Q.n) => UNCHANGED <<mid, out>>
        /\ tid < Q.n => /\ tid \in Slots /\ OutAt(Q, group, tid) \in Exponents
                        /\ pass = 1 => mid' = [mid EXCEPT ![OutAt(Q, group, tid)] = Stored(tid)]
                        /\ pass = 2 => out' = [out EXCEPT ![OutAt(Q, group, tid)] = Stored(tid)]
    BY StoreIs DEF Slots
  <1>3. pass \in {1, 2} /\ pass' \in 1..3 /\ job \in Transforms /\ Runs(pass) /\ Q = QAt(pass)
    BY <1>1, <1>2 DEF Running, Runs, Shape
  <1>4. LastPhase' = LastPhase /\ LastPhase \in Nat
    <2>1. LogN' = LogN
      BY <1>1, <1>2, SameJob DEF Shape
    <2> QED BY <1>1, <2>1, Phases DEF LastPhase
  <1>5. ASSUME NEW p \in {1, 2}, Runs(p), p <= pass,
               NEW g \in 0..(QAt(p).groups - 1), NEW i \in 0..(QAt(p).n - 1), Kept(p, g, i)'
        PROVE  BufOf(p)'[OutAt(QAt(p), g, i)] = Result(p, g, i)
    <2>1. i \in Invocations
      BY <1>3, <1>5, PassIs
    <2>2. phase'[i] = IF i = tid THEN LastPhase + 1 ELSE phase[i]
      BY <1>1, <1>2, <2>1 DEF Shape
    <2>3. CASE p < pass
      <3>1. p = 1 /\ pass = 2 /\ mid' = mid
        BY <1>2, <1>3, <2>3
      <3>2. Kept(p, g, i)
        BY <2>3 DEF Kept
      <3>3. BufOf(p)' = BufOf(p)
        BY <3>1 DEF BufOf
      <3> QED BY <1>5, <3>2, <3>3 DEF Saved
    <2>4. CASE p = pass /\ g = group /\ i = tid
      <3>1. tid < Q.n /\ tid \in Slots
        <4>1. Q.n \in Nat
          BY <1>1 DEF Running
        <4> QED BY <1>3, <1>5, <2>4, <4>1 DEF Slots
      <3>2. BufOf(p)'[OutAt(QAt(p), g, i)] = Stored(tid)
        <4>1. CASE pass = 1
          BY <1>1, <1>2, <1>3, <2>4, <3>1, <4>1 DEF BufOf, Shape, Buffers
        <4>2. CASE pass = 2
          BY <1>1, <1>2, <1>3, <2>4, <3>1, <4>2 DEF BufOf, Shape, Buffers
        <4> QED BY <1>3, <4>1, <4>2
      <3>3. Stored(tid) = Result(pass, group, tid)
        BY <3>1, StoredIs
      <3> QED BY <2>4, <3>2, <3>3
    <2>5. CASE p = pass /\ ~(g = group /\ i = tid)
      <3>1. Kept(p, g, i)
        <4>1. g < group \/ (g = group /\ phase'[i] > LastPhase)
          BY <1>2, <1>4, <1>5, <2>5 DEF Kept
        <4>2. g = group => phase'[i] = phase[i]
          BY <2>2, <2>5
        <4> QED BY <2>5, <4>1, <4>2 DEF Kept
      <3>2. BufOf(p)'[OutAt(QAt(p), g, i)] = BufOf(p)[OutAt(QAt(p), g, i)]
        <4>1. CASE tid < Q.n
          <5>1. OutAt(QAt(p), g, i) # OutAt(Q, group, tid)
            <6>1. /\ OutAt(QAt(p), g, i) % QAt(p).groups = g /\ OutAt(QAt(p), g, i) \div QAt(p).groups = i
              BY <1>3, <1>5, PlacesAre
            <6>2. /\ OutAt(QAt(p), group, tid) % QAt(p).groups = group
                  /\ OutAt(QAt(p), group, tid) \div QAt(p).groups = tid
              <7>1. group \in 0..(QAt(p).groups - 1) /\ tid \in 0..(QAt(p).n - 1)
                BY <1>1, <1>2, <1>3, <2>5, <4>1 DEF Shape, Slots
              <7> QED BY <1>3, <1>5, <7>1, PlacesAre
            <6>3. QAt(p) = Q
              BY <1>3, <2>5
            <6> QED BY <2>5, <6>1, <6>2, <6>3
          <5>2. OutAt(QAt(p), g, i) \in Exponents
            BY <1>3, <1>5, PlacesAre, JobIs
          <5>3. CASE pass = 1
            BY <1>1, <1>2, <2>5, <4>1, <5>1, <5>2, <5>3 DEF BufOf, Shape, Buffers
          <5>4. CASE pass = 2
            BY <1>1, <1>2, <2>5, <4>1, <5>1, <5>2, <5>4 DEF BufOf, Shape, Buffers
          <5> QED BY <1>3, <5>3, <5>4
        <4>2. CASE ~(tid < Q.n)
          BY <1>2, <4>2 DEF BufOf
        <4> QED BY <4>1, <4>2
      <3> QED BY <1>5, <3>1, <3>2 DEF Saved
    <2>6. p < pass \/ p = pass
      BY <1>3, <1>5
    <2> QED BY <2>3, <2>4, <2>5, <2>6
  <1>6. \A p \in {1, 2} : pass < p =>
          \A g \in 0..(QAt(p).groups - 1), i \in 0..(QAt(p).n - 1) : ~Kept(p, g, i)'
    BY <1>2, <1>3 DEF Kept
  <1> QED BY <1>1, <1>2, <1>3, <1>5, <1>6, SavedWithin

\* The last phase is a number.
LEMMA LastOf == ASSUME NEW l \in Nat, NEW k, k = 2 * l + 2 PROVE k \in Nat
  OBVIOUS

\* When a workgroup is done every element of its group is there.
LEMMA SavedNextGroup ==
  ASSUME Typed, Saved, NextGroup PROVE Saved'
  <1>1. pass < 3 /\ Shape /\ Running
    BY Shaped DEF NextGroup
  <1>2. /\ UNCHANGED <<job, in, mid, out>>
        /\ \A t \in Invocations : phase[t] > LastPhase /\ phase'[t] = 0
        /\ \/ group + 1 < Q.groups /\ group' = group + 1 /\ pass' = pass
           \/ ~(group + 1 < Q.groups) /\ group' = 0 /\ pass' = pass + 1
    BY DEF NextGroup
  <1>3. pass \in {1, 2} /\ pass' \in 1..3 /\ job \in Transforms /\ Q = QAt(pass)
        /\ group \in Nat /\ Q.groups \in Nat /\ group < Q.groups
    <2>1. pass \in {1, 2} /\ job \in Transforms /\ Q = QAt(pass) /\ Q.groups \in Nat /\ group \in 0..(Q.groups - 1)
      BY <1>1 DEF Running, Runs, Shape
    <2>2. group \in Nat /\ group < Q.groups
      BY <2>1
    <2> QED BY <1>2, <2>1, <2>2
  <1>4. ASSUME NEW p \in {1, 2}, Runs(p), p <= pass,
               NEW g \in 0..(QAt(p).groups - 1), NEW i \in 0..(QAt(p).n - 1), Kept(p, g, i)'
        PROVE  BufOf(p)'[OutAt(QAt(p), g, i)] = Result(p, g, i)
    <2>1. i \in Invocations /\ QAt(p).groups \in Nat
      BY <1>3, <1>4, PassIs
    <2>2. phase[i] > LastPhase /\ phase'[i] = 0 /\ g \in Nat /\ g < QAt(p).groups
      BY <1>2, <2>1
    <2>3. Kept(p, g, i)
      <3>1. CASE p < pass
        BY <3>1 DEF Kept
      <3>2. CASE p = pass
        <4>1. g <= group
          <5>1. CASE ~(group + 1 < Q.groups)
            BY <1>3, <2>2, <3>2, <5>1
          <5>2. CASE group + 1 < Q.groups /\ group' = group + 1 /\ pass' = pass
            <6>1. g <= group'
              BY <1>4, <2>2, <3>2, <5>2 DEF Kept
            <6>2. ~(phase'[i] > LastPhase')
              <7>1. LogN' = LogN
                BY <1>1, <1>2, <5>2, SameJob DEF Shape
              <7>2. LastPhase' \in Nat
                <8>1. LogN \in Nat
                  BY <1>1 DEF Running
                <8>2. LastPhase' = 2 * LogN' + 2
                  BY DEF LastPhase
                <8>3. LogN' \in Nat
                  BY <7>1, <8>1
                <8> QED BY <8>2, <8>3, LastOf
              <7> QED BY <2>2, <7>2
            <6> QED BY <1>3, <1>4, <2>2, <3>2, <5>2, <6>1, <6>2 DEF Kept
          <5> QED BY <1>2, <5>1, <5>2
        <4> QED BY <1>3, <2>2, <3>2, <4>1 DEF Kept
      <3> QED BY <1>3, <1>4, <3>1, <3>2
    <2>4. BufOf(p)' = BufOf(p)
      BY <1>2 DEF BufOf
    <2> QED BY <1>4, <2>3, <2>4 DEF Saved
  <1>5. ASSUME NEW p \in {1, 2}, pass < p,
               NEW g \in 0..(QAt(p).groups - 1), NEW i \in 0..(QAt(p).n - 1)
        PROVE  ~Kept(p, g, i)'
    <2>1. p = 2 /\ pass = 1
      BY <1>3, <1>5
    <2>2. Runs(2) /\ Runs(pass)
      BY <1>1, <2>1 DEF Running, Runs
    <2>3. i \in Invocations /\ QAt(p).groups \in Nat /\ LogAt(2) \in Nat
      BY <1>3, <2>1, <2>2, PassIs
    <2>4. phase'[i] = 0 /\ g \in Nat
      BY <1>2, <2>3
    <2>5. CASE pass' = pass
      BY <2>1, <2>5 DEF Kept
    <2>6. CASE group' = 0 /\ pass' = pass + 1
      <3>1. LogN' = LogAt(pass')
        BY <1>2, SameJob
      <3>2. LogN' \in Nat
        BY <2>1, <2>3, <2>6, <3>1
      <3>3. LastPhase' \in Nat
        <4>1. LastPhase' = 2 * LogN' + 2
          BY DEF LastPhase
        <4> QED BY <3>2, <4>1, LastOf
      <3> QED BY <2>1, <2>4, <2>6, <3>3 DEF Kept
    <2> QED BY <1>2, <2>5, <2>6
  <1> QED BY <1>1, <1>2, <1>3, <1>4, <1>5, SavedWithin

\* Every step keeps what is in the buffers.
LEMMA SavedNext == ASSUME Typed, Barriers, Tiled, Saved, [Next]_vars PROVE Saved'
  <1>1. CASE NextGroup
    BY <1>1, SavedNextGroup
  <1>2. ASSUME NEW tid \in Invocations, Load(tid) \/ Cross(tid) \/ Butterfly(tid) PROVE Saved'
    <2>1. pass < 3 /\ UNCHANGED <<job, in, mid, out, pass, group>>
          /\ phase' = [phase EXCEPT ![tid] = phase[tid] + 1]
      BY <1>2 DEF Load, Cross, Butterfly
    <2>2. phase[tid] \in Nat /\ LastPhase = 2 * LogN + 2 /\ LogN \in Nat
      BY <2>1, Phases
    <2> DEFINE k == phase[tid] + 1
    <2>3. k \in Nat /\ k <= LastPhase
      BY <1>2, <2>2 DEF Load, Cross, Butterfly
    <2>4. phase' = [phase EXCEPT ![tid] = k]
      BY <2>1
    <2> HIDE DEF k
    <2> QED BY <2>1, <2>3, <2>4, SavedStill
  <1>3. ASSUME NEW tid \in Invocations, Load(tid) \/ Cross(tid) \/ Butterfly(tid) \/ Store(tid)
        PROVE  Saved'
    BY <1>2, <1>3, SavedStore
  <1>4. CASE UNCHANGED vars
    <2>1. job' = job /\ in' = in /\ mid' = mid /\ out' = out /\ pass' = pass /\ group' = group /\ phase' = phase
      BY <1>4 DEF vars
    <2>2. LastPhase' = LastPhase
      BY <2>1 DEF LastPhase, LogN
    <2>3. ASSUME NEW p \in {1, 2}, Runs(p)',
                 NEW g \in 0..(QAt(p)'.groups - 1), NEW i \in 0..(QAt(p)'.n - 1), Kept(p, g, i)'
          PROVE  BufOf(p)'[OutAt(QAt(p)', g, i)] = Result(p, g, i)'
      <3>1. QAt(p)' = QAt(p) /\ Runs(p) /\ BufOf(p)' = BufOf(p) /\ Kept(p, g, i)
        BY <2>1, <2>2, <2>3, SameJob DEF BufOf, Kept
      <3>2. Result(p, g, i)' = Result(p, g, i)
        BY <2>1, <3>1, SameResult
      <3> QED BY <2>3, <3>1, <3>2 DEF Saved
    <2> QED BY <2>3 DEF Saved
  <1> QED BY <1>1, <1>3, <1>4 DEF Next

-----------------------------------------------------------------------------
(* What a pass leaves *)

\* What the runs keep.
NttInv == Typed /\ Barriers /\ Tiled /\ Saved

\* The invariant holds when the transform starts.
LEMMA NttInvInit == ASSUME Init PROVE NttInv
  BY TypedInit, BarriersInit, TiledInit, SavedInit DEF NttInv

\* Every step keeps it.
LEMMA NttInvNext == ASSUME NttInv, [Next]_vars PROVE NttInv'
  <1>1. Typed /\ Barriers /\ Tiled /\ Saved
    BY DEF NttInv
  <1>2. Typed' /\ Barriers'
    BY <1>1, TypedNext, BarriersNext
  <1>3. Tiled' /\ Saved'
    BY <1>1, TiledNext, SavedNext
  <1> QED BY <1>2, <1>3 DEF NttInv

\* The factor of a pass.
Factor(p, g, i) == IF p = 1 THEN RootAt(Roots, (g * i) * (DomainSize \div N)) ELSE 1

\* What a group's result amounts to, its terms and factors being in the field.
ResultTyped(p, g, i) ==
  /\ Terms(GroupTerms(Source(p, g), Roots, QAt(p).n, i), QAt(p).n)
  /\ Twiddle(QAt(p), Roots, g, i) = Factor(p, g, i) /\ Factor(p, g, i) \in Field
  /\ ScaleOf(p) \in Field
  /\ Result(p, g, i) =
       FrMul(FrMul(ScaleOf(p), Factor(p, g, i)),
             FrSum(GroupTerms(Source(p, g), Roots, QAt(p).n, i), QAt(p).n))
  /\ \A j \in 0..(QAt(p).n - 1) :
       /\ Source(p, g)[j] \in Field /\ (j * i) * (DomainSize \div QAt(p).n) \in Nat
       /\ RootAt(Roots, (j * i) * (DomainSize \div QAt(p).n)) \in Field
       /\ Roots[((i * j) % QAt(p).n) * QAt(p).root] = RootAt(Roots, (j * i) * (DomainSize \div QAt(p).n))

\* Every group has such a result.
LEMMA ResultIs ==
  ASSUME job \in Transforms, Buffers, NEW p, Runs(p),
         NEW g \in 0..(QAt(p).groups - 1), NEW i \in 0..(QAt(p).n - 1)
  PROVE  ResultTyped(p, g, i)
  <1> DEFINE x == Source(p, g)
             R == Roots
             n == QAt(p).n
             L == LogAt(p)
             m == DomainSize \div n
             f == GroupTerms(x, R, n, i)
             w == Factor(p, g, i)
             s == ScaleOf(p)
  <1>1. /\ L \in Nat /\ n = 2 ^ L /\ n \in Nat \ {0} /\ QAt(p).root = m /\ m \in Nat \ {0}
        /\ DomainSize = n * m /\ QAt(p).groups \in Nat
        /\ (p = 1 => QAt(p) = Pass1(N, N1, N2)) /\ (p = 2 => QAt(p) = Pass2(N, N1, N2))
        /\ p \in {1, 2} /\ g \in Nat /\ i \in Nat
    <2>1. /\ L \in Nat /\ n = 2 ^ L /\ n \in Nat \ {0} /\ QAt(p).root = m /\ QAt(p).root \in Nat \ {0}
          /\ DomainSize = n * QAt(p).root /\ QAt(p).groups \in Nat
          /\ (p = 1 => QAt(p) = Pass1(N, N1, N2)) /\ (p = 2 => QAt(p) = Pass2(N, N1, N2))
      BY PassIs
    <2>2. p \in {1, 2}
      BY DEF Runs
    <2>3. g \in Nat /\ i \in Nat
      BY <2>1
    <2> QED BY <2>1, <2>2, <2>3
  <1>2. Transformable(x, R, L) /\ x \in [0..(n - 1) -> Field] /\ R \in RootTables
    <2>1. Transformable(x, R, L)
      BY SourceIs
    <2> QED BY <1>1, <2>1 DEF Transformable
  <1>3. ASSUME NEW j \in 0..(n - 1)
        PROVE  /\ x[j] \in Field /\ (j * i) * m \in Nat
               /\ RootAt(R, (j * i) * m) \in Field
               /\ R[((i * j) % n) * m] = RootAt(R, (j * i) * m)
    <2> HIDE DEF x, R, n, m
    <2>1. j \in Nat /\ i * j = j * i /\ i * j \in Nat /\ (j * i) * m \in Nat
      <3>1. j \in Nat
        BY <1>1
      <3>2. i * j = j * i /\ i * j \in Nat
        BY <1>1, <3>1
      <3> DEFINE y == j * i
      <3>3. y \in Nat
        BY <3>2
      <3> HIDE DEF y
      <3>4. y * m \in Nat
        BY <1>1, <3>3
      <3> QED BY <3>1, <3>2, <3>4 DEF y
    <2>2. R[((i * j) % n) * m] = RootAt(R, (i * j) * m)
      <3>1. \A k \in Nat : R[(k % n) * m] = RootAt(R, k * m)
        <4>1. n \in Nat \ {0} /\ m \in Nat \ {0} /\ DomainSize = n * m /\ R \in RootTables
          BY <1>1, <1>2
        <4> QED BY <4>1, EntryIs
      <3> DEFINE k == i * j
      <3>2. k \in Nat
        BY <2>1
      <3> HIDE DEF k
      <3>3. R[(k % n) * m] = RootAt(R, k * m)
        BY <3>1, <3>2
      <3> QED BY <3>3 DEF k
    <2>3. RootAt(R, (j * i) * m) \in Field
      BY <1>2, <2>1, Weights
    <2> QED BY <1>2, <2>1, <2>2, <2>3
  <1>4. Terms(f, n)
    <2> HIDE DEF x, R, n, m
    <2>1. \A j \in 0..(n - 1) : f[j] \in Field
      BY <1>3, Closed DEF GroupTerms, m
    <2> QED BY <2>1 DEF Terms
  <1>5. StageSum(x, R, L, L, 0, i) = FrSum(f, n)
    <2> HIDE DEF x, R, L
    <2> HIDE DEF n, f
    <2>1. StageSum(x, R, L, L, 0, i) = FrSum(GroupTerms(x, R, 2 ^ L, i), 2 ^ L)
      BY <1>1, <1>2, StageEnds
    <2> QED BY <1>1, <2>1 DEF f
  <1>6. Twiddle(QAt(p), Roots, g, i) = w /\ w \in Field
    <2>1. CASE p = 1
      <3> DEFINE d == DomainSize \div N
      <3>1. N \in Nat \ {0} /\ d \in Nat \ {0} /\ DomainSize = N * d /\ g * i \in Nat
        <4>1. g * i \in Nat
          BY <1>1
        <4> QED BY <4>1, JobIs
      <3>2. /\ QAt(p).twiddle = d /\ QAt(p).full_n = N
        BY <1>1, <2>1 DEF Pass1
      <3> HIDE DEF d
      <3>3. Roots[((g * i) % N) * d] = RootAt(Roots, (g * i) * d)
        BY <1>2, <3>1, EntryIs
      <3>4. RootAt(Roots, (g * i) * d) \in Field
        <4>1. (g * i) * d \in Nat
          BY <3>1
        <4> QED BY <1>2, <4>1, Weights
      <3>5. QAt(p).twiddle # 0
        BY <3>1, <3>2
      <3> QED BY <2>1, <3>2, <3>3, <3>4, <3>5 DEF Twiddle, Factor, d
    <2>2. CASE p = 2
      <3>1. QAt(p).twiddle = 0
        BY <1>1, <2>2 DEF Pass2
      <3> QED BY <2>2, <3>1, Closed DEF Twiddle, Factor
    <2> QED BY <1>1, <2>1, <2>2
  <1>7. s \in Field
    <2>1. job.scale \in Field
      BY JobIs DEF Transform
    <2> QED BY <2>1, Closed DEF ScaleOf
  <1>8. Result(p, g, i) = FrMul(FrMul(s, w), FrSum(f, n))
    <2> DEFINE y == FrSum(f, n)
    <2>1. y \in Field
      BY <1>1, <1>4, TotalIn
    <2>2. Result(p, g, i) = FrMul(FrMul(y, w), s)
      BY <1>5, <1>6 DEF Result
    <2> HIDE DEF y, w, s
    <2>3. FrMul(y, w) \in Field /\ FrMul(y, w) = FrMul(w, y)
      BY <1>6, <2>1, Closed, Commutes
    <2>4. FrMul(FrMul(y, w), s) = FrMul(s, FrMul(y, w))
      BY <1>7, <2>3, Commutes
    <2>5. FrMul(FrMul(s, w), y) = FrMul(s, FrMul(w, y))
      BY <1>6, <1>7, <2>1, MulAssociates
    <2> QED BY <2>2, <2>3, <2>4, <2>5 DEF y
  <1> HIDE DEF f, w, s
  <1>9. \A j \in 0..(QAt(p).n - 1) :
       /\ Source(p, g)[j] \in Field /\ (j * i) * (DomainSize \div QAt(p).n) \in Nat
       /\ RootAt(Roots, (j * i) * (DomainSize \div QAt(p).n)) \in Field
       /\ Roots[((i * j) % QAt(p).n) * QAt(p).root] = RootAt(Roots, (j * i) * (DomainSize \div QAt(p).n))
    BY <1>1, <1>3
  <1> QED BY <1>4, <1>6, <1>7, <1>8, <1>9 DEF ResultTyped, f, w, s

\* Every element of a complete pass's buffer.
LEMMA BufferIs ==
  ASSUME NttInv, NEW p, Runs(p), p < pass, NEW e \in Elements
  PROVE  LET g == e % QAt(p).groups
             i == e \div QAt(p).groups IN
         /\ g \in 0..(QAt(p).groups - 1) /\ i \in 0..(QAt(p).n - 1)
         /\ ResultTyped(p, g, i)
         /\ BufOf(p)[e] = Result(p, g, i)
  <1> DEFINE c == QAt(p).groups
             n == QAt(p).n
             g == e % c
             i == e \div c
  <1>1. Shape /\ Saved
    BY Shaped DEF NttInv
  <1>2. /\ job \in Transforms /\ Buffers /\ c \in Nat \ {0} /\ n \in Nat \ {0} /\ n * c = N
        /\ e \in 0..(N - 1) /\ N \in Nat \ {0}
    <2>1. job \in Transforms /\ Buffers
      BY <1>1 DEF Shape
    <2>2. N \in Nat \ {0} /\ e \in 0..(N - 1)
      BY <2>1, JobIs DEF Elements
    <2> QED BY <2>1, <2>2, PassIs
  <1>3. e \in Nat /\ e < N
    BY <1>2
  <1>4. g \in 0..(c - 1) /\ i \in Nat /\ e = g + c * i
    <2> HIDE DEF c
    <2> QED BY <1>2, <1>3, Division
  <1> HIDE DEF g, i, c, n
  <1>5. i < n
    <2> SUFFICES ASSUME i >= n PROVE FALSE
      BY <1>2, <1>4
    <2> DEFINE d == i - n
    <2>1. d \in Nat /\ i = n + d
      BY <1>2, <1>4
    <2> HIDE DEF d
    <2>2. c * (n + d) = n * c + c * d /\ c * d \in Nat
      BY <1>2, <2>1
    <2> DEFINE u == c * i
               v == c * d
    <2>3. u = N + v /\ v \in Nat
      BY <1>2, <2>1, <2>2
    <2>4. e = g + u
      BY <1>4
    <2> HIDE DEF u, v
    <2> QED BY <1>2, <1>3, <1>4, <2>3, <2>4
  <1>6. i \in 0..(n - 1)
    BY <1>2, <1>4, <1>5
  <1>7. OutAt(QAt(p), g, i) = e
    <2>1. OutAt(QAt(p), g, i) = g + QAt(p).groups * i
      BY <1>2, <1>4, <1>6, PlacesAre DEF c, n
    <2> QED BY <1>4, <2>1 DEF c
  <1>8. Kept(p, g, i)
    BY DEF Kept
  <1>9. p \in {1, 2}
    BY DEF Runs
  <1>10. BufOf(p)[OutAt(QAt(p), g, i)] = Result(p, g, i)
    BY <1>1, <1>4, <1>6, <1>8, <1>9 DEF Saved, c, n
  <1>11. ResultTyped(p, g, i)
    BY <1>2, <1>4, <1>6, ResultIs DEF c, n
  <1> QED BY <1>4, <1>6, <1>7, <1>10, <1>11 DEF g, i, c, n

\* It is the pass of the buffer the dispatch read.
LEMMA PassLeaves ==
  ASSUME NttInv, NEW p, Runs(p), p < pass, ~job.circulant, NEW e \in Elements,
         NEW from, from = IF p = 1 THEN in ELSE mid
  PROVE  BufOf(p)[e] = PassOf(QAt(p), Roots, ScaleOf(p), from)[e]
  <1> DEFINE q == QAt(p)
             g == e % q.groups
             i == e \div q.groups
             h == [j \in 0..(q.n - 1) |-> FrMul(from[InAt(q, g, j)], Roots[((i * j) % q.n) * q.root])]
             f == GroupTerms(Source(p, g), Roots, q.n, i)
  <1>1. /\ g \in 0..(q.groups - 1) /\ i \in 0..(q.n - 1)
        /\ ResultTyped(p, g, i) /\ BufOf(p)[e] = Result(p, g, i)
    BY BufferIs
  <1>2. q.full_n = N
    BY PassIs, Shaped DEF NttInv, Shape
  <1>3. e \in 0..(q.full_n - 1)
    BY <1>2 DEF Elements
  <1>4. PassOf(q, Roots, ScaleOf(p), from)[e] =
          FrMul(FrMul(ScaleOf(p), Twiddle(q, Roots, g, i)), FrSum(h, q.n))
    BY <1>3 DEF PassOf
  <1>5. h = f
    <2>1. ASSUME NEW j \in 0..(q.n - 1) PROVE from[InAt(q, g, j)] = Source(p, g)[j]
      BY DEF Source
    <2>2. \A j \in 0..(q.n - 1) : Roots[((i * j) % q.n) * q.root] = RootAt(Roots, (j * i) * (DomainSize \div q.n))
      <3> HIDE DEF g, i, q
      <3> QED BY <1>1 DEF ResultTyped, q
    <2> HIDE DEF g, i, q
    <2> QED BY <2>1, <2>2 DEF GroupTerms
  <1> HIDE DEF g, i, h
  <1> QED BY <1>1, <1>4, <1>5 DEF ResultTyped

\* Whatever the sizes, the inputs and the order the invocations run in between barriers, a
\* dispatch of k_ntt_pass.comp leaves in its buffer what PassOf says it does: the
\* transforms of its groups, twiddled and scaled.
THEOREM GroupsTransformed == Spec => []PassesTransformGroups
  <1>1. Init => NttInv
    BY NttInvInit
  <1>2. NttInv /\ [Next]_vars => NttInv'
    BY NttInvNext
  <1>3. ASSUME NttInv PROVE PassesTransformGroups
    <2> SUFFICES ASSUME ~job.circulant
                 PROVE  /\ pass > 1 => \A e \in Elements :
                             mid[e] = PassOf(Pass1(N, N1, N2), Roots, ScaleOf(1), in)[e]
                        /\ pass > 2 => \A e \in Elements :
                             out[e] = PassOf(Pass2(N, N1, N2), Roots, ScaleOf(2), mid)[e]
      BY DEF PassesTransformGroups
    <2>1. Runs(1) /\ Runs(2) /\ QAt(1) = Pass1(N, N1, N2) /\ QAt(2) = Pass2(N, N1, N2)
          /\ BufOf(1) = mid /\ BufOf(2) = out /\ pass \in 1..3
      BY <1>3 DEF Runs, QAt, BufOf, NttInv, Typed, TypeOK
    <2>2. ASSUME pass > 1, NEW e \in Elements
          PROVE  mid[e] = PassOf(Pass1(N, N1, N2), Roots, ScaleOf(1), in)[e]
      <3> DEFINE p == 1
      <3>1. Runs(p) /\ p < pass /\ in = IF p = 1 THEN in ELSE mid
        BY <2>1, <2>2
      <3> HIDE DEF p
      <3>2. BufOf(p)[e] = PassOf(QAt(p), Roots, ScaleOf(p), in)[e]
        BY <1>3, <2>2, <3>1, PassLeaves
      <3> QED BY <2>1, <3>2 DEF p
    <2>3. ASSUME pass > 2, NEW e \in Elements
          PROVE  out[e] = PassOf(Pass2(N, N1, N2), Roots, ScaleOf(2), mid)[e]
      <3> DEFINE p == 2
      <3>1. Runs(p) /\ p < pass /\ mid = IF p = 1 THEN in ELSE mid
        BY <2>1, <2>3
      <3> HIDE DEF p
      <3>2. BufOf(p)[e] = PassOf(QAt(p), Roots, ScaleOf(p), mid)[e]
        BY <1>3, <2>3, <3>1, PassLeaves
      <3> QED BY <2>1, <3>2 DEF p
    <2> QED BY <2>2, <2>3
  <1> QED BY <1>1, <1>2, <1>3, PTL DEF Spec

-----------------------------------------------------------------------------
(* The transform the passes make *)

\* The terms of a transform of n elements.
LEMMA DftIs ==
  ASSUME NttInv, pass = 3, ~job.circulant, NEW k \in Elements
  PROVE  out[k] = FrMul(job.scale,
                        FrSum([j \in Elements |->
                                 FrMul(in[j], Roots[((j * k) % N) * (DomainSize \div N)])], N))
  <1> DEFINE a == N1
             b == N2
             R == Roots
             m == DomainSize \div N
             k1 == k % QAt(2).groups
             k2 == k \div QAt(2).groups
             H == [j \in Elements |-> FrMul(in[j], R[((j * k) % N) * m])]
             F == GroupTerms(Source(2, k1), R, QAt(2).n, k2)
             S(t) == GroupTerms(Source(1, t), R, QAt(1).n, k1)
  <1>1. /\ job \in Transforms /\ Buffers /\ in \in [Exponents -> Field]
        /\ Runs(1) /\ Runs(2) /\ BufOf(1) = mid /\ BufOf(2) = out
        /\ QAt(1) = Pass1(N, a, b) /\ QAt(2) = Pass2(N, a, b)
        /\ 1 < pass /\ 2 < pass
    BY Shaped DEF NttInv, Shape, Runs, BufOf, QAt, Buffers
  <1>2. /\ a \in Nat \ {0} /\ b \in Nat \ {0} /\ N \in Nat \ {0} /\ N = a * b /\ N = b * a
        /\ N * m = DomainSize /\ m \in Nat \ {0} /\ Elements \subseteq Exponents /\ R \in RootTables
        /\ Elements = 0..(N - 1)
    <2>1. /\ a \in Nat \ {0} /\ b \in Nat \ {0} /\ N \in Nat \ {0}
          /\ N * m = DomainSize /\ m \in Nat \ {0} /\ Elements \subseteq Exponents /\ R \in RootTables
      BY <1>1, JobIs
    <2>2. N = a * b
      BY DEF N
    <2> HIDE DEF a, b
    <2>3. a * b = b * a
      BY <2>1
    <2> QED BY <2>1, <2>2, <2>3 DEF Elements
  <1>3. /\ QAt(1).n = a /\ QAt(1).groups = b /\ QAt(2).n = b /\ QAt(2).groups = a
        /\ ScaleOf(2) = job.scale /\ ScaleOf(1) = 1
    BY <1>1 DEF Pass1, Pass2, ScaleOf
  <1>4. /\ k1 \in 0..(a - 1) /\ k2 \in 0..(b - 1) /\ k = k1 + a * k2
        /\ k1 \in Nat /\ k2 \in Nat
    <2> DEFINE two == 2
    <2>1. Runs(two) /\ two < pass
      BY <1>1
    <2>2. k % QAt(two).groups \in 0..(QAt(two).groups - 1) /\ k \div QAt(two).groups \in 0..(QAt(two).n - 1)
      <3> HIDE DEF two
      <3> QED BY <2>1, BufferIs
    <2>3. k1 \in 0..(a - 1) /\ k2 \in 0..(b - 1)
      BY <1>3, <2>2
    <2>4. k \in Nat
      BY <1>2
    <2>5. k = (k % a) + a * (k \div a)
      <3> HIDE DEF a
      <3> QED BY <1>2, <2>4, Division
    <2>6. k = k1 + a * k2
      BY <1>3, <2>5
    <2> HIDE DEF a, b, k1, k2
    <2> QED BY <1>2, <2>3, <2>6
  <1>5. /\ ResultTyped(2, k1, k2) /\ out[k] = Result(2, k1, k2)
    <2> DEFINE two == 2
    <2>1. Runs(two) /\ two < pass
      BY <1>1
    <2>2. /\ ResultTyped(two, k % QAt(two).groups, k \div QAt(two).groups)
          /\ BufOf(two)[k] = Result(two, k % QAt(two).groups, k \div QAt(two).groups)
      <3> HIDE DEF two
      <3> QED BY <2>1, BufferIs
    <2> QED BY <1>1, <2>2
  <1>6. DomainSize \div a = b * m /\ DomainSize \div b = a * m /\ DomainSize = (a * b) * m
    <2>1. /\ (a * b) * m = a * (b * m) /\ (a * b) * m = b * (a * m)
          /\ b * m \in Nat \ {0} /\ a * m \in Nat \ {0}
      <3> HIDE DEF a, b, m
      <3> QED BY <1>2
    <2>2. DomainSize = (a * b) * m
      BY <1>2
    <2> DEFINE x == b * m
               y == a * m
    <2>3. DomainSize = a * x /\ DomainSize = b * y
      BY <2>1, <2>2
    <2> HIDE DEF a, b, m, x, y
    <2>4. DomainSize \div a = x /\ DomainSize \div b = y
      BY <1>2, <2>1, <2>3, EntryIs DEF x, y
    <2> QED BY <2>2, <2>4 DEF x, y
  <1> HIDE DEF a, b, m, k1, k2, R
  \* What the first pass left.
  <1>7. ASSUME NEW t \in 0..(b - 1)
        PROVE  /\ t \in Nat /\ InAt(QAt(2), k1, t) = t + b * k1 /\ ResultTyped(1, t, k1)
               /\ Source(2, k1)[t] = Result(1, t, k1)
               /\ \A j \in 0..(a - 1) : Source(1, t)[j] = in[t + b * j]
    <2>1. t \in Nat
      BY <1>2
    <2> DEFINE e == t + b * k1
               one == 1
               two == 2
    <2>2. InAt(QAt(2), k1, t) = e /\ e \in Elements
      <3>1. Runs(two) /\ k1 \in 0..(QAt(two).groups - 1) /\ t \in 0..(QAt(two).n - 1)
        BY <1>1, <1>3, <1>4
      <3> HIDE DEF two, e
      <3>2. InAt(QAt(two), k1, t) \in Elements /\ (two = 2 => InAt(QAt(two), k1, t) = t + N2 * k1)
        BY <1>1, <3>1, PlacesAre
      <3> QED BY <3>2 DEF two, e, b
    <2>3. e % b = t /\ e \div b = k1
      <3>1. k1 \in Int
        BY <1>4
      <3> QED BY <1>2, <3>1, DivisionIs
    <2>4. ResultTyped(1, t, k1) /\ mid[e] = Result(1, t, k1)
      <3>1. Runs(one) /\ one < pass
        BY <1>1
      <3> HIDE DEF e, one
      <3>2. /\ ResultTyped(one, e % QAt(one).groups, e \div QAt(one).groups)
            /\ BufOf(one)[e] = Result(one, e % QAt(one).groups, e \div QAt(one).groups)
        BY <2>2, <3>1, BufferIs
      <3> QED BY <1>1, <1>3, <2>3, <3>2 DEF one
    <2>5. Source(2, k1)[t] = mid[e]
      <3>1. Source(2, k1)[t] = mid[InAt(QAt(2), k1, t)]
        BY <1>3 DEF Source
      <3> QED BY <2>2, <3>1
    <2>6. ASSUME NEW j \in 0..(a - 1) PROVE Source(1, t)[j] = in[t + b * j]
      <3>1. Runs(one) /\ t \in 0..(QAt(one).groups - 1) /\ j \in 0..(QAt(one).n - 1)
        BY <1>1, <1>3
      <3>2. InAt(QAt(1), t, j) = t + b * j
        <4> HIDE DEF one
        <4>1. (one = 1 => InAt(QAt(one), t, j) = t + N2 * j)
          BY <1>1, <3>1, PlacesAre
        <4> QED BY <4>1 DEF one, b
      <3>3. Source(1, t)[j] = in[InAt(QAt(1), t, j)]
        BY <1>3 DEF Source
      <3> QED BY <3>2, <3>3
    <2> QED BY <2>1, <2>2, <2>4, <2>5, <2>6
  \* A term of the transform.
  <1>8. ASSUME NEW j \in Elements
        PROVE  /\ H[j] = FrMul(in[j], RootAt(R, (j * k) * m)) /\ H[j] \in Field
               /\ in[j] \in Field
    <2>1. j \in Nat /\ k \in Nat /\ j * k \in Nat
      <3>1. j \in Nat /\ k \in Nat
        BY <1>2
      <3> QED BY <3>1
    <2>2. in[j] \in Field
      BY <1>1, <1>2
    <2>3. \A i \in Nat : R[(i % N) * m] = RootAt(R, i * m)
      <3>1. DomainSize = N * m /\ N \in Nat \ {0} /\ m \in Nat \ {0} /\ R \in RootTables
        BY <1>2
      <3> QED BY <3>1, EntryIs
    <2> DEFINE i == j * k
    <2>4. i \in Nat /\ i * m \in Nat
      <3>1. i \in Nat
        BY <2>1
      <3> HIDE DEF i
      <3> QED BY <1>2, <3>1
    <2>5. H[j] = FrMul(in[j], R[(i % N) * m])
      OBVIOUS
    <2> HIDE DEF i, H
    <2>6. R[(i % N) * m] = RootAt(R, i * m) /\ RootAt(R, i * m) \in Field
      BY <1>2, <2>3, <2>4, Weights
    <2>7. H[j] = FrMul(in[j], RootAt(R, i * m)) /\ H[j] \in Field
      BY <2>2, <2>5, <2>6, Closed
    <2> QED BY <2>2, <2>7 DEF i
  <1>9. Terms(H, b * a)
    <2>1. \A j \in 0..(b * a - 1) : H[j] \in Field
      BY <1>2, <1>8
    <2> HIDE DEF H
    <2> QED BY <2>1 DEF Terms
  <1> HIDE DEF H
  \* A column of them is one of the first pass's groups.
  <1>10. ASSUME NEW t \in 0..(b - 1)
         PROVE  F[t] = FrSum(Column(H, b, a, t), a) /\ F[t] \in Field
    <2> DEFINE s == S(t)
               A == (t * k1) * m
               B == (t * k2) * (a * m)
               w1 == RootAt(R, A)
               w2 == RootAt(R, B)
               c == FrMul(w1, w2)
               y == FrSum(s, a)
    <2>1. ResultTyped(1, t, k1) /\ Source(2, k1)[t] = Result(1, t, k1) /\ t \in Nat
      BY <1>7
    <2>2. /\ Terms(s, a) /\ Factor(1, t, k1) = w1
          /\ Result(1, t, k1) = FrMul(FrMul(1, w1), y)
      <3>1. Factor(1, t, k1) = w1
        BY DEF Factor, m, R
      <3> HIDE DEF w1
      <3> QED BY <1>3, <2>1, <3>1 DEF ResultTyped, R
    <2>3. F[t] = FrMul(Source(2, k1)[t], w2)
      BY <1>3, <1>6 DEF GroupTerms
    <2>4. ASSUME NEW u \in 0..(a - 1)
          PROVE  /\ A \in Nat /\ B \in Nat /\ w1 \in Field /\ w2 \in Field
                 /\ Column(H, b, a, t)[u] = FrMul(c, s[u])
      <3> DEFINE C == (u * k1) * (b * m)
                 d == u * k2
                 j == t + b * u
                 w3 == RootAt(R, C)
      <3>1. u \in Nat
        BY <1>2
      <3>2. /\ A \in Nat /\ B \in Nat /\ C \in Nat /\ d \in Nat
            /\ ((t + b * u) * (k1 + a * k2)) * m = ((A + B) + C) + DomainSize * d
        BY <1>2, <1>4, <1>6, <2>1, <3>1, ExponentIs
      <3>3. (j * k) * m = ((A + B) + C) + DomainSize * d
        BY <1>4, <3>2
      <3>4. j \in Elements
        <4> DEFINE one == 1
        <4>1. Runs(one) /\ t \in 0..(QAt(one).groups - 1) /\ u \in 0..(QAt(one).n - 1)
          BY <1>1, <1>3
        <4> HIDE DEF one, j
        <4>2. InAt(QAt(one), t, u) \in Elements /\ (one = 1 => InAt(QAt(one), t, u) = t + N2 * u)
          BY <1>1, <4>1, PlacesAre
        <4> QED BY <4>2 DEF one, j, b
      <3> HIDE DEF A, B, C, d
      <3>5. /\ RootAt(R, ((A + B) + C) + DomainSize * d) = FrMul(FrMul(w1, w2), w3)
            /\ w1 \in Field /\ w2 \in Field /\ w3 \in Field
        <4>1. R \in RootTables /\ A \in Nat /\ B \in Nat /\ C \in Nat /\ d \in Nat
          BY <1>2, <3>2
        <4> HIDE DEF w1, w2, w3
        <4>2. WeightsOf(R, A, B, C, d)
          BY <4>1, WeightOfTerm
        <4> QED BY <4>2, Zenon DEF WeightsOf, w1, w2, w3
      <3>6. s[u] = FrMul(in[j], w3)
        <4>1. s[u] = FrMul(Source(1, t)[u], RootAt(R, (u * k1) * (DomainSize \div QAt(1).n)))
          BY <1>3 DEF GroupTerms
        <4>2. Source(1, t)[u] = in[j]
          BY <1>7
        <4> QED BY <1>3, <1>6, <4>1, <4>2 DEF C
      <3>7. Column(H, b, a, t)[u] = H[j]
        BY DEF Column
      <3> HIDE DEF w1, w2, w3, s, j
      <3>8. H[j] = FrMul(in[j], FrMul(c, w3)) /\ in[j] \in Field
        BY <1>8, <3>3, <3>4, <3>5
      <3>9. c \in Field
        BY <3>5, Closed
      <3> HIDE DEF c
      <3>10. FrMul(in[j], FrMul(c, w3)) = FrMul(c, FrMul(in[j], w3))
        <4>1. FrMul(in[j], FrMul(c, w3)) = FrMul(FrMul(in[j], c), w3)
          BY <3>5, <3>8, <3>9, MulAssociates
        <4>2. FrMul(FrMul(c, in[j]), w3) = FrMul(c, FrMul(in[j], w3))
          BY <3>5, <3>8, <3>9, MulAssociates
        <4>3. FrMul(in[j], c) = FrMul(c, in[j])
          BY <3>8, <3>9, Commutes
        <4> QED BY <4>1, <4>2, <4>3
      <3> QED BY <3>2, <3>5, <3>6, <3>7, <3>8, <3>10
    <2>5. w1 \in Field /\ w2 \in Field /\ c \in Field
      <3>1. 0 \in 0..(a - 1)
        BY <1>2
      <3>2. w1 \in Field /\ w2 \in Field
        <4> HIDE DEF w1, w2, c, s
        <4> QED BY <2>4, <3>1
      <3> HIDE DEF w1, w2
      <3> QED BY <3>2, Closed
    <2>6. \A u \in 0..(a - 1) : Column(H, b, a, t)[u] = FrMul(c, s[u])
      <3> HIDE DEF c, s
      <3> QED BY <2>4
    <2> HIDE DEF w1, w2, s, A, B
    <2>7. FrSum(Column(H, b, a, t), a) = FrMul(c, y) /\ y \in Field
      <3> HIDE DEF c
      <3>1. a \in Nat /\ c \in Field /\ Terms(s, a)
        BY <1>2, <2>2, <2>5
      <3> DEFINE h == Column(H, b, a, t)
      <3>2. \A i \in 0..(a - 1) : h[i] = FrMul(c, s[i])
        BY <2>6
      <3> HIDE DEF h
      <3>3. FrSum(h, a) = FrMul(c, FrSum(s, a))
        BY <3>1, <3>2, TotalScales
      <3> QED BY <3>1, <3>3, TotalIn DEF h
    <2> HIDE DEF y
    <2>8. F[t] = FrMul(FrMul(FrMul(1, w1), y), w2)
      BY <2>1, <2>2, <2>3
    <2>9. FrMul(1, w1) = w1
      BY <2>5, Neutral
    <2>10. FrMul(FrMul(w1, y), w2) = FrMul(FrMul(w1, w2), y)
      <3>1. FrMul(FrMul(w1, y), w2) = FrMul(w1, FrMul(y, w2))
        BY <2>5, <2>7, MulAssociates
      <3>2. FrMul(FrMul(w1, w2), y) = FrMul(w1, FrMul(w2, y))
        BY <2>5, <2>7, MulAssociates
      <3>3. FrMul(y, w2) = FrMul(w2, y)
        BY <2>5, <2>7, Commutes
      <3> QED BY <3>1, <3>2, <3>3
    <2>11. FrMul(c, y) \in Field
      <3> HIDE DEF c
      <3> QED BY <2>5, <2>7, Closed
    <2> QED BY <2>7, <2>8, <2>9, <2>10, <2>11
  <1>11. FrSum(H, N) = FrSum(F, b)
    <2>1. \A t \in 0..(b - 1) : F[t] = FrSum(Column(H, b, a, t), a)
      BY <1>10
    <2> HIDE DEF F
    <2>2. FrSum(H, b * a) = FrSum(F, b)
      BY <1>2, <1>9, <2>1, TotalColumns
    <2> QED BY <1>2, <2>2
  <1>12. out[k] = FrMul(FrMul(job.scale, 1), FrSum(F, b)) /\ job.scale \in Field
    <2>1. Factor(2, k1, k2) = 1
      BY DEF Factor
    <2> QED BY <1>3, <1>5, <2>1 DEF ResultTyped, R
  <1>13. FrMul(job.scale, 1) = job.scale
    BY <1>12, Neutral
  <1> HIDE DEF F
  <1> QED BY <1>11, <1>12, <1>13 DEF H, R, m

\* Whatever the sizes and the inputs, the two dispatches nttPass1 and nttPass2 configure
\* leave the transform of size N in natural order, scaled (recordNtt of src/vkzg.cpp).
THEOREM PassesAreTransform == Spec => []TransformIsDft
  <1>1. Init => NttInv
    BY NttInvInit
  <1>2. NttInv /\ [Next]_vars => NttInv'
    BY NttInvNext
  <1>3. ASSUME NttInv PROVE TransformIsDft
    BY <1>3, DftIs DEF TransformIsDft
  <1> QED BY <1>1, <1>2, <1>3, PTL DEF Spec

-----------------------------------------------------------------------------
(* The circulants' transforms *)

\* The circulants' workgroups leave them.
LEMMA CirculantsAre ==
  ASSUME NttInv, pass = 3, job.circulant, NEW i \in 0..(CellSize - 1), NEW j \in 0..(Cells - 1)
  PROVE  out[j * CellSize + i] = FrSum(ColumnTerms(in, Roots, i, j), Cells \div 2 - 1)
  <1> DEFINE two == 2
             e == j * CellSize + i
             x == Source(2, i)
  <1>1. /\ job \in Transforms /\ Buffers /\ in \in [Exponents -> Field]
        /\ Runs(two) /\ BufOf(2) = out /\ two < pass
    BY Shaped DEF NttInv, Shape, Runs, BufOf, Buffers
  <1>2. /\ LogCells > 1 /\ Roots \in RootTables /\ job.scale = 1 /\ Elements = 0..(N - 1) /\ N = DomainSize
    BY <1>1, JobIs DEF Elements
  <1>3. QAt(2).n = Cells /\ QAt(2).groups = CellSize
    <2>1. QAt(two).n = Cells /\ QAt(two).groups = CellSize
      <3> HIDE DEF two
      <3> QED BY <1>1, PassIs
    <2> QED BY <2>1
  <1>4. /\ Cells \in Nat \ {0} /\ CellSize \in Nat \ {0} /\ DomainSize = Cells * CellSize
        /\ i \in Nat /\ j \in Nat /\ i < CellSize /\ j < Cells
    BY Sizes
  <1>5. e \in Elements /\ e % CellSize = i /\ e \div CellSize = j
    <2> DEFINE c == CellSize
               y == c * j
               d == Cells - (j + 1)
               w == c * d
    <2>1. d \in Nat /\ Cells = (j + 1) + d /\ c \in Nat \ {0}
      BY <1>4
    <2> HIDE DEF c, d
    <2>2. /\ ((j + 1) + d) * c = (c * j + c) + c * d /\ c * j \in Nat /\ c * d \in Nat
          /\ j * c = c * j
      BY <1>4, <2>1
    <2>3. DomainSize = (y + c) + w /\ y \in Nat /\ w \in Nat /\ e = y + i /\ i < c
      BY <1>4, <2>1, <2>2 DEF c
    <2>4. (i + c * j) % c = i /\ (i + c * j) \div c = j
      <3>1. i \in 0..(c - 1) /\ j \in Int
        BY <1>4 DEF c
      <3> QED BY <2>1, <3>1, DivisionIs
    <2> HIDE DEF e, w
    <2>5. e = i + c * j
      <3> HIDE DEF y
      <3>1. e = i + y
        BY <1>4, <2>3
      <3> QED BY <3>1 DEF y
    <2> HIDE DEF y
    <2>6. e \in 0..(DomainSize - 1)
      BY <1>4, <2>1, <2>3
    <2> QED BY <1>2, <2>4, <2>5, <2>6 DEF c
  <1>6. ResultTyped(2, i, j) /\ out[e] = Result(2, i, j)
    <2>1. /\ ResultTyped(two, e % QAt(two).groups, e \div QAt(two).groups)
          /\ BufOf(two)[e] = Result(two, e % QAt(two).groups, e \div QAt(two).groups)
      <3> HIDE DEF e, two
      <3> QED BY <1>1, <1>5, BufferIs
    <2> HIDE DEF e
    <2> QED BY <1>1, <1>3, <1>5, <2>1
  <1> HIDE DEF e
  <1>7. \A t \in 0..(Cells - 1) : x[t] = CirculantEntry(in, i, t)
    BY <1>3 DEF Source
  <1>8. FrSum(GroupTerms(x, Roots, Cells, j), Cells) = FrSum(ColumnTerms(in, Roots, i, j), Cells \div 2 - 1)
    <2> HIDE DEF x
    <2> QED BY <1>1, <1>2, <1>7, ColumnIs
  <1>9. out[e] = FrMul(FrMul(1, 1), FrSum(GroupTerms(x, Roots, Cells, j), Cells))
        /\ FrSum(GroupTerms(x, Roots, Cells, j), Cells) \in Field
    <2>1. Factor(2, i, j) = 1 /\ ScaleOf(2) = 1
      BY <1>2 DEF Factor, ScaleOf
    <2>2. /\ Terms(GroupTerms(x, Roots, Cells, j), Cells)
          /\ Result(2, i, j) = FrMul(FrMul(ScaleOf(2), Factor(2, i, j)),
                                     FrSum(GroupTerms(x, Roots, Cells, j), Cells))
      BY <1>3, <1>6 DEF ResultTyped
    <2> HIDE DEF x
    <2>3. FrSum(GroupTerms(x, Roots, Cells, j), Cells) \in Field
      BY <1>4, <2>2, TotalIn
    <2> QED BY <1>6, <2>1, <2>2, <2>3
  <1>10. FrMul(1, 1) = 1
    BY Closed, Neutral
  <1> HIDE DEF x
  <1> QED BY <1>8, <1>9, <1>10, Neutral DEF e

\* For any polynomial and any order the invocations run in, k_build_circulant.comp leaves
\* the transform of every circulant's column, in the transposed place phase A reads it from.
THEOREM CirculantsTransformed == Spec => []ColumnsTransformed
  <1>1. Init => NttInv
    BY NttInvInit
  <1>2. NttInv /\ [Next]_vars => NttInv'
    BY NttInvNext
  <1>3. ASSUME NttInv PROVE ColumnsTransformed
    BY <1>3, CirculantsAre DEF ColumnsTransformed, ColumnTerms
  <1> QED BY <1>1, <1>2, <1>3, PTL DEF Spec

-----------------------------------------------------------------------------
(* Limbs and what they count for *)

Digit == 0..(Word - 1)

\* Limbs that are integers, and such as memory holds.
HasInts(l) == \A i \in Index : l[i] \in Int
HasDigits(l) == \A i \in Index : l[i] \in Digit

\* The weights of the limbs, by their recursion.
LEMMA WeightsAre ==
  ASSUME LimbsAssumption
  PROVE  /\ LimbWeight \in [0..NLimbs -> Nat \ {0}] /\ LimbWeight[0] = 1
         /\ \A n \in 1..NLimbs : LimbWeight[n] = Word * LimbWeight[n - 1]
  <1> DEFINE S == Nat \ {0}
             G == [x \in (1..NLimbs) \X S |-> Word * x[2]]
             one == 1
             Step(h) == [n \in 0..NLimbs |-> IF n = 0 THEN 1 ELSE Word * h[n - 1]]
  <1>1. NLimbs \in Nat /\ one \in S /\ Word \in Nat /\ Word > 1
    BY DEF LimbsAssumption
  <1>2. \A k \in S : Word * k \in S
    BY <1>1
  <1>3. G \in [(1..NLimbs) \X S -> S]
    BY <1>2
  <1>4. \A n \in 1..NLimbs, k \in S : G[<<n, k>>] = Word * k
    OBVIOUS
  <1>5. PICK f \in [0..NLimbs -> S] : Follows(f, NLimbs, one, G)
    <2> HIDE DEF S, G, one
    <2> QED BY <1>1, <1>3, Recursion, Zenon
  <1>6. \A n \in 1..NLimbs : f[n] = Word * f[n - 1]
    <2> SUFFICES ASSUME NEW n \in 1..NLimbs PROVE f[n] = Word * f[n - 1]
      OBVIOUS
    <2>1. n - 1 \in 0..NLimbs
      BY <1>1
    <2>2. f[n - 1] \in S
      BY <2>1
    <2> HIDE DEF G, S
    <2> QED BY <1>4, <1>5, <2>2 DEF Follows
  <1>7. f = Step(f)
    <2>1. \A n \in 0..NLimbs : f[n] = IF n = 0 THEN 1 ELSE Word * f[n - 1]
      <3> SUFFICES ASSUME NEW n \in 0..NLimbs PROVE f[n] = IF n = 0 THEN 1 ELSE Word * f[n - 1]
        OBVIOUS
      <3>1. n = 0 \/ n \in 1..NLimbs
        BY <1>1
      <3>2. f[0] = 1
        BY <1>5 DEF Follows
      <3> QED BY <1>6, <3>1, <3>2
    <2> QED BY <1>5, <2>1
  <1>8. LimbWeight = CHOOSE h : h = Step(h)
    BY DEF LimbWeight
  <1>9. LimbWeight = Step(LimbWeight)
    <2> HIDE DEF Step
    <2> QED BY <1>7, <1>8
  <1>10. \A n \in 0..NLimbs : LimbWeight[n] = IF n = 0 THEN 1 ELSE Word * LimbWeight[n - 1]
    BY <1>9
  <1> HIDE DEF Step, G
  <1>11. LimbWeight[0] = 1 /\ \A n \in 1..NLimbs : LimbWeight[n] = Word * LimbWeight[n - 1]
    BY <1>1, <1>10
  <1>12. GoesOnAs(LimbWeight, f, NLimbs)
    <2>1. f[0] = 1
      BY <1>5 DEF Follows
    <2> QED BY <1>6, <1>11, <2>1 DEF GoesOnAs
  <1>13. \A n \in 0..NLimbs : LimbWeight[n] = f[n]
    <2> HIDE DEF S, one
    <2> QED BY <1>1, <1>12, Agree
  <1>14. LimbWeight = [n \in 0..NLimbs |-> LimbWeight[n]]
    BY <1>9 DEF Step
  <1>15. \A n \in 0..NLimbs : LimbWeight[n] \in Nat \ {0}
    BY <1>5, <1>13
  <1>16. LimbWeight \in [0..NLimbs -> Nat \ {0}]
    BY <1>14, <1>15, Zenon
  <1> QED BY <1>11, <1>16

\* The value of the lowest n limbs.
PartOf(limbs, n) == Sum([i \in Index |-> limbs[i] * LimbWeight[i - 1]], n)

\* It grows limb by limb.
LEMMA PartIs ==
  ASSUME LimbsAssumption, NEW l, HasInts(l)
  PROVE  /\ PartOf(l, 0) = 0
         /\ \A n \in 0..NLimbs : PartOf(l, n) \in Int
         /\ \A n \in 1..NLimbs : PartOf(l, n) = PartOf(l, n - 1) + l[n] * LimbWeight[n - 1]
  <1> DEFINE f == [i \in Index |-> l[i] * LimbWeight[i - 1]]
  <1>1. NLimbs \in Nat
    BY DEF LimbsAssumption
  <1>2. \A i \in 1..NLimbs : f[i] = l[i] * LimbWeight[i - 1] /\ f[i] \in Int
    <2> SUFFICES ASSUME NEW i \in 1..NLimbs
                 PROVE  f[i] = l[i] * LimbWeight[i - 1] /\ f[i] \in Int
      OBVIOUS
    <2>1. LimbWeight[i - 1] \in Int /\ l[i] \in Int
      BY <1>1, WeightsAre DEF Index, HasInts
    <2> QED BY <2>1 DEF Index
  <1>3. PartOf(l, 0) = 0
    BY SumNone DEF PartOf
  <1>4. \A n \in 0..NLimbs : Ints(f, n)
    BY <1>1, <1>2 DEF Ints
  <1> HIDE DEF f
  <1>5. \A n \in 0..NLimbs : PartOf(l, n) = Sum(f, n)
    BY DEF f, PartOf
  <1>6. \A n \in 0..NLimbs : PartOf(l, n) \in Int
    BY <1>1, <1>4, <1>5, SumInt
  <1>7. ASSUME NEW n \in 1..NLimbs
        PROVE  PartOf(l, n) = PartOf(l, n - 1) + l[n] * LimbWeight[n - 1]
    <2> DEFINE m == n - 1
    <2>1. m \in Nat /\ m + 1 = n /\ m \in 0..NLimbs /\ n \in 0..NLimbs
      BY <1>1
    <2> HIDE DEF m
    <2>2. Sum(f, m + 1) = Sum(f, m) + f[m + 1]
      BY <1>4, <2>1, SumNext
    <2>3. PartOf(l, n) = PartOf(l, m) + l[n] * LimbWeight[n - 1]
      BY <1>2, <1>5, <2>1, <2>2
    <2> QED BY <2>3 DEF m
  <1> QED BY <1>3, <1>6, <1>7

\* ValueOf adds all limbs up.
LEMMA LimbsValue ==
  ASSUME LimbsAssumption, NEW l, HasInts(l)
  PROVE  ValueOf(l) = PartOf(l, NLimbs)
  <1> DEFINE f == [i \in Index |-> l[i] * LimbWeight[i - 1]]
             Step(h) == [n \in 0..NLimbs |-> IF n = 0 THEN 0 ELSE h[n - 1] + l[n] * LimbWeight[n - 1]]
             low == CHOOSE h : h = Step(h)
             g == [n \in 0..NLimbs |-> PartOf(l, n)]
  <1>1. NLimbs \in Nat
    BY DEF LimbsAssumption
  <1>2. \A n \in 0..NLimbs : g[n] = IF n = 0 THEN 0 ELSE g[n - 1] + l[n] * LimbWeight[n - 1]
    <2> SUFFICES ASSUME NEW n \in 0..NLimbs
                 PROVE  g[n] = IF n = 0 THEN 0 ELSE g[n - 1] + l[n] * LimbWeight[n - 1]
      OBVIOUS
    <2>1. CASE n = 0
      BY <2>1, PartIs
    <2>2. CASE n # 0
      <3>1. n \in 1..NLimbs /\ n - 1 \in 0..NLimbs
        BY <1>1, <2>2
      <3> QED BY <2>2, <3>1, PartIs
    <2> QED BY <2>1, <2>2
  <1>3. g = Step(g)
    <2> DEFINE e(n) == IF n = 0 THEN 0 ELSE g[n - 1] + l[n] * LimbWeight[n - 1]
    <2>1. g = [n \in 0..NLimbs |-> g[n]]
      OBVIOUS
    <2> HIDE DEF g
    <2> QED BY <1>2, <2>1
  <1>4. low = Step(low)
    <2> HIDE DEF Step, g
    <2> QED BY <1>3
  <1>5. ValueOf(l) = low[NLimbs]
    BY DEF ValueOf
  <1> HIDE DEF low, g
  <1>6. \A n \in 0..NLimbs : low[n] = IF n = 0 THEN 0 ELSE low[n - 1] + l[n] * LimbWeight[n - 1]
    BY <1>4
  <1> HIDE DEF Step
  <1>7. GoesOnAs(low, g, NLimbs)
    <2>1. low[0] = g[0]
      BY <1>1, <1>2, <1>6
    <2>2. ASSUME NEW n \in 1..NLimbs, low[n - 1] = g[n - 1] PROVE low[n] = g[n]
      <3>1. n \in 0..NLimbs /\ n # 0
        BY <1>1
      <3> QED BY <1>2, <1>6, <2>2, <3>1
    <2> QED BY <2>1, <2>2 DEF GoesOnAs
  <1>8. low[NLimbs] = g[NLimbs]
    BY <1>1, <1>7, Agree
  <1> QED BY <1>1, <1>5, <1>8 DEF g

\* Products that a number times one more, or two, is.
LEMMA Products ==
  ASSUME NEW a \in Int, NEW b \in Int, NEW c \in Int
  PROVE  a * b \in Int /\ (a + c) * b = a * b + c * b /\ (a - c) * b = a * b - c * b
         /\ (a + 1) * b = a * b + b /\ (a * b) * c = a * (b * c) /\ a * b = b * a
  OBVIOUS

\* n limbs hold less than what the next one counts for.
LEMMA PartBelow ==
  ASSUME LimbsAssumption, NEW l, HasDigits(l)
  PROVE  \A n \in 0..NLimbs : PartOf(l, n) \in 0..(LimbWeight[n] - 1)
  <1> DEFINE T == {n \in Nat : n <= NLimbs => PartOf(l, n) \in 0..(LimbWeight[n] - 1)}
  <1>1. NLimbs \in Nat /\ Word \in Nat /\ Word > 1 /\ HasInts(l)
    BY DEF LimbsAssumption, Digit, HasDigits, HasInts
  <1>2. 0 \in T
    BY <1>1, PartIs, WeightsAre
  <1>3. ASSUME NEW n \in Nat, n \in T PROVE n + 1 \in T
    <2> SUFFICES ASSUME n + 1 <= NLimbs PROVE PartOf(l, n + 1) \in 0..(LimbWeight[n + 1] - 1)
      OBVIOUS
    <2> DEFINE m == n + 1
               w == LimbWeight[n]
               d == l[m]
               p == PartOf(l, n)
    <2>1. m \in 1..NLimbs /\ m - 1 = n /\ n \in 0..NLimbs /\ m \in Index
      BY <1>1 DEF Index
    <2>2. w \in Nat \ {0} /\ LimbWeight[m] = Word * w
      BY <2>1, WeightsAre
    <2>3. d \in Digit
      BY <2>1 DEF HasDigits
    <2>4. PartOf(l, m) = p + d * w /\ p \in 0..(w - 1)
      BY <1>1, <1>3, <2>1, PartIs
    <2>5. \E e \in Nat : Word = d + 1 + e
      <3>1. Word - d - 1 \in Nat /\ Word = d + 1 + (Word - d - 1)
        BY <1>1, <2>3 DEF Digit
      <3> QED BY <3>1
    <2>6. PICK e \in Nat : Word = d + 1 + e
      BY <2>5
    <2>7. d \in Nat
      BY <2>3 DEF Digit
    <2> HIDE DEF w, d, p, m
    <2>8. Word * w = d * w + w + e * w /\ d * w \in Nat /\ e * w \in Nat
      BY <2>2, <2>6, <2>7
    <2>9. p + d * w \in 0..(Word * w - 1)
      <3> DEFINE x == d * w
                 y == e * w
                 z == Word * w
      <3>1. z = x + w + y /\ x \in Nat /\ y \in Nat
        BY <2>8
      <3> HIDE DEF x, y, z
      <3>2. p + x \in 0..(z - 1)
        BY <2>2, <2>4, <3>1
      <3> QED BY <3>2 DEF x, z
    <2>10. PartOf(l, m) \in 0..(LimbWeight[m] - 1)
      BY <2>2, <2>4, <2>9
    <2> QED BY <2>10 DEF m
  <1>4. Nat \subseteq T
    <2> HIDE DEF T
    <2> QED BY <1>2, <1>3, Induction
  <1> QED BY <1>1, <1>4

\* The limbs of a number hold it.
LEMMA LimbsHold ==
  ASSUME LimbsAssumption, NEW x \in Nat
  PROVE  /\ ToLimbs(x) \in [Index -> Digit] /\ HasDigits(ToLimbs(x))
         /\ \A n \in 0..NLimbs : PartOf(ToLimbs(x), n) = x % LimbWeight[n]
         /\ x < Capacity => PartOf(ToLimbs(x), NLimbs) = x
  <1> DEFINE l == ToLimbs(x)
             T == {n \in Nat : n <= NLimbs => PartOf(l, n) = x % LimbWeight[n]}
  <1>1. NLimbs \in Nat /\ Word \in Nat /\ Word > 1
    BY DEF LimbsAssumption
  <1>2. \A i \in Index : i - 1 \in 0..NLimbs /\ LimbWeight[i - 1] \in Nat \ {0}
    BY <1>1, WeightsAre DEF Index
  <1>3. \A i \in Index : l[i] = (x \div LimbWeight[i - 1]) % Word
    BY DEF ToLimbs
  <1>4. \A i \in Index : (x \div LimbWeight[i - 1]) % Word \in Digit
    <2> SUFFICES ASSUME NEW i \in Index PROVE (x \div LimbWeight[i - 1]) % Word \in Digit
      OBVIOUS
    <2> DEFINE y == x \div LimbWeight[i - 1]
    <2>1. y \in Nat
      BY <1>2, Division
    <2> HIDE DEF y
    <2>2. y % Word \in 0..(Word - 1)
      BY <1>1, <2>1, Division
    <2> QED BY <2>2 DEF y, Digit
  <1>5. l \in [Index -> Digit] /\ HasInts(l) /\ HasDigits(l)
    <2>1. l = [i \in Index |-> (x \div LimbWeight[i - 1]) % Word]
      BY DEF ToLimbs
    <2> HIDE DEF l
    <2>2. l \in [Index -> Digit]
      BY <1>4, <2>1
    <2> QED BY <1>1, <2>2 DEF Digit, HasInts, HasDigits
  <1> HIDE DEF l
  <1>6. 0 \in T
    BY <1>5, PartIs, WeightsAre
  <1>7. ASSUME NEW n \in Nat, n \in T PROVE n + 1 \in T
    <2> SUFFICES ASSUME n + 1 <= NLimbs PROVE PartOf(l, n + 1) = x % LimbWeight[n + 1]
      OBVIOUS
    <2> DEFINE m == n + 1
               w == LimbWeight[n]
               q == x \div w
               p == x % w
               r == q % Word
               k == q \div Word
    <2>1. m \in 1..NLimbs /\ m - 1 = n /\ n \in 0..NLimbs /\ m \in Index
      BY <1>1 DEF Index
    <2>2. w \in Nat \ {0} /\ LimbWeight[m] = Word * w
      BY <2>1, WeightsAre
    <2>3. p \in 0..(w - 1) /\ q \in Nat /\ x = p + w * q
      BY <2>2, Division
    <2>4. r \in 0..(Word - 1) /\ k \in Nat /\ q = r + Word * k
      <3> HIDE DEF q
      <3>1. Word \in Nat \ {0} /\ q \in Nat
        BY <1>1, <2>3
      <3> QED BY <3>1, Division, Zenon
    <2>5. PartOf(l, m) = p + r * w
      BY <1>3, <1>5, <1>7, <2>1, PartIs
    <2> HIDE DEF m, w, q, p, r, k
    <2>6. x = (p + r * w) + (Word * w) * k
      <3>1. w * q = w * r + w * (Word * k) /\ w * (Word * k) = (Word * w) * k /\ w * r = r * w
        <4>1. w \in Int /\ r \in Int /\ k \in Int /\ Word \in Int /\ Word * k \in Int
          BY <1>1, <2>2, <2>4
        <4>2. w * (Word * k) = (w * Word) * k /\ w * Word = Word * w
          BY <4>1, Distributes
        <4> QED BY <2>4, <4>1, <4>2, Distributes
      <3> DEFINE a == r * w
                 b == (Word * w) * k
      <3>2. x = p + (a + b) /\ a \in Int /\ b \in Int /\ p \in Int
        <4>1. r * w \in Int /\ Word * w \in Int /\ (Word * w) * k \in Int
          BY <1>1, <2>2, <2>4
        <4> QED BY <2>2, <2>3, <3>1, <4>1
      <3> HIDE DEF a, b
      <3>3. x = (p + a) + b
        BY <3>2
      <3> QED BY <3>3 DEF a, b
    <2>7. p + r * w \in 0..(Word * w - 1) /\ Word * w \in Nat \ {0}
      <3>1. PICK e \in Nat : Word = r + 1 + e
        <4>1. Word - r - 1 \in Nat /\ Word = r + 1 + (Word - r - 1)
          BY <1>1, <2>4
        <4> QED BY <4>1
      <3>2. Word * w = r * w + w + e * w /\ r * w \in Nat /\ e * w \in Nat
        BY <2>2, <2>4, <3>1
      <3> DEFINE a == r * w
                 b == e * w
                 z == Word * w
      <3>3. z = a + w + b /\ a \in Nat /\ b \in Nat
        BY <3>2
      <3> HIDE DEF a, b, z
      <3>4. p + a \in 0..(z - 1) /\ z \in Nat \ {0}
        BY <2>2, <2>3, <3>3
      <3> QED BY <3>4 DEF a, z
    <2>8. x % (Word * w) = p + r * w
      <3> DEFINE a == p + r * w
                 z == Word * w
      <3>1. a \in 0..(z - 1) /\ z \in Nat \ {0} /\ k \in Int /\ x = a + z * k
        BY <2>4, <2>6, <2>7
      <3> HIDE DEF a, z
      <3>2. (a + z * k) % z = a
        BY <3>1, DivisionIs
      <3>3. x % z = a
        BY <3>1, <3>2
      <3> QED BY <3>3 DEF a, z
    <2>9. PartOf(l, m) = x % LimbWeight[m]
      BY <2>2, <2>5, <2>8
    <2> QED BY <2>9 DEF m
  <1>8. Nat \subseteq T
    <2> HIDE DEF T
    <2> QED BY <1>6, <1>7, Induction
  <1>9. \A n \in 0..NLimbs : PartOf(l, n) = x % LimbWeight[n]
    BY <1>1, <1>8
  <1>10. ASSUME x < Capacity PROVE x % Capacity = x
    <2>1. Capacity \in Nat \ {0}
      BY <1>1, WeightsAre DEF Capacity
    <2> QED BY <1>10, <2>1
  <1> QED BY <1>1, <1>5, <1>9, <1>10 DEF l, Capacity

\* One word of a number of two, and what it carries.
LEMMA Words ==
  ASSUME LimbsAssumption, NEW s \in 0..(Word * Word - 1)
  PROVE  Low(s) \in Digit /\ High(s) \in Digit /\ s = Low(s) + High(s) * Word
  <1> DEFINE q == s \div Word
             r == s % Word
  <1>1. Word \in Nat \ {0} /\ Word > 1 /\ s \in Nat
    BY DEF LimbsAssumption
  <1>2. r \in 0..(Word - 1) /\ q \in Nat /\ s = r + Word * q
    BY <1>1, Division, Zenon
  <1> HIDE DEF q, r
  <1>3. q \in 0..(Word - 1)
    <2> SUFFICES ASSUME q >= Word PROVE FALSE
      BY <1>1, <1>2
    <2>1. PICK e \in Nat : q = Word + e
      <3>1. q - Word \in Nat /\ q = Word + (q - Word)
        BY <1>1, <1>2
      <3> QED BY <3>1
    <2>2. Word * q = Word * Word + Word * e /\ Word * e \in Nat /\ Word * Word \in Nat
      BY <1>1, <2>1
    <2> DEFINE a == Word * Word
               b == Word * e
    <2>3. s = r + (a + b) /\ a \in Nat /\ b \in Nat /\ s < a
      BY <1>1, <1>2, <2>2
    <2> HIDE DEF a, b
    <2> QED BY <1>2, <2>3
  <1>4. q % Word = q
    BY <1>1, <1>3
  <1>5. Low(s) = r /\ High(s) = q
    BY <1>4 DEF Low, High, q, r
  <1>6. Word * q = q * Word
    BY <1>1, <1>2
  <1> QED BY <1>2, <1>3, <1>5, <1>6 DEF Digit

\* Sums that fit two words, a carry included.
Sums == [Index -> 0..(Word * Word - Word)]
Carries(f, s) ==
  f \in [0..NLimbs -> Digit] /\ f[0] = 0 /\ \A n \in 1..NLimbs : f[n] = High(s[n] + f[n - 1])
LimbsKept(f, s) == [i \in Index |-> Low(s[i] + f[i - 1])]

\* A sum and the carry into it fit.
LEMMA Fits ==
  ASSUME LimbsAssumption, NEW s \in 0..(Word * Word - Word), NEW c \in Digit
  PROVE  s + c \in 0..(Word * Word - 1)
  <1> DEFINE a == Word * Word
  <1>1. Word \in Nat /\ a \in Nat /\ s \in 0..(a - Word) /\ c \in 0..(Word - 1)
    BY DEF LimbsAssumption, Digit
  <1> HIDE DEF a
  <1>2. s + c \in 0..(a - 1)
    BY <1>1
  <1> QED BY <1>2 DEF a

\* There are carries.
LEMMA CarriesExist ==
  ASSUME LimbsAssumption, NEW s \in Sums PROVE \E f : Carries(f, s)
  <1> DEFINE zero == 0
             G == [x \in (1..NLimbs) \X Digit |-> High(s[x[1]] + x[2])]
  <1>1. NLimbs \in Nat /\ zero \in Digit
    BY DEF LimbsAssumption, Digit
  <1>2. \A n \in 1..NLimbs, c \in Digit : High(s[n] + c) \in Digit
    <2> SUFFICES ASSUME NEW n \in 1..NLimbs, NEW c \in Digit PROVE High(s[n] + c) \in Digit
      OBVIOUS
    <2>1. s[n] \in 0..(Word * Word - Word)
      BY DEF Sums, Index
    <2>2. s[n] + c \in 0..(Word * Word - 1)
      BY <2>1, Fits
    <2> QED BY <2>2, Words
  <1>3. G \in [(1..NLimbs) \X Digit -> Digit]
    BY <1>2
  <1>4. \A n \in 1..NLimbs, c \in Digit : G[<<n, c>>] = High(s[n] + c)
    OBVIOUS
  <1> HIDE DEF G
  <1>5. PICK f \in [0..NLimbs -> Digit] : Follows(f, NLimbs, zero, G)
    <2> HIDE DEF zero
    <2> QED BY <1>1, <1>3, Recursion, Zenon
  <1>6. \A n \in 1..NLimbs : f[n] = High(s[n] + f[n - 1])
    <2> SUFFICES ASSUME NEW n \in 1..NLimbs PROVE f[n] = High(s[n] + f[n - 1])
      OBVIOUS
    <2>1. n - 1 \in 0..NLimbs
      BY <1>1
    <2>2. f[n - 1] \in Digit
      BY <2>1
    <2>3. f[n] = G[<<n, f[n - 1]>>]
      BY <1>5 DEF Follows
    <2> QED BY <1>4, <2>2, <2>3
  <1> QED BY <1>5, <1>6 DEF Follows, Carries

\* Where each word is what is kept and what is carried, so is the whole.
LEMMA Accounted ==
  ASSUME LimbsAssumption, NEW s, HasInts(s), NEW o, HasInts(o), NEW f \in [0..NLimbs -> Int],
         f[0] = 0, \A i \in Index : s[i] + f[i - 1] = o[i] + f[i] * Word
  PROVE  PartOf(o, NLimbs) + f[NLimbs] * Capacity = PartOf(s, NLimbs)
  <1> DEFINE T == {n \in Nat : n <= NLimbs =>
                     PartOf(o, n) + f[n] * LimbWeight[n] = PartOf(s, n)}
  <1>1. NLimbs \in Nat /\ Word \in Nat /\ Word > 1
    BY DEF LimbsAssumption
  <1>2. 0 \in T
    <2>1. LimbWeight[0] = 1
      BY WeightsAre
    <2> QED BY <2>1, PartIs
  <1>3. ASSUME NEW n \in Nat, n \in T PROVE n + 1 \in T
    <2> SUFFICES ASSUME n + 1 <= NLimbs
                 PROVE  PartOf(o, n + 1) + f[n + 1] * LimbWeight[n + 1] = PartOf(s, n + 1)
      OBVIOUS
    <2> DEFINE m == n + 1
               w == LimbWeight[n]
    <2>1. m \in 1..NLimbs /\ m - 1 = n /\ n \in 0..NLimbs /\ m \in Index /\ m \in 0..NLimbs
      BY <1>1 DEF Index
    <2>2. w \in Nat \ {0} /\ LimbWeight[m] = Word * w
      BY <2>1, WeightsAre
    <2>3. PartOf(o, m) = PartOf(o, n) + o[m] * w /\ PartOf(s, m) = PartOf(s, n) + s[m] * w
      BY <2>1, PartIs
    <2>4. PartOf(o, n) + f[n] * w = PartOf(s, n)
      BY <1>3, <2>1
    <2>5. PartOf(o, n) \in Int /\ PartOf(s, n) \in Int
      BY <2>1, PartIs
    <2>6. o[m] \in Int /\ s[m] \in Int /\ f[n] \in Int /\ f[m] \in Int
      BY <1>1, <2>1 DEF HasInts
    <2>7. s[m] + f[n] = o[m] + f[m] * Word
      BY <2>1
    <2> HIDE DEF m, w
    <2>8. s[m] * w + f[n] * w = o[m] * w + f[m] * (Word * w)
      <3>1. (s[m] + f[n]) * w = s[m] * w + f[n] * w
        BY <2>2, <2>6
      <3>3. f[m] * Word \in Int /\ (f[m] * Word) * w = f[m] * (Word * w)
        BY <1>1, <2>2, <2>6
      <3>4. (o[m] + f[m] * Word) * w = o[m] * w + (f[m] * Word) * w
        BY <2>2, <2>6, <3>3, Products
      <3> QED BY <2>7, <3>1, <3>3, <3>4
    <2>9. PartOf(o, m) + f[m] * LimbWeight[m] = PartOf(s, m)
      <3> DEFINE a == s[m] * w
                 b == f[n] * w
                 c == o[m] * w
                 d == f[m] * (Word * w)
                 p == PartOf(o, n)
                 q == PartOf(s, n)
      <3>1. a \in Int /\ b \in Int /\ c \in Int /\ d \in Int
        <4>1. w \in Int /\ Word * w \in Int
          BY <1>1, <2>2
        <4> QED BY <2>6, <4>1, Products
      <3>2. a + b = c + d
        BY <2>8
      <3>3. p \in Int /\ q \in Int /\ p + b = q
        BY <2>4, <2>5
      <3> HIDE DEF a, b, c, d, p, q
      <3>4. (p + c) + d = q + a
        BY <3>1, <3>3, <3>2
      <3> QED BY <2>2, <2>3, <3>4 DEF a, c, d, p, q
    <2> QED BY <2>9 DEF m
  <1>4. Nat \subseteq T
    <2> HIDE DEF T
    <2> QED BY <1>2, <1>3, Induction
  <1>5. PartOf(o, NLimbs) + f[NLimbs] * LimbWeight[NLimbs] = PartOf(s, NLimbs)
    BY <1>1, <1>4
  <1> QED BY <1>5 DEF Capacity

\* What is kept, and what is carried, is what was summed.
LEMMA NothingLost ==
  ASSUME LimbsAssumption, NEW s \in Sums, NEW f, Carries(f, s)
  PROVE  /\ LimbsKept(f, s) \in [Index -> Digit]
         /\ PartOf(LimbsKept(f, s), NLimbs) + f[NLimbs] * Capacity = PartOf(s, NLimbs)
  <1> DEFINE o == LimbsKept(f, s)
  <1>1. NLimbs \in Nat /\ Word \in Nat /\ Word > 1
    BY DEF LimbsAssumption
  <1>2. ASSUME NEW i \in Index
        PROVE  /\ o[i] = Low(s[i] + f[i - 1]) /\ o[i] \in Digit
               /\ s[i] + f[i - 1] = o[i] + f[i] * Word
    <2>1. s[i] \in 0..(Word * Word - Word) /\ f[i - 1] \in Digit
      BY <1>1 DEF Sums, Carries, Index
    <2>2. s[i] + f[i - 1] \in 0..(Word * Word - 1)
      BY <2>1, Fits
    <2>3. f[i] = High(s[i] + f[i - 1])
      BY DEF Carries, Index
    <2>4. o[i] = Low(s[i] + f[i - 1])
      BY DEF LimbsKept
    <2> QED BY <2>2, <2>3, <2>4, Words
  <1>3. o \in [Index -> Digit]
    <2>1. o = [i \in Index |-> o[i]]
      BY DEF LimbsKept
    <2> HIDE DEF o
    <2> QED BY <1>2, <2>1
  <1>4. HasInts(s) /\ HasInts(o)
    <2>1. Word * Word \in Nat
      BY <1>1
    <2> HIDE DEF o
    <2> QED BY <1>1, <1>3, <2>1 DEF Sums, Digit, HasInts
  <1>5. f \in [0..NLimbs -> Int] /\ f[0] = 0
    BY <1>1 DEF Carries, Digit
  <1> HIDE DEF o
  <1>6. PartOf(o, NLimbs) + f[NLimbs] * Capacity = PartOf(s, NLimbs)
    BY <1>2, <1>4, <1>5, Accounted
  <1> QED BY <1>3, <1>6 DEF o

\* The value of limb-wise sums and multiples.
LEMMA PartLinear ==
  ASSUME LimbsAssumption, NEW a, HasInts(a), NEW y \in Int, NEW b, HasInts(b), NEW s, HasInts(s),
         \A i \in Index : s[i] = a[i] * y + b[i]
  PROVE  PartOf(s, NLimbs) = PartOf(a, NLimbs) * y + PartOf(b, NLimbs)
  <1> DEFINE T == {n \in Nat : n <= NLimbs =>
                     PartOf(s, n) = PartOf(a, n) * y + PartOf(b, n)}
  <1>1. NLimbs \in Nat
    BY DEF LimbsAssumption
  <1>2. 0 \in T
    BY PartIs
  <1>3. ASSUME NEW n \in Nat, n \in T PROVE n + 1 \in T
    <2> SUFFICES ASSUME n + 1 <= NLimbs
                 PROVE  PartOf(s, n + 1) = PartOf(a, n + 1) * y + PartOf(b, n + 1)
      OBVIOUS
    <2> DEFINE m == n + 1
               w == LimbWeight[n]
               p == PartOf(a, n)
               q == PartOf(b, n)
    <2>1. m \in 1..NLimbs /\ m - 1 = n /\ n \in 0..NLimbs /\ m \in Index
      BY <1>1 DEF Index
    <2>2. w \in Int
      <3>1. LimbWeight[n] \in Nat \ {0}
        BY <2>1, WeightsAre
      <3> QED BY <3>1
    <2>3. /\ PartOf(a, m) = p + a[m] * w /\ PartOf(b, m) = q + b[m] * w
          /\ PartOf(s, m) = PartOf(s, n) + s[m] * w /\ p \in Int /\ q \in Int
      BY <2>1, PartIs
    <2>4. PartOf(s, n) = p * y + q
      BY <1>3, <2>1
    <2>5. s[m] = a[m] * y + b[m] /\ a[m] \in Int /\ b[m] \in Int
      BY <2>1 DEF HasInts
    <2> HIDE DEF m, w, p, q
    <2>6. s[m] * w = (a[m] * w) * y + b[m] * w
      <3>1. a[m] * y \in Int /\ (a[m] * y) * w = (a[m] * w) * y
        BY <2>2, <2>5
      <3> QED BY <2>2, <2>5, <3>1, Products
    <2>7. (p + a[m] * w) * y = p * y + (a[m] * w) * y
      <3>1. a[m] * w \in Int
        BY <2>2, <2>5
      <3> QED BY <2>3, <3>1, Products
    <2>8. (p * y + q) + ((a[m] * w) * y + b[m] * w) = (p * y + (a[m] * w) * y) + (q + b[m] * w)
      <3> DEFINE c == p * y
                 d == (a[m] * w) * y
                 e == b[m] * w
      <3>1. c \in Int /\ d \in Int /\ e \in Int
        BY <2>2, <2>3, <2>5
      <3> HIDE DEF c, d, e
      <3>2. (c + q) + (d + e) = (c + d) + (q + e)
        BY <2>3, <3>1
      <3> QED BY <3>2 DEF c, d, e
    <2>9. PartOf(s, m) = PartOf(a, m) * y + PartOf(b, m)
      BY <2>3, <2>4, <2>6, <2>7, <2>8
    <2> QED BY <2>9 DEF m
  <1>4. Nat \subseteq T
    <2> HIDE DEF T
    <2> QED BY <1>2, <1>3, Induction
  <1> QED BY <1>1, <1>4

-----------------------------------------------------------------------------
(* Sums and differences *)

\* The value of a sum is the sum of the values.
LEMMA PartAdds ==
  ASSUME LimbsAssumption, NEW a, HasInts(a), NEW b, HasInts(b), NEW s, HasInts(s),
         \A i \in Index : s[i] = a[i] + b[i]
  PROVE  PartOf(s, NLimbs) = PartOf(a, NLimbs) + PartOf(b, NLimbs)
  <1> DEFINE f == [i \in Index |-> a[i] * LimbWeight[i - 1]]
             g == [i \in Index |-> b[i] * LimbWeight[i - 1]]
             h == [i \in Index |-> s[i] * LimbWeight[i - 1]]
  <1>1. NLimbs \in Nat
    BY DEF LimbsAssumption
  <1>2. ASSUME NEW i \in 1..NLimbs PROVE f[i] \in Int /\ g[i] \in Int /\ h[i] = f[i] + g[i]
    <2>1. i \in Index /\ LimbWeight[i - 1] \in Int
      BY <1>1, WeightsAre DEF Index
    <2>2. a[i] \in Int /\ b[i] \in Int /\ s[i] = a[i] + b[i]
      BY <2>1 DEF HasInts
    <2>3. s[i] * LimbWeight[i - 1] = a[i] * LimbWeight[i - 1] + b[i] * LimbWeight[i - 1]
          /\ a[i] * LimbWeight[i - 1] \in Int /\ b[i] * LimbWeight[i - 1] \in Int
      BY <2>1, <2>2, Distributes
    <2> QED BY <2>1, <2>3
  <1> HIDE DEF f, g, h
  <1>3. Sum(h, NLimbs) = Sum(f, NLimbs) + Sum(g, NLimbs)
    BY <1>1, <1>2, SumAdds DEF Ints
  <1> QED BY <1>3 DEF f, g, h, PartOf

\* Two words' worth of carries are determined.
LEMMA CarriesAgree ==
  ASSUME LimbsAssumption, NEW s \in Sums, NEW f, Carries(f, s), NEW c, c[0] = 0,
         \A n \in 1..NLimbs : c[n] = High(s[n] + c[n - 1])
  PROVE  \A n \in 0..NLimbs : c[n] = f[n]
  <1>1. NLimbs \in Nat
    BY DEF LimbsAssumption
  <1>2. GoesOnAs(c, f, NLimbs)
    BY DEF GoesOnAs, Carries
  <1> QED BY <1>1, <1>2, Agree

\* AddLimbs adds, but for a carry out of the last limb.
LEMMA AddLimbsAre ==
  ASSUME LimbsAssumption, NEW a, HasDigits(a), NEW b, HasDigits(b)
  PROVE  /\ AddLimbs(a, b) \in [Index -> Digit]
         /\ \E c \in Digit : PartOf(AddLimbs(a, b), NLimbs) + c * Capacity
                               = PartOf(a, NLimbs) + PartOf(b, NLimbs)
  <1> DEFINE s == [i \in Index |-> a[i] + b[i]]
             Step(h) == [n \in 0..NLimbs |-> IF n = 0 THEN 0 ELSE High(a[n] + b[n] + h[n - 1])]
             c == CHOOSE h : h = Step(h)
  <1>1. NLimbs \in Nat /\ Word \in Nat /\ Word > 1
    BY DEF LimbsAssumption
  <1>2. \A i \in Index : a[i] \in Digit /\ b[i] \in Digit /\ s[i] = a[i] + b[i]
    BY DEF HasDigits
  <1>3. s \in Sums
    <2>1. Word * Word \in Int /\ 2 * Word - 2 <= Word * Word - Word
      <3>1. PICK e \in Nat : Word = e + 2
        <4>1. Word - 2 \in Nat /\ Word = (Word - 2) + 2
          BY <1>1
        <4> QED BY <4>1
      <3>2. Word * Word = e * e + 4 * e + 4 /\ e * e \in Nat
        BY <3>1
      <3> DEFINE x == e * e
                 y == Word * Word
      <3>3. y = x + 4 * e + 4 /\ x \in Nat
        BY <3>2
      <3> HIDE DEF x, y
      <3>4. y \in Int /\ 2 * Word - 2 <= y - Word
        BY <3>1, <3>3
      <3> QED BY <3>4 DEF y
    <2> DEFINE y == Word * Word - Word
    <2>2. y \in Int /\ 2 * Word - 2 <= y
      BY <1>1, <2>1
    <2> HIDE DEF y
    <2>3. \A i \in Index : a[i] + b[i] \in 0..y
      BY <1>1, <1>2, <2>2 DEF Digit
    <2> QED BY <2>3 DEF Sums, y
  <1>4. PICK f : Carries(f, s)
    <2> HIDE DEF s
    <2> QED BY <1>3, CarriesExist
  <1>5. \A n \in 1..NLimbs : f[n] = High(a[n] + b[n] + f[n - 1])
    BY <1>2, <1>4 DEF Carries, Index
  <1>6. f = Step(f)
    <2>1. \A n \in 0..NLimbs : f[n] = IF n = 0 THEN 0 ELSE High(a[n] + b[n] + f[n - 1])
      <3> SUFFICES ASSUME NEW n \in 0..NLimbs
                   PROVE  f[n] = IF n = 0 THEN 0 ELSE High(a[n] + b[n] + f[n - 1])
        OBVIOUS
      <3>1. n = 0 \/ n \in 1..NLimbs
        BY <1>1
      <3>2. f[0] = 0
        BY <1>4 DEF Carries
      <3> QED BY <1>5, <3>1, <3>2
    <2>2. f \in [0..NLimbs -> Digit]
      BY <1>4 DEF Carries
    <2> QED BY <2>1, <2>2
  <1>7. c = Step(c)
    <2> HIDE DEF Step
    <2> QED BY <1>6
  <1>8. AddLimbs(a, b) = [i \in Index |-> Low(a[i] + b[i] + c[i - 1])]
    BY DEF AddLimbs
  <1> HIDE DEF c
  <1>9. \A n \in 0..NLimbs : c[n] = IF n = 0 THEN 0 ELSE High(a[n] + b[n] + c[n - 1])
    BY <1>7
  <1> HIDE DEF Step
  <1>10. \A n \in 0..NLimbs : c[n] = f[n]
    <2>1. c[0] = 0
      BY <1>1, <1>9
    <2>2. \A n \in 1..NLimbs : c[n] = High(s[n] + c[n - 1])
      BY <1>2, <1>9 DEF Index
    <2> HIDE DEF s
    <2> QED BY <1>3, <1>4, <2>1, <2>2, CarriesAgree
  <1>11. AddLimbs(a, b) = LimbsKept(f, s)
    <2>1. \A i \in Index : a[i] + b[i] + c[i - 1] = s[i] + f[i - 1]
      BY <1>1, <1>2, <1>10 DEF Index
    <2> QED BY <1>8, <2>1 DEF LimbsKept
  <1>12. PartOf(s, NLimbs) = PartOf(a, NLimbs) + PartOf(b, NLimbs)
    <2>1. HasInts(a) /\ HasInts(b) /\ HasInts(s) /\ \A i \in Index : s[i] = a[i] + b[i]
      BY <1>1, <1>2 DEF HasInts, Digit
    <2> HIDE DEF s
    <2> QED BY <2>1, PartAdds
  <1> HIDE DEF s
  <1>13. f[NLimbs] \in Digit
    BY <1>1, <1>4 DEF Carries
  <1> QED BY <1>3, <1>4, <1>11, <1>12, <1>13, NothingLost

\* SubLimbs subtracts, but for a borrow from beyond the last limb.
LEMMA SubLimbsAre ==
  ASSUME LimbsAssumption, NEW a, HasDigits(a), NEW b, HasDigits(b)
  PROVE  /\ SubLimbs(a, b).limbs \in [Index -> Digit] /\ SubLimbs(a, b).borrow \in {0, 1}
         /\ PartOf(SubLimbs(a, b).limbs, NLimbs) + PartOf(b, NLimbs)
              = PartOf(a, NLimbs) + SubLimbs(a, b).borrow * Capacity
  <1> DEFINE Borrows == {0, 1}
             zero == 0
             Borrow(n, k) == IF a[n] - b[n] - k < 0 THEN 1 ELSE 0
             G == [x \in (1..NLimbs) \X Borrows |-> Borrow(x[1], x[2])]
             Step(h) == [n \in 0..NLimbs |-> IF n > 0 /\ a[n] - b[n] - h[n - 1] < 0 THEN 1 ELSE 0]
             c == CHOOSE h : h = Step(h)
  <1>1. NLimbs \in Nat /\ Word \in Nat /\ Word > 1 /\ zero \in Borrows
    BY DEF LimbsAssumption
  <1>2. \A i \in Index : a[i] \in Digit /\ b[i] \in Digit /\ a[i] \in Int /\ b[i] \in Int
    BY <1>1 DEF HasDigits, Digit
  <1>3. G \in [(1..NLimbs) \X Borrows -> Borrows] /\ \A n \in 1..NLimbs, k \in Borrows : G[<<n, k>>] = Borrow(n, k)
    OBVIOUS
  <1> HIDE DEF G
  <1>4. PICK f \in [0..NLimbs -> Borrows] : Follows(f, NLimbs, zero, G)
    <2> HIDE DEF zero, Borrows
    <2> QED BY <1>1, <1>3, Recursion, Zenon
  <1>5. f[0] = 0 /\ \A n \in 1..NLimbs : f[n] = Borrow(n, f[n - 1]) /\ f[n - 1] \in Borrows /\ f[n] \in Borrows
    <2>1. f[0] = 0
      BY <1>4 DEF Follows
    <2>2. ASSUME NEW n \in 1..NLimbs
          PROVE  f[n] = Borrow(n, f[n - 1]) /\ f[n - 1] \in Borrows /\ f[n] \in Borrows
      <3>1. n - 1 \in 0..NLimbs /\ n \in 0..NLimbs
        BY <1>1
      <3>2. f[n - 1] \in Borrows /\ f[n] \in Borrows
        BY <1>4, <3>1
      <3>3. f[n] = G[<<n, f[n - 1]>>]
        BY <1>4 DEF Follows
      <3> HIDE DEF Borrow, Borrows
      <3> QED BY <1>3, <3>2, <3>3
    <2> HIDE DEF Borrow, Borrows
    <2> QED BY <2>1, <2>2
  <1>6. f = Step(f)
    <2>1. \A n \in 0..NLimbs : f[n] = IF n > 0 /\ a[n] - b[n] - f[n - 1] < 0 THEN 1 ELSE 0
      <3> SUFFICES ASSUME NEW n \in 0..NLimbs
                   PROVE  f[n] = IF n > 0 /\ a[n] - b[n] - f[n - 1] < 0 THEN 1 ELSE 0
        OBVIOUS
      <3>1. n = 0 \/ (n \in 1..NLimbs /\ n > 0)
        BY <1>1
      <3> QED BY <1>5, <3>1
    <2> QED BY <1>4, <2>1
  <1>7. c = Step(c)
    <2> HIDE DEF Step
    <2> QED BY <1>6
  <1>8. SubLimbs(a, b) = [limbs |-> [i \in Index |-> Low(a[i] - b[i] - c[i - 1])], borrow |-> c[NLimbs]]
    BY DEF SubLimbs
  <1> HIDE DEF c
  <1>9. \A n \in 0..NLimbs : c[n] = IF n > 0 /\ a[n] - b[n] - c[n - 1] < 0 THEN 1 ELSE 0
    BY <1>7
  <1> HIDE DEF Step
  <1>10. \A n \in 0..NLimbs : c[n] = f[n]
    <2>1. c[0] = f[0]
      BY <1>1, <1>5, <1>9
    <2>2. ASSUME NEW n \in 1..NLimbs, c[n - 1] = f[n - 1] PROVE c[n] = f[n]
      <3>1. n \in 0..NLimbs /\ n > 0
        BY <1>1
      <3> QED BY <1>5, <1>9, <2>2, <3>1
    <2>3. GoesOnAs(c, f, NLimbs)
      BY <2>1, <2>2 DEF GoesOnAs
    <2> QED BY <1>1, <2>3, Agree
  <1> DEFINE o == [i \in Index |-> Low(a[i] - b[i] - f[i - 1])]
             s == [i \in Index |-> a[i] - b[i]]
             g == [n \in 0..NLimbs |-> -f[n]]
  <1>11. SubLimbs(a, b).limbs = o /\ SubLimbs(a, b).borrow = f[NLimbs]
    <2>1. \A i \in Index : c[i - 1] = f[i - 1]
      BY <1>1, <1>10 DEF Index
    <2>2. [i \in Index |-> Low(a[i] - b[i] - c[i - 1])] = o
      BY <2>1
    <2>3. c[NLimbs] = f[NLimbs]
      BY <1>1, <1>10
    <2> HIDE DEF o
    <2> QED BY <1>8, <2>2, <2>3
  <1>12. ASSUME NEW i \in Index
         PROVE  o[i] \in Digit /\ a[i] - b[i] - f[i - 1] = o[i] - f[i] * Word
    <2> DEFINE x == a[i] - b[i] - f[i - 1]
    <2>1. i \in 1..NLimbs
      BY DEF Index
    <2>2. f[i - 1] \in Borrows /\ f[i] = IF x < 0 THEN 1 ELSE 0
      BY <1>5, <2>1
    <2>3. x \in (-Word)..(Word - 1)
      BY <1>1, <1>2, <2>2 DEF Digit
    <2>4. o[i] = x % Word
      BY DEF Low
    <2> HIDE DEF x, o
    <2>5. CASE x < 0
      <3>1. (x + Word) \in 0..(Word - 1) /\ Word \in Nat \ {0}
        BY <1>1, <2>3, <2>5
      <3> DEFINE y == x + Word
      <3>2. y \in 0..(Word - 1) /\ -1 \in Int /\ x = y + Word * (-1)
        BY <1>1, <2>3, <3>1
      <3> HIDE DEF y
      <3>3. x % Word = y
        BY <3>1, <3>2, DivisionIs
      <3>4. y = x + Word
        BY DEF y
      <3> QED BY <1>1, <2>2, <2>3, <2>4, <2>5, <3>2, <3>3, <3>4 DEF Digit, x
    <2>6. CASE x >= 0
      <3>1. x % Word = x
        BY <1>1, <2>3, <2>6
      <3> QED BY <1>1, <2>2, <2>3, <2>4, <2>6, <3>1 DEF Digit, x
    <2> QED BY <2>3, <2>5, <2>6
  <1>13. o \in [Index -> Digit] /\ HasInts(o)
    <2>1. o = [i \in Index |-> o[i]]
      OBVIOUS
    <2> HIDE DEF o
    <2> QED BY <1>1, <1>12, <2>1 DEF Digit, HasInts
  <1>14. PartOf(o, NLimbs) + g[NLimbs] * Capacity = PartOf(s, NLimbs)
    <2>1. g \in [0..NLimbs -> Int] /\ g[0] = 0
      BY <1>1, <1>4, <1>5
    <2>2. HasInts(s)
      BY <1>2 DEF HasInts
    <2>3. ASSUME NEW i \in Index PROVE s[i] + g[i - 1] = o[i] + g[i] * Word
      <3>1. i \in 1..NLimbs /\ i \in 0..NLimbs /\ i - 1 \in 0..NLimbs
        BY <1>1 DEF Index
      <3>2. f[i - 1] \in Borrows /\ f[i] \in Borrows /\ g[i] = -f[i] /\ g[i - 1] = -f[i - 1]
        BY <1>5, <3>1
      <3>3. s[i] = a[i] - b[i] /\ o[i] \in Digit
        BY <1>12
      <3>4. f[i] * Word \in Int /\ g[i] * Word = -(f[i] * Word)
        BY <1>1, <3>2
      <3> HIDE DEF o, s, g
      <3> QED BY <1>1, <1>2, <1>12, <3>2, <3>3, <3>4 DEF Digit
    <2> HIDE DEF o, s, g
    <2> QED BY <1>13, <2>1, <2>2, <2>3, Accounted
  <1>15. PartOf(a, NLimbs) = PartOf(s, NLimbs) + PartOf(b, NLimbs)
    <2>1. HasInts(a) /\ HasInts(b) /\ HasInts(s) /\ \A i \in Index : a[i] = s[i] + b[i]
      BY <1>2 DEF HasInts
    <2> HIDE DEF s
    <2> QED BY <2>1, PartAdds
  <1>16. /\ PartOf(s, NLimbs) \in Int /\ PartOf(o, NLimbs) \in Int /\ PartOf(b, NLimbs) \in Int
         /\ f[NLimbs] \in Borrows /\ g[NLimbs] = -f[NLimbs] /\ Capacity \in Int
    <2>1. HasInts(s) /\ HasInts(b)
      BY <1>2 DEF HasInts
    <2>2. f[NLimbs] \in Borrows /\ g[NLimbs] = -f[NLimbs]
      BY <1>1, <1>4
    <2>3. Capacity \in Nat \ {0}
      BY <1>1, WeightsAre DEF Capacity
    <2> HIDE DEF s, o
    <2> QED BY <1>1, <1>13, <2>1, <2>2, <2>3, PartIs
  <1> HIDE DEF s, o, g
  <1>17. PartOf(o, NLimbs) + PartOf(b, NLimbs) = PartOf(a, NLimbs) + f[NLimbs] * Capacity
    <2>1. CASE f[NLimbs] = 0
      BY <1>14, <1>15, <1>16, <2>1
    <2>2. CASE f[NLimbs] = 1
      BY <1>14, <1>15, <1>16, <2>2
    <2> QED BY <1>16, <2>1, <2>2
  <1> QED BY <1>11, <1>13, <1>16, <1>17

-----------------------------------------------------------------------------
(* The product *)

\* A row of the product: the limbs, one above them, and one for a carry.
Row == [1..(NLimbs + 2) -> Digit]
Above(t) == t[NLimbs + 1]
Over(t) == t[NLimbs + 2]
RowValue(t) == PartOf(t, NLimbs) + Above(t) * Capacity

\* Two limbs put above others.
Under(u, x, y) == u \o <<x, y>>
LEMMA Topped ==
  ASSUME LimbsAssumption, NEW u \in [Index -> Digit], NEW x \in Digit, NEW y \in Digit
  PROVE  /\ Under(u, x, y) \in Row /\ \A i \in Index : Under(u, x, y)[i] = u[i]
         /\ Above(Under(u, x, y)) = x /\ Over(Under(u, x, y)) = y
  <1> DEFINE r == u \o <<x, y>>
  <1>1. NLimbs \in Nat
    BY DEF LimbsAssumption
  <1> HIDE DEF Digit
  <1>2. u \in Seq(Digit) /\ Len(u) = NLimbs
    BY <1>1 DEF Index
  <1>3. <<x, y>> \in Seq(Digit) /\ Len(<<x, y>>) = 2 /\ <<x, y>>[1] = x /\ <<x, y>>[2] = y
    OBVIOUS
  <1>4. r \in Seq(Digit) /\ Len(r) = NLimbs + 2
    BY <1>1, <1>2, <1>3
  <1>5. \A i \in Index : r[i] = u[i]
    BY <1>1, <1>2, <1>3 DEF Index
  <1>6. r[NLimbs + 1] = x /\ r[NLimbs + 2] = y
    BY <1>1, <1>2, <1>3
  <1>7. r \in Row
    <2>1. r \in [1..Len(r) -> Digit]
      BY <1>4, LenProperties, Zenon
    <2> QED BY <1>4, <2>1 DEF Row
  <1> QED BY <1>5, <1>6, <1>7 DEF Under, Above, Over

\* The value depends on the limbs alone.
LEMMA PartSame ==
  ASSUME LimbsAssumption, NEW a, HasInts(a), NEW b, \A i \in Index : b[i] = a[i]
  PROVE  PartOf(b, NLimbs) = PartOf(a, NLimbs)
  <1>1. [i \in Index |-> b[i] * LimbWeight[i - 1]] = [i \in Index |-> a[i] * LimbWeight[i - 1]]
    OBVIOUS
  <1> QED BY <1>1 DEF PartOf

\* A limb times a limb, and two carries, fit in two words.
LEMMA WideEnough ==
  ASSUME LimbsAssumption, NEW x \in Digit, NEW y \in Digit, NEW z \in Digit
  PROVE  x * y + z \in 0..(Word * Word - Word) /\ x * y \in 0..(Word * Word - Word)
  <1>1. Word \in Nat /\ Word > 1 /\ x \in Nat /\ y \in Nat /\ z \in Nat /\ x < Word /\ y < Word /\ z < Word
    BY DEF LimbsAssumption, Digit
  <1>2. PICK c \in Nat, d \in Nat : Word = x + 1 + c /\ Word = y + 1 + d
    <2>1. Word - x - 1 \in Nat /\ Word - y - 1 \in Nat
      BY <1>1
    <2>2. Word = x + 1 + (Word - x - 1) /\ Word = y + 1 + (Word - y - 1)
      BY <1>1
    <2> QED BY <2>1, <2>2
  <1> DEFINE k == x * y
             e == x * d
             h == c * Word
             ww == Word * Word
  <1>3. ww = k + e + x + Word + h
    <2>1. ww = x * Word + Word + h
      BY <1>1, <1>2
    <2>2. x * Word = k + x + e
      BY <1>1, <1>2
    <2> QED BY <1>1, <2>1, <2>2
  <1>4. e \in Nat /\ h \in Nat /\ k \in Nat
    BY <1>1, <1>2
  <1>5. e + h + x >= Word - 1
    <2>1. CASE c = 0
      BY <1>1, <1>2, <1>4, <2>1
    <2>2. CASE c > 0
      <3>1. h >= Word
        <4>1. PICK j \in Nat : c = j + 1
          <5>1. c - 1 \in Nat /\ c = (c - 1) + 1
            BY <1>2, <2>2
          <5> QED BY <5>1
        <4>2. h = j * Word + Word /\ j * Word \in Nat
          BY <1>1, <4>1
        <4> DEFINE jw == j * Word
        <4>3. h = jw + Word /\ jw \in Nat
          BY <4>2
        <4> HIDE DEF h, jw
        <4> QED BY <1>1, <4>3
      <3> HIDE DEF e, h
      <3> QED BY <1>1, <1>4, <3>1
    <2> QED BY <1>2, <2>1, <2>2
  <1> HIDE DEF k, e, h, ww
  <1>6. k + z \in 0..(ww - Word) /\ k \in 0..(ww - Word)
    BY <1>1, <1>3, <1>4, <1>5
  <1> QED BY <1>6 DEF k, ww

\* PlusTimes adds a multiple: nothing is lost of it.
LEMMA PlusTimesIs ==
  ASSUME LimbsAssumption, NEW t \in Row, NEW a, HasDigits(a), NEW y \in Digit
  PROVE  /\ PlusTimes(t, a, y) \in Row
         /\ PlusTimes(t, a, y)[1] = Low(a[1] * y + t[1])
         /\ RowValue(PlusTimes(t, a, y)) + Over(PlusTimes(t, a, y)) * (Word * Capacity)
              = PartOf(a, NLimbs) * y + RowValue(t)
  <1> DEFINE s == [i \in Index |-> a[i] * y + t[i]]
             Step(h) == [n \in 0..NLimbs |-> IF n = 0 THEN 0 ELSE High(a[n] * y + t[n] + h[n - 1])]
             c == CHOOSE h : h = Step(h)
             q == t[NLimbs + 1] + c[NLimbs]
             r == PlusTimes(t, a, y)
  <1>1. NLimbs \in Nat \ {0} /\ Word \in Nat /\ Word > 1 /\ y \in Nat /\ y \in Int
    BY DEF LimbsAssumption, Digit
  <1>2. \A i \in Index : a[i] \in Digit /\ t[i] \in Digit /\ s[i] = a[i] * y + t[i]
    BY <1>1 DEF HasDigits, Row, Index
  <1>3. s \in Sums
    <2>1. \A i \in Index : a[i] * y + t[i] \in 0..(Word * Word - Word)
      BY <1>2, WideEnough
    <2> QED BY <2>1 DEF Sums
  <1>4. PICK f : Carries(f, s)
    <2> HIDE DEF s
    <2> QED BY <1>3, CarriesExist
  <1>5. \A n \in 1..NLimbs : f[n] = High(a[n] * y + t[n] + f[n - 1])
    BY <1>2, <1>4 DEF Carries, Index
  <1>6. f = Step(f)
    <2>1. \A n \in 0..NLimbs : f[n] = IF n = 0 THEN 0 ELSE High(a[n] * y + t[n] + f[n - 1])
      <3> SUFFICES ASSUME NEW n \in 0..NLimbs
                   PROVE  f[n] = IF n = 0 THEN 0 ELSE High(a[n] * y + t[n] + f[n - 1])
        OBVIOUS
      <3>1. n = 0 \/ n \in 1..NLimbs
        BY <1>1
      <3>2. f[0] = 0
        BY <1>4 DEF Carries
      <3> QED BY <1>5, <3>1, <3>2
    <2>2. f \in [0..NLimbs -> Digit]
      BY <1>4 DEF Carries
    <2> QED BY <2>1, <2>2
  <1>7. c = Step(c)
    <2> HIDE DEF Step
    <2> QED BY <1>6
  <1>8. r = [j \in Index |-> Low(a[j] * y + t[j] + c[j - 1])] \o <<Low(q), High(q)>>
    BY DEF PlusTimes
  <1> HIDE DEF c
  <1>9. \A n \in 0..NLimbs : c[n] = IF n = 0 THEN 0 ELSE High(a[n] * y + t[n] + c[n - 1])
    BY <1>7
  <1> HIDE DEF Step
  <1>10. \A n \in 0..NLimbs : c[n] = f[n]
    <2>1. c[0] = 0
      BY <1>1, <1>9
    <2>2. \A n \in 1..NLimbs : c[n] = High(s[n] + c[n - 1])
      BY <1>2, <1>9 DEF Index
    <2> HIDE DEF s
    <2> QED BY <1>3, <1>4, <2>1, <2>2, CarriesAgree
  <1> DEFINE o == LimbsKept(f, s)
  <1>11. r = o \o <<Low(q), High(q)>>
    <2>1. \A i \in Index : a[i] * y + t[i] + c[i - 1] = s[i] + f[i - 1]
      BY <1>1, <1>2, <1>10 DEF Index
    <2>2. [j \in Index |-> Low(a[j] * y + t[j] + c[j - 1])] = o
      BY <2>1 DEF LimbsKept
    <2> HIDE DEF o, q, r
    <2> QED BY <1>8, <2>2
  <1>12. f[NLimbs] \in Digit /\ q = Above(t) + f[NLimbs] /\ Above(t) \in Digit
    BY <1>1, <1>4, <1>10 DEF Carries, Row, Above
  <1>13. q \in 0..(Word * Word - 1)
    <2>1. Above(t) \in 0..(Word * Word - Word)
      <3>1. 1 \in Digit
        BY <1>1 DEF Digit
      <3>2. Above(t) * 1 \in 0..(Word * Word - Word)
        BY <1>12, <3>1, WideEnough
      <3>3. Above(t) * 1 = Above(t)
        BY <1>1, <1>12 DEF Digit
      <3> QED BY <3>2, <3>3
    <2> HIDE DEF q
    <2> QED BY <1>12, <2>1, Fits
  <1>14. Low(q) \in Digit /\ High(q) \in Digit /\ q = Low(q) + High(q) * Word
    <2> HIDE DEF q
    <2> QED BY <1>13, Words
  <1>15. o \in [Index -> Digit] /\ PartOf(o, NLimbs) + f[NLimbs] * Capacity = PartOf(s, NLimbs)
    <2> HIDE DEF s, o
    <2> QED BY <1>3, <1>4, NothingLost DEF o
  <1>16. PartOf(s, NLimbs) = PartOf(a, NLimbs) * y + PartOf(t, NLimbs)
    <2>1. HasInts(a) /\ HasInts(t) /\ \A i \in Index : s[i] = a[i] * y + t[i]
      BY <1>1, <1>2 DEF HasInts, Digit
    <2>2. HasInts(s)
      BY <1>1, <2>1 DEF HasInts
    <2>3. \A i \in Index : s[i] = a[i] * y + t[i]
      BY <2>1
    <2> HIDE DEF s, r, q, o
    <2>4. y \in Int /\ HasInts(a) /\ HasInts(t)
      BY <1>1, <2>1
    <2> QED BY <2>2, <2>3, <2>4, PartLinear
  <1> DEFINE lo == Low(q)
             hi == High(q)
  <1>17. /\ r \in Row /\ (\A i \in Index : r[i] = o[i])
         /\ Above(r) = lo /\ Over(r) = hi /\ lo \in Digit /\ hi \in Digit
         /\ Above(t) + f[NLimbs] = lo + hi * Word
    <2>1. lo \in Digit /\ hi \in Digit /\ r = Under(o, lo, hi)
      BY <1>11, <1>14 DEF Under
    <2>2. Above(t) + f[NLimbs] = lo + hi * Word
      <3> HIDE DEF q
      <3> QED BY <1>12, <1>14
    <2>3. o \in [Index -> Digit]
      BY <1>15
    <2> HIDE DEF o, q, r, lo, hi
    <2>4. r \in Row /\ (\A i \in Index : r[i] = o[i]) /\ Above(r) = lo /\ Over(r) = hi
      BY <2>1, <2>3, Topped, Zenon
    <2> QED BY <2>1, <2>2, <2>4
  <1>18. r[1] = Low(a[1] * y + t[1])
    <2>1. 1 \in Index /\ f[0] = 0
      BY <1>1, <1>4 DEF Index, Carries
    <2>2. o[1] = Low(s[1] + f[0])
      BY <2>1 DEF LimbsKept
    <2>3. s[1] + f[0] = a[1] * y + t[1]
      BY <1>1, <1>2, <2>1 DEF Digit
    <2> HIDE DEF o, s, r
    <2> QED BY <1>17, <2>1, <2>2, <2>3
  <1>19. PartOf(r, NLimbs) = PartOf(o, NLimbs) /\ PartOf(r, NLimbs) \in Int
    <2>1. HasInts(o) /\ HasInts(r)
      BY <1>1, <1>15, <1>17 DEF HasInts, Digit
    <2> HIDE DEF o, r
    <2> QED BY <1>1, <1>17, <2>1, PartSame, PartIs
  <1> HIDE DEF s, o, q, lo, hi, r
  <1>20. PartOf(r, NLimbs) + f[NLimbs] * Capacity = PartOf(a, NLimbs) * y + PartOf(t, NLimbs)
    BY <1>15, <1>16, <1>19
  <1>21. Capacity \in Int /\ PartOf(t, NLimbs) \in Int /\ PartOf(a, NLimbs) * y \in Int
    <2>1. Capacity \in Nat \ {0}
      BY <1>1, WeightsAre DEF Capacity
    <2>2. HasInts(a) /\ HasInts(t)
      BY <1>1, <1>2 DEF HasInts, Digit
    <2>3. PartOf(t, NLimbs) \in Int /\ PartOf(a, NLimbs) \in Int
      BY <1>1, <2>2, PartIs
    <2> QED BY <1>1, <2>1, <2>3, Products
  <1>22. RowValue(r) + Over(r) * (Word * Capacity) = PartOf(a, NLimbs) * y + RowValue(t)
    <2> DEFINE C == Capacity
               u == Above(t)
               g == f[NLimbs]
    <2>1. lo \in Int /\ hi \in Int /\ u \in Int /\ g \in Int /\ C \in Int /\ Word \in Int
      BY <1>1, <1>12, <1>17, <1>21 DEF Digit
    <2>2. u + g = lo + hi * Word
      BY <1>17
    <2> HIDE DEF C, u, g
    <2>3. u * C + g * C = lo * C + hi * (Word * C)
      <3>1. (u + g) * C = (lo + hi * Word) * C
        BY <2>2
      <3>2. (u + g) * C = u * C + g * C
        BY <2>1
      <3>3. (lo + hi * Word) * C = lo * C + hi * (Word * C)
        BY <2>1
      <3> QED BY <3>1, <3>2, <3>3
    <2>4. u * C \in Int /\ g * C \in Int /\ lo * C \in Int /\ hi * (Word * C) \in Int
      BY <2>1
    <2> DEFINE x == u * C
               z == g * C
               v == lo * C
               w == hi * (Word * C)
    <2>5. x \in Int /\ z \in Int /\ v \in Int /\ w \in Int /\ x + z = v + w
      BY <2>3, <2>4
    <2>6. PartOf(r, NLimbs) + z = PartOf(a, NLimbs) * y + PartOf(t, NLimbs)
      BY <1>20 DEF C, g
    <2>7. RowValue(r) = PartOf(r, NLimbs) + v /\ RowValue(t) = PartOf(t, NLimbs) + x
          /\ Over(r) * (Word * Capacity) = w
      BY <1>17 DEF RowValue, C, u
    <2> HIDE DEF x, z, v, w
    <2> DEFINE p == PartOf(a, NLimbs) * y
               pr == PartOf(r, NLimbs)
               pt == PartOf(t, NLimbs)
    <2>8. p \in Int /\ pr \in Int /\ pt \in Int /\ pr + z = p + pt
      BY <1>19, <1>21, <2>6
    <2> HIDE DEF p, pr, pt
    <2>9. (pr + v) + w = p + (pt + x)
      BY <2>5, <2>8
    <2> QED BY <2>7, <2>9 DEF p, pr, pt
  <1> QED BY <1>17, <1>18, <1>22 DEF r

\* Integers that differ by a multiple leave the same remainder.
LEMMA SameRest ==
  ASSUME NEW m \in Nat \ {0}, NEW a \in Int, NEW b \in Int, NEW k \in Int, a = b + m * k
  PROVE  a % m = b % m
  <1> DEFINE r == b % m
             q == b \div m
  <1>1. r \in 0..(m - 1) /\ q \in Int /\ b = r + m * q
    OBVIOUS
  <1> HIDE DEF r, q
  <1>2. q + k \in Int /\ m * (q + k) = m * q + m * k
    BY <1>1
  <1>3. m * q \in Int /\ m * k \in Int
    BY <1>1
  <1>4. a = r + m * (q + k)
    <2> DEFINE x == m * q
               y == m * k
    <2>1. x \in Int /\ y \in Int /\ b = r + x /\ a = b + y /\ m * (q + k) = x + y
      BY <1>1, <1>2, <1>3
    <2> HIDE DEF x, y
    <2> QED BY <1>1, <2>1
  <1>5. a % m = r
    BY <1>1, <1>2, <1>4, DivisionIs
  <1> QED BY <1>5 DEF r

\* The low limb of the modulus, and the multiple that clears a low limb.
LEMMA LowClears ==
  ASSUME LimbsAssumption, NEW x \in Digit
  PROVE  /\ Low(x * N0) \in Digit
         /\ Low(ModulusLimbs[1] * Low(x * N0) + x) = 0
  <1> DEFINE p == ModulusLimbs[1]
             k == x * N0
             m == Low(k)
             q == k \div Word
             j == Modulus \div Word
             e == (N0 * Modulus + 1) \div Word
  <1>1. /\ Word \in Nat \ {0} /\ Modulus \in Nat /\ N0 \in Nat /\ x \in Nat /\ NLimbs \in Nat \ {0}
        /\ (N0 * Modulus + 1) % Word = 0
    BY DEF LimbsAssumption, Digit
  <1>2. k \in Nat /\ N0 * Modulus + 1 \in Nat
    BY <1>1
  <1>3. m \in 0..(Word - 1) /\ q \in Nat /\ k = m + Word * q
    <2> HIDE DEF k
    <2> QED BY <1>1, <1>2, Division DEF Low
  <1>4. p \in Nat /\ j \in Nat /\ Modulus = p + Word * j
    <2>1. p = (Modulus \div 1) % Word
      BY <1>1, WeightsAre DEF ModulusLimbs, ToLimbs, Index
    <2>2. p = Modulus % Word
      <3>1. Modulus \div 1 = Modulus
        BY <1>1
      <3> QED BY <2>1, <3>1
    <2>3. Modulus % Word \in 0..(Word - 1) /\ j \in Nat /\ Modulus = (Modulus % Word) + Word * j
      BY <1>1, Division
    <2> HIDE DEF p, j
    <2> QED BY <2>2, <2>3
  <1>5. e \in Nat /\ N0 * Modulus + 1 = Word * e
    <2> DEFINE z == N0 * Modulus + 1
    <2>1. z \in Nat /\ z % Word = 0
      BY <1>1, <1>2
    <2> HIDE DEF z
    <2>2. z \div Word \in Nat /\ z = (z % Word) + Word * (z \div Word)
      BY <1>1, <2>1, Division
    <2>3. z = Word * (z \div Word)
      <3> DEFINE w == Word * (z \div Word)
      <3>1. w \in Nat
        BY <1>1, <2>2
      <3> HIDE DEF w
      <3> QED BY <2>1, <2>2, <3>1 DEF w
    <2> QED BY <2>2, <2>3 DEF z
  <1> HIDE DEF m, q, j, e, p
  <1> DEFINE c == x * e - Modulus * q - j * m
  <1>6. c \in Int /\ p * m + x \in Int
    BY <1>1, <1>3, <1>4, <1>5
  <1>7. p * m + x = 0 + Word * c
    <2>1. m = x * N0 - Word * q /\ p = Modulus - Word * j
      <3> DEFINE a == Word * q
                 b == Word * j
      <3>1. a \in Int /\ b \in Int /\ k = m + a /\ Modulus = p + b
        BY <1>1, <1>3, <1>4, <1>5
      <3> HIDE DEF a, b, k
      <3>2. m = k - a /\ p = Modulus - b
        BY <1>1, <1>2, <1>3, <1>4, <3>1
      <3> QED BY <3>2 DEF a, b, k
    <2>2. p * m = Modulus * m - (Word * j) * m
      <3>1. (Modulus - Word * j) * m = Modulus * m - (Word * j) * m
        BY <1>1, <1>3, <1>4
      <3> QED BY <2>1, <3>1
    <2>3. Modulus * m = Modulus * (x * N0) - Modulus * (Word * q)
      <3>1. Modulus * (x * N0 - Word * q) = Modulus * (x * N0) - Modulus * (Word * q)
        BY <1>1, <1>3
      <3> QED BY <2>1, <3>1
    <2>4. Modulus * (x * N0) + x = Word * (x * e)
      <3>1. Modulus * (x * N0) + x = x * (N0 * Modulus + 1)
        BY <1>1
      <3>2. x * (Word * e) = Word * (x * e)
        BY <1>1, <1>5
      <3> QED BY <1>5, <3>1, <3>2
    <2>5. Word * c = Word * (x * e) - Modulus * (Word * q) - (Word * j) * m
      BY <1>1, <1>3, <1>4, <1>5
    <2> DEFINE a == Modulus * (x * N0)
               b == Modulus * (Word * q)
               d == (Word * j) * m
               f == Word * (x * e)
               g == p * m
               h == Modulus * m
    <2>6. a \in Int /\ b \in Int /\ d \in Int /\ f \in Int /\ g \in Int /\ h \in Int
      BY <1>1, <1>3, <1>4, <1>5
    <2>7. g = h - d /\ h = a - b /\ a + x = f /\ Word * c = f - b - d
      BY <2>2, <2>3, <2>4, <2>5
    <2> HIDE DEF a, b, d, f, h, c
    <2>8. g + x = Word * c
      <3> HIDE DEF g
      <3> QED BY <1>1, <2>6, <2>7
    <2>9. Word * c \in Int
      BY <1>1, <1>6
    <2> QED BY <2>8, <2>9
  <1> HIDE DEF c
  <1>8. (p * m + x) % Word = 0
    <2>1. 0 \in 0..(Word - 1)
      BY <1>1
    <2> QED BY <1>1, <1>6, <1>7, <2>1, DivisionIs
  <1> QED BY <1>3, <1>8 DEF Low, m, p, Digit

\* The limbs but the lowest, with the one above, count for a Word'th.
LEMMA ShiftIs ==
  ASSUME LimbsAssumption, NEW r \in Row, NEW d \in [Index -> Digit], \A i \in Index : d[i] = r[i + 1]
  PROVE  Word * PartOf(d, NLimbs) + r[1] = RowValue(r)
  <1> DEFINE T == {n \in Nat : n <= NLimbs =>
                     Word * PartOf(d, n) + r[1] = PartOf(r, n) + r[n + 1] * LimbWeight[n]}
  <1>1. NLimbs \in Nat \ {0} /\ Word \in Nat
    BY DEF LimbsAssumption
  <1>2. HasInts(d) /\ HasInts(r) /\ \A n \in 1..(NLimbs + 2) : r[n] \in Int
    BY <1>1 DEF HasInts, Row, Digit, Index
  <1>3. 0 \in T
    <2>1. LimbWeight[0] = 1 /\ r[1] \in Int /\ PartOf(d, 0) = 0 /\ PartOf(r, 0) = 0
      BY <1>1, <1>2, WeightsAre, PartIs
    <2> QED BY <1>1, <2>1
  <1>4. ASSUME NEW n \in Nat, n \in T PROVE n + 1 \in T
    <2> SUFFICES ASSUME n + 1 <= NLimbs
                 PROVE  Word * PartOf(d, n + 1) + r[1] = PartOf(r, n + 1) + r[(n + 1) + 1] * LimbWeight[n + 1]
      OBVIOUS
    <2> DEFINE m == n + 1
               w == LimbWeight[n]
               x == r[m]
               y == r[m + 1]
               p == PartOf(d, n)
               q == PartOf(r, n)
    <2>1. m \in 1..NLimbs /\ m - 1 = n /\ n \in 0..NLimbs /\ m \in Index
          /\ m \in 1..(NLimbs + 2) /\ m + 1 \in 1..(NLimbs + 2) /\ 1 \in 1..(NLimbs + 2)
      BY <1>1 DEF Index
    <2>2. w \in Nat \ {0} /\ LimbWeight[m] = Word * w
      BY <2>1, WeightsAre
    <2>3. PartOf(d, m) = p + d[m] * w /\ PartOf(r, m) = q + x * w /\ p \in Int /\ q \in Int
      BY <1>2, <2>1, PartIs
    <2>4. Word * p + r[1] = q + x * w
      BY <1>4, <2>1
    <2>5. d[m] = y /\ x \in Int /\ y \in Int /\ r[1] \in Int
      BY <1>2, <2>1
    <2> HIDE DEF w, x, y, p, q
    <2>6. Word * (p + y * w) = Word * p + y * (Word * w)
      BY <1>1, <2>2, <2>3, <2>5
    <2> DEFINE a == Word * p
               b == x * w
               c == y * (Word * w)
    <2>7. a \in Int /\ b \in Int /\ c \in Int /\ a + r[1] = q + b /\ Word * (p + y * w) = a + c
      BY <1>1, <2>2, <2>3, <2>4, <2>5, <2>6
    <2> HIDE DEF a, b, c
    <2>8. (a + c) + r[1] = (q + b) + c
      BY <2>3, <2>5, <2>7
    <2>9. Word * PartOf(d, m) + r[1] = PartOf(r, m) + y * LimbWeight[m]
      BY <2>2, <2>3, <2>5, <2>7, <2>8 DEF b, c
    <2> QED BY <2>9 DEF m, y
  <1>5. Nat \subseteq T
    <2> HIDE DEF T
    <2> QED BY <1>3, <1>4, Induction
  <1>6. NLimbs \in T
    BY <1>1, <1>5
  <1> QED BY <1>1, <1>6 DEF RowValue, Above, Capacity

\* The limbs below the one above, but the lowest, are those of a row.
LEMMA DroppedIs ==
  ASSUME LimbsAssumption, NEW r \in Row, NEW top \in Digit, top + Over(r) \in Nat
  PROVE  \E d \in [Index -> Digit] :
            (\A i \in Index : d[i] = r[i + 1]) /\ Dropped(r, top) = Under(d, Low(top + Over(r)), 0)
  <1> DEFINE c == SubSeq(r, 1, NLimbs + 1)
             d == Tail(c)
  <1>1. NLimbs \in Nat \ {0}
    BY DEF LimbsAssumption
  <1> HIDE DEF Digit
  <1>2. r \in Seq(Digit) /\ Len(r) = NLimbs + 2
    BY <1>1 DEF Row
  <1>3. c \in Seq(Digit) /\ Len(c) = NLimbs + 1 /\ \A i \in 1..(NLimbs + 1) : c[i] = r[i]
    BY <1>1, <1>2
  <1> HIDE DEF c
  <1>4. d \in Seq(Digit) /\ Len(d) = NLimbs /\ \A i \in 1..NLimbs : d[i] = c[i + 1]
    BY <1>1, <1>3
  <1>5. d \in [Index -> Digit]
    <2>1. d \in [1..Len(d) -> Digit]
      BY <1>4, LenProperties, Zenon
    <2> HIDE DEF d
    <2> QED BY <1>4, <2>1 DEF Index
  <1>6. \A i \in Index : d[i] = r[i + 1]
    <2> HIDE DEF d
    <2> QED BY <1>1, <1>3, <1>4 DEF Index
  <1>7. Dropped(r, top) = Under(d, Low(top + Over(r)), 0)
    BY DEF Dropped, Under, Over, c
  <1> HIDE DEF d
  <1> QED BY <1>5, <1>6, <1>7

\* ShiftedDown divides by Word, modulo the modulus, whatever total it is given.
LEMMA ShiftedDownIs ==
  ASSUME LimbsAssumption, NEW u \in Row, NEW B \in Nat, B <= 2 * Capacity,
         RowValue(u) + Over(u) * (Word * Capacity) + Modulus * (Word - 1) < Word * B
  PROVE  /\ ShiftedDown(u) \in Row /\ RowValue(ShiftedDown(u)) \in 0..(B - 1)
         /\ \E m \in Digit : Word * RowValue(ShiftedDown(u))
                               = RowValue(u) + Over(u) * (Word * Capacity) + Modulus * m
  <1> DEFINE m == Low(u[1] * N0)
             r == PlusTimes(u, ModulusLimbs, m)
             top == u[NLimbs + 2]
             x == top + Over(r)
             o == ShiftedDown(u)
             C == Capacity
  <1>1. /\ NLimbs \in Nat \ {0} /\ Word \in Nat /\ Word > 1 /\ Modulus \in Nat /\ Modulus < Capacity
        /\ Capacity \in Nat \ {0} /\ 1 \in Index
    <2>1. Capacity \in Nat \ {0}
      BY WeightsAre DEF Capacity, LimbsAssumption
    <2> QED BY <2>1 DEF LimbsAssumption, Index
  <1>2. u[1] \in Digit /\ top \in Digit /\ top = Over(u)
    BY <1>1 DEF Row, Over
  <1>3. m \in Digit /\ Low(ModulusLimbs[1] * m + u[1]) = 0
    BY <1>2, LowClears
  <1>4. HasDigits(ModulusLimbs) /\ PartOf(ModulusLimbs, NLimbs) = Modulus
    BY <1>1, LimbsHold DEF ModulusLimbs
  <1>5. o = Dropped(r, top)
    BY DEF ShiftedDown
  <1> HIDE DEF m
  <1>6. /\ r \in Row /\ r[1] = 0
        /\ RowValue(r) + Over(r) * (Word * C) = Modulus * m + RowValue(u)
    <2>1. /\ r \in Row /\ r[1] = Low(ModulusLimbs[1] * m + u[1])
          /\ RowValue(r) + Over(r) * (Word * Capacity) = PartOf(ModulusLimbs, NLimbs) * m + RowValue(u)
      BY <1>3, <1>4, PlusTimesIs
    <2> HIDE DEF r
    <2> QED BY <1>3, <1>4, <2>1
  <1> HIDE DEF r, o, top
  <1>7. Over(r) \in Digit
    BY <1>1, <1>6 DEF Row, Over
  <1>8. x \in Nat
    BY <1>1, <1>2, <1>7 DEF Digit
  <1>9. PICK d \in [Index -> Digit] : (\A i \in Index : d[i] = r[i + 1]) /\ o = Under(d, Low(x), 0)
    BY <1>2, <1>5, <1>6, <1>8, DroppedIs
  <1> DEFINE pd == PartOf(d, NLimbs)
  <1>10. Word * pd = RowValue(r) /\ pd \in Nat
    <2>1. Word * PartOf(d, NLimbs) + r[1] = RowValue(r)
      BY <1>6, <1>9, ShiftIs
    <2>2. HasDigits(d)
      BY <1>9 DEF HasDigits
    <2>3. PartOf(d, NLimbs) \in 0..(LimbWeight[NLimbs] - 1)
      BY <1>1, <2>2, PartBelow
    <2>4. PartOf(d, NLimbs) \in Nat
      BY <2>3
    <2>5. Word * PartOf(d, NLimbs) \in Int
      BY <1>1, <2>4
    <2> QED BY <1>6, <2>1, <2>4, <2>5
  <1> HIDE DEF pd
  <1> DEFINE total == RowValue(u) + Over(u) * (Word * C)
             v == pd + x * C
  <1>11. RowValue(u) \in Int /\ Modulus * m \in Nat /\ Over(u) * (Word * C) \in Int
         /\ total \in Int /\ x * C \in Nat /\ v \in Nat /\ Over(r) * (Word * C) \in Int
    <2>1. HasInts(u) /\ Above(u) \in Digit /\ m \in Nat /\ Over(u) \in Nat /\ Over(r) \in Nat
      BY <1>1, <1>2, <1>3, <1>7 DEF HasInts, Row, Digit, Above, Index
    <2>2. PartOf(u, NLimbs) \in Int /\ Above(u) * Capacity \in Int
      BY <1>1, <2>1, PartIs DEF Digit
    <2>3. RowValue(u) \in Int
      BY <2>2 DEF RowValue
    <2>4. Modulus * m \in Nat /\ Over(u) * (Word * C) \in Int /\ x * C \in Nat /\ Over(r) * (Word * C) \in Int
      BY <1>1, <1>8, <2>1
    <2> QED BY <1>10, <2>3, <2>4
  <1>12. Word * v = total + Modulus * m
    <2>1. x * (Word * C) = Over(u) * (Word * C) + Over(r) * (Word * C)
      BY <1>1, <1>2, <1>7 DEF Digit
    <2>2. Word * v = Word * pd + x * (Word * C)
      BY <1>1, <1>8, <1>10
    <2> DEFINE a == Over(u) * (Word * C)
               b == Over(r) * (Word * C)
               e == Modulus * m
    <2>3. RowValue(r) + b = e + RowValue(u) /\ Word * v = RowValue(r) + (a + b) /\ total = RowValue(u) + a
      BY <1>6, <1>10, <2>1, <2>2
    <2>4. a \in Int /\ b \in Int /\ e \in Int /\ RowValue(u) \in Int
      BY <1>11
    <2>5. RowValue(r) \in Int
      BY <1>1, <1>10
    <2> HIDE DEF a, b, e, v, total
    <2>6. Word * v = total + e
      BY <2>3, <2>4, <2>5
    <2> QED BY <2>6 DEF e
  <1>13. v < B
    <2>1. Modulus * m <= Modulus * (Word - 1)
      <3>1. PICK k \in Nat : Word - 1 = m + k
        <4>1. (Word - 1) - m \in Nat /\ Word - 1 = m + ((Word - 1) - m)
          BY <1>1, <1>3 DEF Digit
        <4> QED BY <4>1
      <3>2. m \in Nat
        BY <1>3 DEF Digit
      <3>3. Modulus * (Word - 1) = Modulus * m + Modulus * k /\ Modulus * k \in Nat
        BY <1>1, <3>1, <3>2
      <3> DEFINE a == Modulus * m
                 b == Modulus * k
                 e == Modulus * (Word - 1)
      <3>4. e = a + b /\ b \in Nat /\ a \in Nat
        BY <1>11, <3>3
      <3> HIDE DEF a, b, e
      <3>5. a <= e
        BY <3>4
      <3> QED BY <3>5 DEF a, e
    <2>2. Word * v < Word * B
      <3> DEFINE a == Modulus * m
                 e == Modulus * (Word - 1)
                 f == Word * B
      <3>1. e \in Int /\ f \in Int /\ a \in Int /\ total + e < f /\ a <= e
        BY <1>1, <1>11, <2>1
      <3> HIDE DEF total, e, f, a
      <3>2. total + a < f
        BY <1>11, <3>1
      <3> QED BY <1>12, <3>2 DEF a, f
    <2> SUFFICES ASSUME v >= B PROVE FALSE
      BY <1>11
    <2> HIDE DEF v
    <2>3. PICK k \in Nat : v = B + k
      <3>1. v - B \in Nat /\ v = B + (v - B)
        BY <1>11
      <3> QED BY <3>1
    <2>4. Word * v = Word * B + Word * k /\ Word * k \in Nat /\ Word * B \in Nat
      BY <1>1, <2>3
    <2> DEFINE a == Word * v
               b == Word * B
               e == Word * k
    <2>5. a = b + e /\ e \in Nat /\ b \in Nat /\ a < b
      BY <2>2, <2>4
    <2> HIDE DEF a, b, e
    <2> QED BY <2>5
  <1>14. x < 2
    <2> SUFFICES ASSUME x >= 2 PROVE FALSE
      BY <1>8
    <2> HIDE DEF x
    <2>1. PICK k \in Nat : x = 2 + k
      <3>1. x - 2 \in Nat /\ x = 2 + (x - 2)
        BY <1>8
      <3> QED BY <3>1
    <2>2. x * C = 2 * C + k * C /\ k * C \in Nat
      BY <1>1, <2>1
    <2> DEFINE a == x * C
               b == k * C
    <2>3. a = 2 * C + b /\ b \in Nat /\ pd + a < B /\ B <= 2 * C /\ C \in Nat
      BY <1>1, <1>13, <2>2
    <2> HIDE DEF a, b, C
    <2> QED BY <1>10, <2>3
  <1> HIDE DEF x
  <1>15. Low(x) = x /\ Low(x) \in Digit /\ 0 \in Digit
    BY <1>1, <1>8, <1>14 DEF Low, Digit
  <1>16. o \in Row /\ (\A i \in Index : o[i] = d[i]) /\ Above(o) = x
    <2> DEFINE z == Low(x)
               zero == 0
    <2>1. z \in Digit /\ zero \in Digit /\ o = Under(d, z, zero) /\ z = x
      BY <1>9, <1>15
    <2> HIDE DEF z, zero
    <2> QED BY <1>9, <2>1, Topped
  <1>17. RowValue(o) = v
    <2>1. HasInts(d)
      BY <1>1, <1>9 DEF HasInts, Digit
    <2>2. PartOf(o, NLimbs) = PartOf(d, NLimbs)
      BY <1>16, <2>1, PartSame
    <2> QED BY <1>16, <2>2 DEF RowValue, pd
  <1> HIDE DEF v, C, total
  <1>18. RowValue(o) \in 0..(B - 1)
    BY <1>11, <1>13, <1>17
  <1>19. Word * RowValue(o) = RowValue(u) + Over(u) * (Word * Capacity) + Modulus * m
    BY <1>12, <1>17 DEF total, C
  <1> QED BY <1>3, <1>16, <1>18, <1>19 DEF o

-----------------------------------------------------------------------------
(* The last reduction *)

\* What a sum of two residues leaves, and a difference.
Once(v) == IF v < Modulus THEN v ELSE v - Modulus

\* It is the residue.
LEMMA OnceIs ==
  ASSUME LimbsAssumption, NEW v \in 0..(2 * Modulus - 1)
  PROVE  Once(v) = v % Modulus /\ Once(v) \in 0..(Modulus - 1)
  <1>1. Modulus \in Nat \ {0} /\ v \in Nat /\ v < 2 * Modulus
    BY DEF LimbsAssumption
  <1>2. CASE v < Modulus
    <2>1. v \in 0..(Modulus - 1) /\ 0 \in Int /\ v + Modulus * 0 = v
      BY <1>1, <1>2
    <2>2. (v + Modulus * 0) % Modulus = v
      BY <1>1, <2>1, DivisionIs
    <2> QED BY <1>2, <2>1, <2>2 DEF Once
  <1>3. CASE v >= Modulus
    <2> DEFINE r == v - Modulus
    <2>1. r \in 0..(Modulus - 1) /\ 1 \in Int /\ r + Modulus * 1 = v
      BY <1>1, <1>3
    <2> HIDE DEF r
    <2>2. (r + Modulus * 1) % Modulus = r
      BY <1>1, <2>1, DivisionIs
    <2> QED BY <1>1, <1>3, <2>1, <2>2 DEF Once, r
  <1> QED BY <1>1, <1>2, <1>3

\* ReducedOnce subtracts the modulus from what is not below it.
LEMMA ReducedIs ==
  ASSUME LimbsAssumption, NEW t \in Seq(Digit), Len(t) > NLimbs, RowValue(t) \in 0..(2 * Modulus - 1)
  PROVE  /\ HasDigits(ReducedOnce(t))
         /\ PartOf(ReducedOnce(t), NLimbs) = Once(RowValue(t))
  <1> DEFINE low == SubSeq(t, 1, NLimbs)
             less == SubLimbs(low, ModulusLimbs)
             v == RowValue(t)
             p == PartOf(low, NLimbs)
             o == PartOf(less.limbs, NLimbs)
             C == Capacity
             top == t[NLimbs + 1]
  <1>1. /\ NLimbs \in Nat \ {0} /\ Modulus \in Nat /\ Modulus < C /\ Word \in Nat
        /\ C \in Nat \ {0} /\ 2 * Modulus <= C /\ v \in Nat /\ v < 2 * Modulus
    <2>1. Capacity \in Nat \ {0}
      BY WeightsAre DEF Capacity, LimbsAssumption
    <2> HIDE DEF v
    <2>2. v \in 0..(2 * Modulus - 1)
      BY DEF v
    <2> QED BY <2>1, <2>2 DEF LimbsAssumption
  <1>2. low \in [Index -> Digit] /\ (\A i \in Index : low[i] = t[i]) /\ top \in Digit
    <2> HIDE DEF Digit
    <2>1. low \in Seq(Digit) /\ Len(low) = NLimbs /\ \A i \in 1..NLimbs : low[i] = t[i]
      BY <1>1
    <2>2. top \in Digit
      BY <1>1
    <2> HIDE DEF low
    <2>3. low \in [1..Len(low) -> Digit]
      BY <2>1, LenProperties, Zenon
    <2> QED BY <2>1, <2>2, <2>3 DEF Index
  <1> HIDE DEF low
  <1>3. HasDigits(low) /\ HasInts(low) /\ HasInts(t) /\ top \in Nat
    BY <1>1, <1>2 DEF HasDigits, HasInts, Digit
  <1>4. p = PartOf(t, NLimbs)
    BY <1>2, <1>3, PartSame, Zenon
  <1>5. p \in 0..(C - 1)
    BY <1>1, <1>3, PartBelow DEF Capacity
  <1>6. v = p + top * C
    BY <1>4 DEF RowValue, Above
  <1>7. top = 0
    <2> SUFFICES ASSUME top > 0 PROVE FALSE
      BY <1>3
    <2> HIDE DEF top, v, p, C
    <2>1. PICK k \in Nat : top = 1 + k
      <3>1. top - 1 \in Nat /\ top = 1 + (top - 1)
        BY <1>3
      <3> QED BY <3>1
    <2>2. top * C = C + k * C /\ k * C \in Nat
      BY <1>1, <2>1
    <2> DEFINE a == top * C
               b == k * C
    <2>3. a = C + b /\ b \in Nat /\ v = p + a
      BY <1>6, <2>2
    <2> HIDE DEF a, b
    <2> QED BY <1>1, <1>5, <2>3
  <1>8. v = p
    BY <1>1, <1>5, <1>6, <1>7
  <1>9. HasDigits(ModulusLimbs) /\ PartOf(ModulusLimbs, NLimbs) = Modulus
    BY <1>1, LimbsHold DEF ModulusLimbs
  <1>10. /\ less.limbs \in [Index -> Digit] /\ less.borrow \in {0, 1}
         /\ o + Modulus = p + less.borrow * C
    <2>1. /\ less.limbs \in [Index -> Digit] /\ less.borrow \in {0, 1}
          /\ o + PartOf(ModulusLimbs, NLimbs) = p + less.borrow * C
      BY <1>3, <1>9, SubLimbsAre
    <2> HIDE DEF less, o, p, C
    <2> QED BY <1>9, <2>1
  <1>11. HasDigits(less.limbs) /\ o \in 0..(C - 1)
    <2>1. HasDigits(less.limbs)
      BY <1>10 DEF HasDigits
    <2> HIDE DEF less
    <2> QED BY <1>1, <2>1, PartBelow DEF Capacity
  <1>12. ReducedOnce(t) = IF top < less.borrow THEN low ELSE less.limbs
    BY DEF ReducedOnce, Chosen, low
  <1> HIDE DEF less, o, p, C, v, top
  <1>13. CASE less.borrow = 0
    <2>1. v >= Modulus /\ o = v - Modulus
      BY <1>1, <1>5, <1>8, <1>10, <1>11, <1>13
    <2>2. ReducedOnce(t) = less.limbs
      BY <1>7, <1>12, <1>13
    <2> QED BY <1>1, <1>11, <2>1, <2>2 DEF Once, o, v
  <1>14. CASE less.borrow = 1
    <2>1. v < Modulus
      BY <1>1, <1>5, <1>8, <1>10, <1>11, <1>14
    <2>2. ReducedOnce(t) = low
      BY <1>7, <1>12, <1>14
    <2> QED BY <1>3, <1>8, <2>1, <2>2 DEF Once, p, v
  <1> QED BY <1>10, <1>13, <1>14

\* fp_add and fr_add add.
LEMMA AddLeaves ==
  ASSUME LimbsAssumption, NEW a \in 0..(Modulus - 1), NEW b \in 0..(Modulus - 1)
  PROVE  Add(a, b) = (a + b) % Modulus
  <1> DEFINE la == ToLimbs(a)
             lb == ToLimbs(b)
             s == AddLimbs(la, lb)
             t == s \o <<0>>
             C == Capacity
  <1>1. /\ NLimbs \in Nat \ {0} /\ Modulus \in Nat /\ Word \in Nat /\ Word > 1
        /\ C \in Nat \ {0} /\ 2 * Modulus <= C /\ a \in Nat /\ b \in Nat /\ a < Modulus /\ b < Modulus
    <2>1. Capacity \in Nat \ {0}
      BY WeightsAre DEF Capacity, LimbsAssumption
    <2> QED BY <2>1 DEF LimbsAssumption
  <1>2. /\ HasDigits(la) /\ PartOf(la, NLimbs) = a /\ HasDigits(lb) /\ PartOf(lb, NLimbs) = b
    BY <1>1, LimbsHold
  <1> HIDE DEF la, lb
  <1>3. s \in [Index -> Digit] /\ \E c \in Digit : PartOf(s, NLimbs) + c * C = PartOf(la, NLimbs) + PartOf(lb, NLimbs)
    BY <1>2, AddLimbsAre
  <1> HIDE DEF s
  <1>4. PICK c \in Digit : PartOf(s, NLimbs) + c * C = a + b
    BY <1>2, <1>3
  <1>5. HasDigits(s) /\ HasInts(s)
    BY <1>1, <1>3 DEF HasDigits, HasInts, Digit
  <1> DEFINE p == PartOf(s, NLimbs)
  <1>6. p \in 0..(C - 1)
    BY <1>1, <1>5, PartBelow DEF Capacity
  <1>7. p = a + b
    <2> HIDE DEF p, C
    <2>1. c \in Nat /\ p + c * C = a + b
      BY <1>1, <1>4 DEF Digit, p
    <2>2. c = 0
      <3> SUFFICES ASSUME c > 0 PROVE FALSE
        BY <2>1
      <3>1. PICK k \in Nat : c = 1 + k
        <4>1. c - 1 \in Nat /\ c = 1 + (c - 1)
          BY <2>1
        <4> QED BY <4>1
      <3>2. c * C = C + k * C /\ k * C \in Nat
        BY <1>1, <3>1
      <3> DEFINE x == c * C
                 y == k * C
      <3>3. x = C + y /\ y \in Nat /\ p + x = a + b
        BY <2>1, <3>2
      <3> HIDE DEF x, y
      <3> QED BY <1>1, <1>6, <3>3
    <2> QED BY <1>1, <1>6, <2>1, <2>2
  <1>8. t \in Seq(Digit) /\ Len(t) = NLimbs + 1 /\ t[NLimbs + 1] = 0 /\ \A i \in Index : t[i] = s[i]
    <2>1. 0 \in Digit
      BY <1>1 DEF Digit
    <2> HIDE DEF Digit
    <2>2. s \in Seq(Digit) /\ Len(s) = NLimbs
      BY <1>1, <1>3 DEF Index
    <2>3. <<0>> \in Seq(Digit) /\ Len(<<0>>) = 1 /\ <<0>>[1] = 0
      BY <2>1
    <2>4. t \in Seq(Digit) /\ Len(t) = NLimbs + 1
      BY <1>1, <2>2, <2>3
    <2>5. t[NLimbs + 1] = 0
      BY <1>1, <2>2, <2>3
    <2>6. \A i \in Index : t[i] = s[i]
      BY <1>1, <2>2, <2>3 DEF Index
    <2> QED BY <2>4, <2>5, <2>6
  <1>9. Add(a, b) = ValueOf(ReducedOnce(t))
    BY DEF Add, t, s, la, lb
  <1> HIDE DEF t
  <1>10. RowValue(t) = a + b
    <2>1. PartOf(t, NLimbs) = p
      BY <1>5, <1>8, PartSame, Zenon
    <2>2. RowValue(t) = p + 0 * C
      BY <1>8, <2>1 DEF RowValue, Above
    <2> HIDE DEF p, C
    <2> QED BY <1>1, <1>6, <1>7, <2>2
  <1>11. a + b \in 0..(2 * Modulus - 1)
    BY <1>1
  <1>12. HasDigits(ReducedOnce(t)) /\ PartOf(ReducedOnce(t), NLimbs) = Once(a + b)
    <2>1. Len(t) > NLimbs
      BY <1>1, <1>8
    <2> QED BY <1>8, <1>10, <1>11, <2>1, ReducedIs
  <1>13. ValueOf(ReducedOnce(t)) = PartOf(ReducedOnce(t), NLimbs)
    <2>1. HasInts(ReducedOnce(t))
      BY <1>1, <1>12 DEF HasDigits, HasInts, Digit
    <2> QED BY <2>1, LimbsValue
  <1> QED BY <1>9, <1>11, <1>12, <1>13, OnceIs

\* fp_sub and fr_sub subtract.
LEMMA SubLeaves ==
  ASSUME LimbsAssumption, NEW a \in 0..(Modulus - 1), NEW b \in 0..(Modulus - 1)
  PROVE  Sub(a, b) = (a - b) % Modulus
  <1> DEFINE la == ToLimbs(a)
             lb == ToLimbs(b)
             d == SubLimbs(la, lb)
             m == IF d.borrow # 0 THEN ModulusLimbs ELSE ToLimbs(0)
             s == AddLimbs(d.limbs, m)
             C == Capacity
             o == PartOf(d.limbs, NLimbs)
             p == PartOf(s, NLimbs)
             x == IF d.borrow # 0 THEN Modulus ELSE 0
  <1>1. /\ NLimbs \in Nat \ {0} /\ Modulus \in Nat \ {0} /\ Word \in Nat /\ Word > 1
        /\ C \in Nat \ {0} /\ 2 * Modulus <= C /\ a \in Nat /\ b \in Nat /\ a < Modulus /\ b < Modulus
    <2>1. Capacity \in Nat \ {0}
      BY WeightsAre DEF Capacity, LimbsAssumption
    <2> QED BY <2>1 DEF LimbsAssumption
  <1>2. /\ HasDigits(la) /\ PartOf(la, NLimbs) = a /\ HasDigits(lb) /\ PartOf(lb, NLimbs) = b
    BY <1>1, LimbsHold
  <1> HIDE DEF la, lb
  <1>3. d.limbs \in [Index -> Digit] /\ d.borrow \in {0, 1} /\ o + b = a + d.borrow * C
    <2>1. /\ d.limbs \in [Index -> Digit] /\ d.borrow \in {0, 1}
          /\ o + PartOf(lb, NLimbs) = PartOf(la, NLimbs) + d.borrow * C
      BY <1>2, SubLimbsAre
    <2> HIDE DEF d, o, C
    <2> QED BY <1>2, <2>1
  <1>4. HasDigits(m) /\ PartOf(m, NLimbs) = x
    <2>1. HasDigits(ModulusLimbs) /\ PartOf(ModulusLimbs, NLimbs) = Modulus
      BY <1>1, LimbsHold DEF ModulusLimbs
    <2> DEFINE zero == 0
    <2>2. zero \in Nat /\ zero < Capacity
      BY <1>1
    <2>3. HasDigits(ToLimbs(zero)) /\ PartOf(ToLimbs(zero), NLimbs) = zero
      <3> HIDE DEF zero
      <3> QED BY <2>2, LimbsHold
    <2> HIDE DEF d
    <2> QED BY <2>1, <2>3
  <1> HIDE DEF m
  <1>5. HasDigits(d.limbs) /\ o \in 0..(C - 1)
    <2>1. HasDigits(d.limbs)
      BY <1>3 DEF HasDigits
    <2> HIDE DEF d
    <2> QED BY <1>1, <2>1, PartBelow DEF Capacity
  <1> HIDE DEF d
  <1>6. s \in [Index -> Digit] /\ \E c \in Digit : p + c * C = o + x
    <2>1. s \in [Index -> Digit] /\ \E c \in Digit : p + c * C = o + PartOf(m, NLimbs)
      BY <1>4, <1>5, AddLimbsAre
    <2> QED BY <1>4, <2>1
  <1>7. PICK c \in Digit : p + c * C = o + x
    BY <1>6
  <1> HIDE DEF s
  <1>8. HasDigits(s) /\ HasInts(s)
    BY <1>1, <1>6 DEF HasDigits, HasInts, Digit
  <1>9. p \in 0..(C - 1)
    BY <1>1, <1>8, PartBelow DEF Capacity
  <1>10. Sub(a, b) = p
    <2>1. Sub(a, b) = ValueOf(s)
      BY DEF Sub, Unmasked, s, m, d, la, lb
    <2> QED BY <1>8, <2>1, LimbsValue
  <1> HIDE DEF p, o, C
  <1>11. c \in Nat
    BY <1>1 DEF Digit
  <1>12. (c = 0 \/ c = 1 \/ \E k \in Nat : c = 2 + k)
    <2>1. c >= 2 => (c - 2 \in Nat /\ c = 2 + (c - 2))
      BY <1>11
    <2> QED BY <1>11, <2>1
  <1>13. p = Once(a - b + Modulus)
    <2>1. CASE d.borrow = 0
      <3>1. o = a - b /\ x = 0 /\ o >= 0
        BY <1>1, <1>3, <1>5, <2>1
      <3>2. c = 0
        <4> SUFFICES ASSUME c > 0 PROVE FALSE
          BY <1>11
        <4>1. PICK k \in Nat : c = 1 + k
          <5>1. c - 1 \in Nat /\ c = 1 + (c - 1)
            BY <1>11
          <5> QED BY <5>1
        <4>2. c * C = C + k * C /\ k * C \in Nat
          BY <1>1, <4>1
        <4> DEFINE e == c * C
                   f == k * C
        <4>3. e = C + f /\ f \in Nat /\ p + e = o + x
          BY <1>7, <4>2
        <4> HIDE DEF e, f, x
        <4> QED BY <1>1, <1>5, <1>9, <3>1, <4>3
      <3>3. p = a - b
        BY <1>1, <1>7, <1>9, <3>1, <3>2
      <3> QED BY <1>1, <3>1, <3>3 DEF Once
    <2>2. CASE d.borrow = 1
      <3>1. o = a - b + C /\ x = Modulus /\ a - b < 0
        BY <1>1, <1>3, <1>5, <2>2
      <3>2. c # 0
        BY <1>1, <1>7, <1>9, <3>1
      <3>3. ASSUME NEW k \in Nat, c = 2 + k PROVE FALSE
        <4>1. c * C = 2 * C + k * C /\ k * C \in Nat
          BY <1>1, <3>3
        <4> DEFINE e == c * C
                   f == k * C
        <4>2. e = 2 * C + f /\ f \in Nat /\ p + e = o + x
          BY <1>7, <4>1
        <4> HIDE DEF e, f, x
        <4> QED BY <1>1, <1>5, <1>9, <3>1, <4>2
      <3>4. c = 1
        BY <1>12, <3>2, <3>3
      <3>5. p = a - b + Modulus
        BY <1>1, <1>7, <1>9, <3>1, <3>4
      <3> QED BY <1>1, <3>1, <3>5 DEF Once
    <2> QED BY <1>3, <2>1, <2>2
  <1>14. a - b + Modulus \in 0..(2 * Modulus - 1) /\ a - b \in Int /\ 1 \in Int
    BY <1>1
  <1>15. Once(a - b + Modulus) = (a - b + Modulus) % Modulus
    BY <1>14, OnceIs
  <1>16. (a - b + Modulus) % Modulus = (a - b) % Modulus
    <2> DEFINE e == a - b + Modulus
               f == a - b
               g == 1
    <2>1. e \in Int /\ f \in Int /\ g \in Int /\ e = f + Modulus * g
      BY <1>1, <1>14
    <2> HIDE DEF e, f, g
    <2>2. e % Modulus = f % Modulus
      BY <1>1, <2>1, SameRest
    <2> QED BY <2>2 DEF e, f
  <1> QED BY <1>10, <1>13, <1>15, <1>16

\* One limb of the second factor is multiplied in: the row stays below what both factors bound.
LEMMA TurnIs ==
  ASSUME LimbsAssumption, NEW la, HasDigits(la), NEW A \in Nat, A < Capacity, PartOf(la, NLimbs) = A,
         NEW y \in Digit, NEW t \in Row, RowValue(t) \in 0..(A + Modulus - 1)
  PROVE  LET o == ShiftedDown(PlusTimes(t, la, y)) IN
         /\ o \in Row /\ RowValue(o) \in 0..(A + Modulus - 1)
         /\ \E m \in Digit : Word * RowValue(o) = A * y + RowValue(t) + Modulus * m
  <1> DEFINE u == PlusTimes(t, la, y)
             B == A + Modulus
             C == Capacity
             v == RowValue(t)
             total == RowValue(u) + Over(u) * (Word * C)
  <1>1. /\ Word \in Nat /\ Word > 1 /\ Modulus \in Nat \ {0} /\ C \in Nat /\ 2 * Modulus <= C
        /\ y \in Nat /\ y <= Word - 1 /\ v \in Nat /\ v <= B - 1 /\ B \in Nat /\ B <= 2 * C
    <2>1. Capacity \in Nat \ {0}
      BY WeightsAre DEF Capacity, LimbsAssumption
    <2> HIDE DEF v
    <2>2. v \in 0..(A + Modulus - 1)
      BY DEF v
    <2> QED BY <2>1, <2>2 DEF LimbsAssumption, Digit
  <1>2. u \in Row /\ total = A * y + v
    <2>1. /\ u \in Row
          /\ RowValue(u) + Over(u) * (Word * Capacity) = PartOf(la, NLimbs) * y + RowValue(t)
      BY PlusTimesIs
    <2> HIDE DEF u
    <2> QED BY <2>1
  <1> HIDE DEF u, v
  <1>3. total + Modulus * (Word - 1) < Word * B
    <2>1. PICK k \in Nat : Word - 1 = y + k
      <3>1. (Word - 1) - y \in Nat /\ Word - 1 = y + ((Word - 1) - y)
        BY <1>1
      <3> QED BY <3>1
    <2>2. A * (Word - 1) = A * y + A * k /\ A * k \in Nat /\ A * y \in Nat
      BY <1>1, <2>1
    <2>3. Word * B = A * (Word - 1) + A + Modulus * (Word - 1) + Modulus
      BY <1>1
    <2> DEFINE a == A * y
               b == A * k
               e == Modulus * (Word - 1)
               f == A * (Word - 1)
               g == Word * B
    <2>4. a \in Nat /\ b \in Nat /\ e \in Nat /\ f = a + b /\ g = f + A + e + Modulus /\ total = a + v
      BY <1>1, <1>2, <2>2, <2>3
    <2> HIDE DEF a, b, e, f, g, total
    <2>5. total + e < g
      BY <1>1, <2>4
    <2> QED BY <2>5 DEF e, g
  <1> DEFINE o == ShiftedDown(u)
  <1>4. /\ o \in Row /\ RowValue(o) \in 0..(B - 1)
        /\ \E m \in Digit : Word * RowValue(o) = total + Modulus * m
    <2>1. RowValue(u) + Over(u) * (Word * Capacity) + Modulus * (Word - 1) < Word * B
      BY <1>3
    <2>2. B \in Nat /\ B <= 2 * Capacity
      BY <1>1
    <2> HIDE DEF B
    <2> QED BY <1>2, <2>1, <2>2, ShiftedDownIs
  <1> HIDE DEF total
  <1>5. o \in Row /\ RowValue(o) \in 0..(A + Modulus - 1)
        /\ \E m \in Digit : Word * RowValue(o) = A * y + v + Modulus * m
    <2> HIDE DEF o
    <2>1. PICK m \in Digit : Word * RowValue(o) = total + Modulus * m
      BY <1>4
    <2>2. Word * RowValue(o) = A * y + v + Modulus * m
      BY <1>2, <2>1
    <2>3. \E mm \in Digit : Word * RowValue(o) = A * y + v + Modulus * mm
      BY <2>2, Zenon
    <2>4. o \in Row /\ RowValue(o) \in 0..(A + Modulus - 1)
      BY <1>1, <1>4
    <2> QED BY <2>3, <2>4, Zenon
  <1> QED BY <1>5 DEF u, v

\* CIOS: each turn divides by Word, modulo the modulus, so that the limbs' turns divide by Capacity.
LEMMA RowsAre ==
  ASSUME LimbsAssumption, NEW la, HasDigits(la), NEW A \in Nat, A < Capacity, PartOf(la, NLimbs) = A,
         NEW lb, HasDigits(lb)
  PROVE  \E t \in Row :
           /\ MulLimbs(la, lb) = ReducedOnce(t) /\ RowValue(t) \in Nat
           /\ \E K \in 0..(Capacity - 1) :
                RowValue(t) * Capacity = A * PartOf(lb, NLimbs) + Modulus * K
  <1> DEFINE S == {t \in Row : RowValue(t) \in 0..(A + Modulus - 1)}
             Turn(t, n) == ShiftedDown(PlusTimes(t, la, lb[n]))
             none == [i \in 1..(NLimbs + 2) |-> 0]
             G == [x \in (1..NLimbs) \X S |-> Turn(x[2], x[1])]
             Step(h) == [n \in 0..NLimbs |-> IF n = 0 THEN none ELSE Turn(h[n - 1], n)]
             c == CHOOSE h : h = Step(h)
             w(n) == LimbWeight[n]
  <1>1. NLimbs \in Nat \ {0} /\ Word \in Nat /\ Word > 1 /\ Modulus \in Nat \ {0} /\ Capacity \in Nat \ {0}
    <2>1. Capacity \in Nat \ {0}
      BY WeightsAre DEF Capacity, LimbsAssumption
    <2> QED BY <2>1 DEF LimbsAssumption
  <1>2. \A n \in 1..NLimbs : lb[n] \in Digit
    BY DEF HasDigits, Index
  <1>3. none \in Row /\ RowValue(none) = 0 /\ none \in S
    <2>1. none \in Row
      BY <1>1 DEF Row, Digit
    <2>2. \A i \in Index : none[i] = 0
      BY <1>1 DEF Index
    <2>3. Above(none) = 0
      BY <1>1 DEF Above
    <2>4. PartOf(none, NLimbs) = 0
      <3> DEFINE f == [i \in Index |-> none[i] * LimbWeight[i - 1]]
      <3>1. \A i \in 1..NLimbs : f[i] = 0
        <4> SUFFICES ASSUME NEW i \in 1..NLimbs PROVE f[i] = 0
          OBVIOUS
        <4>1. LimbWeight[i - 1] \in Nat \ {0} /\ i \in Index
          BY <1>1, WeightsAre DEF Index
        <4>2. f[i] = 0 * LimbWeight[i - 1]
          BY <2>2, <4>1
        <4> QED BY <4>1, <4>2
      <3> HIDE DEF f, none
      <3>2. Sum(f, NLimbs) = 0
        BY <1>1, <3>1, SumZeros
      <3> QED BY <3>2 DEF PartOf, f
    <2> HIDE DEF none
    <2>5. RowValue(none) = 0
      BY <1>1, <2>3, <2>4 DEF RowValue
    <2>6. 0 \in 0..(A + Modulus - 1)
      BY <1>1
    <2> QED BY <2>1, <2>5, <2>6
  <1> HIDE DEF none
  <1>4. \A n \in 1..NLimbs, t \in S :
          /\ Turn(t, n) \in S
          /\ \E m \in Digit : Word * RowValue(Turn(t, n)) = A * lb[n] + RowValue(t) + Modulus * m
    <2> SUFFICES ASSUME NEW n \in 1..NLimbs, NEW t \in S
                 PROVE  /\ Turn(t, n) \in S
                        /\ \E m \in Digit : Word * RowValue(Turn(t, n)) = A * lb[n] + RowValue(t) + Modulus * m
      OBVIOUS
    <2> DEFINE y == lb[n]
               o == ShiftedDown(PlusTimes(t, la, y))
    <2>1. y \in Digit /\ t \in Row /\ RowValue(t) \in 0..(A + Modulus - 1)
      BY <1>2
    <2> HIDE DEF y
    <2>2. /\ o \in Row /\ RowValue(o) \in 0..(A + Modulus - 1)
          /\ \E m \in Digit : Word * RowValue(o) = A * y + RowValue(t) + Modulus * m
      BY <2>1, TurnIs
    <2>3. Turn(t, n) = o
      BY DEF y
    <2> HIDE DEF o, Turn
    <2> QED BY <2>2, <2>3 DEF y
  <1> HIDE DEF Turn
  <1>5. G \in [(1..NLimbs) \X S -> S] /\ \A n \in 1..NLimbs, t \in S : G[<<n, t>>] = Turn(t, n)
    <2>1. \A n \in 1..NLimbs, t \in S : Turn(t, n) \in S
      BY <1>4
    <2> HIDE DEF S
    <2> QED BY <2>1
  <1> HIDE DEF G
  <1>6. PICK f \in [0..NLimbs -> S] : Follows(f, NLimbs, none, G)
    <2> HIDE DEF S
    <2> QED BY <1>1, <1>3, <1>5, Recursion, Zenon
  <1>7. f[0] = none /\ \A n \in 1..NLimbs : f[n] = Turn(f[n - 1], n) /\ f[n - 1] \in S
    <2>1. f[0] = none
      BY <1>6 DEF Follows
    <2>2. ASSUME NEW n \in 1..NLimbs PROVE f[n] = Turn(f[n - 1], n) /\ f[n - 1] \in S
      <3>1. n - 1 \in 0..NLimbs
        BY <1>1
      <3> HIDE DEF S
      <3>2. f[n - 1] \in S
        BY <1>6, <3>1
      <3>3. f[n] = G[<<n, f[n - 1]>>]
        BY <1>6 DEF Follows
      <3> QED BY <1>5, <3>2, <3>3
    <2> QED BY <2>1, <2>2
  <1>8. f = Step(f)
    <2>1. \A n \in 0..NLimbs : f[n] = IF n = 0 THEN none ELSE Turn(f[n - 1], n)
      <3> SUFFICES ASSUME NEW n \in 0..NLimbs PROVE f[n] = IF n = 0 THEN none ELSE Turn(f[n - 1], n)
        OBVIOUS
      <3>1. n = 0 \/ n \in 1..NLimbs
        BY <1>1
      <3> QED BY <1>7, <3>1
    <2> HIDE DEF S
    <2> QED BY <1>6, <2>1
  <1>9. c = Step(c)
    <2> HIDE DEF Step
    <2> QED BY <1>8
  <1>10. MulLimbs(la, lb) = ReducedOnce(c[NLimbs])
    BY DEF MulLimbs, none, Turn
  <1> HIDE DEF c
  <1>11. \A n \in 0..NLimbs : c[n] = IF n = 0 THEN none ELSE Turn(c[n - 1], n)
    BY <1>9
  <1> HIDE DEF Step
  <1>12. c[NLimbs] = f[NLimbs]
    <2>1. c[0] = f[0]
      BY <1>1, <1>7, <1>11
    <2>2. ASSUME NEW n \in 1..NLimbs, c[n - 1] = f[n - 1] PROVE c[n] = f[n]
      <3>1. n \in 0..NLimbs /\ n # 0
        BY <1>1
      <3> QED BY <1>7, <1>11, <2>2, <3>1
    <2>3. GoesOnAs(c, f, NLimbs)
      BY <2>1, <2>2 DEF GoesOnAs
    <2> QED BY <1>1, <2>3, Agree
  <1> DEFINE Divided(n) == \E K \in 0..(LimbWeight[n] - 1) :
                 RowValue(f[n]) * LimbWeight[n] = A * PartOf(lb, n) + Modulus * K
             T == {n \in Nat : n <= NLimbs => Divided(n)}
  <1>13. HasInts(lb)
    BY <1>1 DEF HasDigits, HasInts, Digit
  <1>14. 0 \in T
    <2>1. LimbWeight[0] = 1 /\ PartOf(lb, 0) = 0 /\ RowValue(f[0]) = 0
      BY <1>3, <1>7, <1>13, WeightsAre, PartIs
    <2>2. 0 \in 0..(LimbWeight[0] - 1) /\ RowValue(f[0]) * LimbWeight[0] = A * PartOf(lb, 0) + Modulus * 0
      BY <1>1, <2>1
    <2> QED BY <2>2
  <1>15. ASSUME NEW n \in Nat, n \in T PROVE n + 1 \in T
    <2> SUFFICES ASSUME n + 1 <= NLimbs PROVE Divided(n + 1)
      OBVIOUS
    <2> DEFINE j == n + 1
               x == LimbWeight[n]
               y == lb[j]
               v == RowValue(f[n])
               z == RowValue(f[j])
               p == PartOf(lb, n)
    <2>1. j \in 1..NLimbs /\ j - 1 = n /\ n \in 0..NLimbs
      BY <1>1
    <2>2. x \in Nat \ {0} /\ LimbWeight[j] = Word * x
      BY <2>1, WeightsAre
    <2>3. PartOf(lb, j) = p + y * x /\ p \in Int
      BY <1>13, <2>1, PartIs
    <2>4. f[n] \in S /\ f[j] = Turn(f[n], j)
      BY <1>7, <2>1
    <2>5. PICK m \in Digit : Word * z = A * y + v + Modulus * m
      BY <1>4, <2>1, <2>4
    <2>6. PICK K \in 0..(x - 1) : v * x = A * p + Modulus * K
      BY <1>15, <2>1
    <2>7. y \in Nat /\ m \in 0..(Word - 1) /\ v \in Nat /\ z \in Nat
      <3>1. f[j] \in S
        BY <1>4, <2>1, <2>4
      <3>2. v \in 0..(A + Modulus - 1) /\ z \in 0..(A + Modulus - 1)
        BY <2>4, <3>1
      <3> HIDE DEF v, z
      <3> QED BY <1>1, <1>2, <2>1, <3>2 DEF Digit
    <2> HIDE DEF x, y, v, z, p, j, S
    <2> DEFINE M == Modulus
               after == K + m * x
    <2>8. M \in Nat /\ K \in Nat /\ m \in Nat /\ x \in Nat /\ A \in Nat /\ m * x \in Nat /\ after \in Nat
      BY <1>1, <2>2, <2>6, <2>7
    <2>9. z * (Word * x) = A * (p + y * x) + M * after
      <3> HIDE DEF M
      <3>1. z * (Word * x) = (Word * z) * x
        BY <1>1, <2>7, <2>8
      <3>2. (A * y + v + M * m) * x = A * (y * x) + v * x + M * (m * x)
        BY <2>7, <2>8
      <3>3. A * (p + y * x) = A * p + A * (y * x)
        BY <2>3, <2>7, <2>8
      <3>4. M * after = M * K + M * (m * x)
        BY <2>8
      <3> DEFINE a == A * p
                 b == A * (y * x)
                 d == M * K
                 e == M * (m * x)
                 g == v * x
      <3>5. a \in Int /\ b \in Int /\ d \in Int /\ e \in Int /\ g \in Int
        BY <2>3, <2>7, <2>8
      <3>6. (Word * z) * x = b + g + e /\ g = a + d
        BY <2>5, <2>6, <3>2 DEF M
      <3>7. A * (p + y * x) = a + b /\ M * after = d + e
        BY <3>3, <3>4
      <3> HIDE DEF a, b, d, e, g, after
      <3>8. b + g + e = (a + b) + (d + e)
        BY <3>5, <3>6
      <3> QED BY <3>1, <3>6, <3>7, <3>8
    <2>10. after \in 0..(Word * x - 1)
      <3>1. PICK k \in Nat : Word = m + 1 + k
        <4>1. Word - m - 1 \in Nat /\ Word = m + 1 + (Word - m - 1)
          BY <1>1, <2>7
        <4> QED BY <4>1
      <3>2. Word * x = m * x + x + k * x /\ k * x \in Nat
        BY <2>8, <3>1
      <3> DEFINE a == m * x
                 b == k * x
                 d == Word * x
      <3>3. a \in Nat /\ b \in Nat /\ d = a + x + b /\ after = K + a
        BY <2>8, <3>2
      <3> HIDE DEF a, b, d, after
      <3>4. after \in 0..(d - 1)
        BY <2>6, <2>8, <3>3
      <3> QED BY <3>4 DEF d
    <2> HIDE DEF after
    <2>11. z * LimbWeight[j] = A * PartOf(lb, j) + Modulus * after /\ after \in 0..(LimbWeight[j] - 1)
      BY <2>2, <2>3, <2>9, <2>10
    <2>12. Divided(j)
      BY <2>11 DEF z
    <2> QED BY <2>12 DEF j
  <1>16. NLimbs \in T
    <2>1. Nat \subseteq T
      <3> HIDE DEF T
      <3> QED BY <1>14, <1>15, Induction
    <2> QED BY <1>1, <2>1
  <1>17. f[NLimbs] \in S
    <2> HIDE DEF S
    <2> QED BY <1>1, <1>6
  <1>18. f[NLimbs] \in Row /\ RowValue(f[NLimbs]) \in Nat
    <2>1. RowValue(f[NLimbs]) \in 0..(A + Modulus - 1)
      BY <1>17
    <2> QED BY <1>17, <2>1
  <1>19. Divided(NLimbs)
    BY <1>1, <1>16
  <1> QED BY <1>10, <1>12, <1>18, <1>19 DEF Capacity

-----------------------------------------------------------------------------
(* Numbers modulo the modulus *)

\* Integers that differ by a multiple of the modulus.
SameClass(a, b) == \E k \in Int : a = b + Modulus * k

\* They leave one remainder, and only they.
LEMMA Classes ==
  ASSUME LimbsAssumption, NEW a \in Int
  PROVE  /\ a % Modulus \in 0..(Modulus - 1) /\ SameClass(a, a % Modulus) /\ SameClass(a % Modulus, a)
         /\ \A b \in Int : (SameClass(a, b) => a % Modulus = b % Modulus /\ SameClass(b, a))
                           /\ (a % Modulus = b % Modulus => SameClass(a, b))
  <1> DEFINE M == Modulus
             r == a % M
             q == a \div M
  <1>1. M \in Nat \ {0}
    BY DEF LimbsAssumption
  <1> HIDE DEF M
  <1>2. r \in 0..(M - 1) /\ q \in Int /\ a = r + M * q
    BY <1>1
  <1>3. r = a + M * (-q)
    <2>1. M * (-q) = -(M * q) /\ M * q \in Int
      BY <1>1, <1>2
    <2> DEFINE x == M * q
               y == M * (-q)
    <2>2. y = -x /\ x \in Int /\ a = r + x
      BY <1>2, <2>1
    <2> HIDE DEF x, y, r
    <2>3. r = a + y
      BY <1>1, <1>2, <2>2
    <2> QED BY <2>3 DEF y
  <1>4. SameClass(a, r) /\ SameClass(r, a)
    <2>1. -q \in Int
      BY <1>2
    <2> HIDE DEF r, q
    <2> QED BY <1>2, <1>3, <2>1 DEF SameClass, M
  <1>5. ASSUME NEW b \in Int, SameClass(a, b) PROVE r = b % M /\ SameClass(b, a)
    <2>1. PICK k \in Int : a = b + M * k
      BY <1>5 DEF SameClass, M
    <2>2. r = b % M
      BY <1>1, <2>1, SameRest
    <2>3. -k \in Int /\ b = a + M * (-k)
      <3>1. M * (-k) = -(M * k) /\ M * k \in Int
        BY <1>1
      <3> DEFINE x == M * k
                 y == M * (-k)
      <3>2. y = -x /\ x \in Int /\ a = b + x
        BY <2>1, <3>1
      <3> HIDE DEF x, y
      <3>3. b = a + y
        BY <3>2
      <3> QED BY <3>3 DEF y
    <2> QED BY <2>2, <2>3 DEF SameClass, M
  <1>6. ASSUME NEW b \in Int, r = b % M PROVE SameClass(a, b)
    <2> DEFINE p == b \div M
    <2>1. p \in Int /\ b = (b % M) + M * p
      BY <1>1
    <2>2. a = b + M * (q - p) /\ q - p \in Int
      <3>1. M * (q - p) = M * q - M * p /\ M * q \in Int /\ M * p \in Int
        BY <1>1, <1>2, <2>1
      <3> DEFINE x == M * q
                 y == M * p
                 z == M * (q - p)
      <3>2. z = x - y /\ x \in Int /\ y \in Int /\ a = r + x /\ b = r + y
        BY <1>2, <1>6, <2>1, <3>1
      <3>3. q - p \in Int /\ r \in Int
        BY <1>1, <1>2, <2>1
      <3> HIDE DEF x, y, z, r, p, q
      <3>4. a = b + z
        BY <3>2, <3>3
      <3> QED BY <3>3, <3>4 DEF z
    <2> HIDE DEF p, q
    <2> QED BY <2>2 DEF SameClass, M
  <1> QED BY <1>2, <1>4, <1>5, <1>6 DEF M

\* A product and a third number keep to the class.
LEMMA ClassesTake ==
  ASSUME LimbsAssumption, NEW a \in Int, NEW b \in Int, NEW c \in Int, SameClass(a, b)
  PROVE  /\ SameClass(a * c, b * c) /\ SameClass(c * a, c * b)
         /\ SameClass(b, c) => SameClass(a, c)
  <1>1. Modulus \in Nat
    BY DEF LimbsAssumption
  <1>2. PICK k \in Int : a = b + Modulus * k
    BY DEF SameClass
  <1>3. a * c = b * c + Modulus * (k * c) /\ c * a = c * b + Modulus * (k * c) /\ k * c \in Int
    BY <1>1, <1>2
  <1>4. ASSUME SameClass(b, c) PROVE SameClass(a, c)
    <2>1. PICK j \in Int : b = c + Modulus * j
      BY <1>4 DEF SameClass
    <2>2. a = c + Modulus * (j + k) /\ j + k \in Int
      BY <1>1, <1>2, <2>1
    <2> QED BY <2>2 DEF SameClass
  <1> QED BY <1>3, <1>4 DEF SameClass

\* Capacity has an inverse, a power of that of Word, which N0 gives.
LEMMA Invertible ==
  ASSUME LimbsAssumption
  PROVE  \E i \in Int, k \in Int : i * Capacity = 1 + Modulus * k
  <1> DEFINE w(n) == LimbWeight[n]
             Has(n) == \E i \in Int, k \in Int : i * LimbWeight[n] = 1 + Modulus * k
             T == {n \in Nat : n <= NLimbs => Has(n)}
             e == (N0 * Modulus + 1) \div Word
  <1>1. /\ NLimbs \in Nat \ {0} /\ Word \in Nat \ {0} /\ Modulus \in Nat /\ N0 \in Nat
        /\ (N0 * Modulus + 1) % Word = 0
    BY DEF LimbsAssumption
  <1>2. e \in Nat /\ Word * e = N0 * Modulus + 1
    <2> DEFINE z == N0 * Modulus + 1
    <2>1. z \in Nat /\ z % Word = 0
      BY <1>1
    <2> HIDE DEF z
    <2>2. z \div Word \in Nat /\ z = (z % Word) + Word * (z \div Word)
      BY <1>1, <2>1, Division
    <2>3. z = Word * (z \div Word)
      <3> DEFINE x == Word * (z \div Word)
      <3>1. x \in Nat
        BY <1>1, <2>2
      <3> HIDE DEF x
      <3> QED BY <2>1, <2>2, <3>1 DEF x
    <2> QED BY <2>2, <2>3 DEF z
  <1> HIDE DEF e
  <1>3. 0 \in T
    <2>1. LimbWeight[0] = 1
      BY WeightsAre
    <2>2. 1 * LimbWeight[0] = 1 + Modulus * 0
      BY <1>1, <2>1
    <2> QED BY <2>2
  <1>4. ASSUME NEW n \in Nat, n \in T PROVE n + 1 \in T
    <2> SUFFICES ASSUME n + 1 <= NLimbs PROVE Has(n + 1)
      OBVIOUS
    <2> DEFINE j == n + 1
               x == LimbWeight[n]
               M == Modulus
    <2>1. j \in 1..NLimbs /\ j - 1 = n /\ n \in 0..NLimbs
      BY <1>1
    <2>2. x \in Nat \ {0} /\ LimbWeight[j] = Word * x
      BY <2>1, WeightsAre
    <2>3. PICK i \in Int, k \in Int : i * x = 1 + M * k
      BY <1>4, <2>1
    <2> HIDE DEF x, j, M
    <2>4. M \in Int /\ x \in Int /\ Word \in Int /\ e \in Int /\ N0 \in Int /\ Word * e = N0 * M + 1
      BY <1>1, <1>2, <2>2 DEF M
    <2>5. (i * e) * (Word * x) = 1 + M * (N0 + k + N0 * (M * k))
      <3>1. (i * e) * (Word * x) = (i * x) * (Word * e)
        BY <2>4
      <3>2. (1 + M * k) * (N0 * M + 1) = 1 + M * (N0 + k + N0 * (M * k))
        BY <2>4
      <3> QED BY <2>3, <2>4, <3>1, <3>2
    <2>6. i * e \in Int /\ N0 + k + N0 * (M * k) \in Int
      BY <2>4
    <2>7. Has(j)
      BY <2>2, <2>5, <2>6 DEF M
    <2> QED BY <2>7 DEF j
  <1>5. NLimbs \in T
    <2>1. Nat \subseteq T
      <3> HIDE DEF T
      <3> QED BY <1>3, <1>4, Induction
    <2> QED BY <1>1, <2>1
  <1> QED BY <1>1, <1>5 DEF Capacity

\* So what two residues times Capacity leave tells them apart.
LEMMA Cancels ==
  ASSUME LimbsAssumption, NEW x \in 0..(Modulus - 1), NEW y \in Int,
         SameClass(x * Capacity, y * Capacity)
  PROVE  x = y % Modulus
  <1> DEFINE C == Capacity
  <1>1. Modulus \in Nat \ {0} /\ C \in Int /\ x \in Int /\ 0 \in Int
    <2>1. Capacity \in Nat \ {0}
      BY WeightsAre DEF Capacity, LimbsAssumption
    <2> QED BY <2>1 DEF LimbsAssumption
  <1>2. PICK i \in Int, k \in Int : i * C = 1 + Modulus * k
    BY Invertible
  <1> HIDE DEF C
  <1>3. \A z \in Int : z * (i * C) = z + Modulus * (k * z) /\ k * z \in Int /\ (z * C) * i = z * (i * C)
                       /\ z * C \in Int /\ z * (i * C) \in Int
    BY <1>1, <1>2
  <1>4. SameClass((x * C) * i, (y * C) * i)
    <2>1. x * C \in Int /\ y * C \in Int /\ SameClass(x * C, y * C)
      BY <1>1, <1>3 DEF C
    <2> QED BY <2>1, ClassesTake
  <1>5. SameClass(x * (i * C), x) /\ SameClass(y * (i * C), y)
    BY <1>1, <1>3 DEF SameClass
  <1>6. SameClass(x, x * (i * C))
    BY <1>1, <1>3, <1>5, Classes
  <1>7. SameClass(x * (i * C), y * (i * C))
    BY <1>1, <1>3, <1>4
  <1>8. SameClass(x, y * (i * C))
    BY <1>1, <1>3, <1>6, <1>7, ClassesTake
  <1>9. SameClass(x, y)
    BY <1>1, <1>3, <1>5, <1>8, ClassesTake
  <1>10. x % Modulus = y % Modulus
    BY <1>1, <1>9, Classes
  <1>11. x % Modulus = x
    <2> DEFINE zero == 0
    <2>1. zero \in Int /\ x + Modulus * zero = x
      BY <1>1
    <2> HIDE DEF zero
    <2>2. (x + Modulus * zero) % Modulus = x
      BY <1>1, <2>1, DivisionIs
    <2> QED BY <2>1, <2>2
  <1> QED BY <1>10, <1>11

-----------------------------------------------------------------------------
(* Montgomery form *)

\* fp_mul and fr_mul: "The CIOS result is below 2p; subtract once when needed." What is left
\* times Capacity is the product, though the first factor need not be reduced.
LEMMA MulLeaves ==
  ASSUME LimbsAssumption, NEW a \in 0..(Capacity - 1), NEW b \in 0..(Modulus - 1)
  PROVE  /\ Mul(a, b) \in 0..(Modulus - 1)
         /\ SameClass(Mul(a, b) * Capacity, a * b)
  <1> DEFINE la == ToLimbs(a)
             lb == ToLimbs(b)
             C == Capacity
             M == Modulus
  <1>1. /\ NLimbs \in Nat \ {0} /\ M \in Nat \ {0} /\ Word \in Nat /\ C \in Nat \ {0} /\ 2 * M <= C
        /\ a \in Nat /\ b \in Nat /\ a <= C - 1 /\ b <= M - 1 /\ b < C
    <2>1. Capacity \in Nat \ {0}
      BY WeightsAre DEF Capacity, LimbsAssumption
    <2> QED BY <2>1 DEF LimbsAssumption
  <1>2. HasDigits(la) /\ PartOf(la, NLimbs) = a /\ HasDigits(lb) /\ PartOf(lb, NLimbs) = b
    BY <1>1, LimbsHold
  <1> HIDE DEF la, lb
  <1> DEFINE Rows(t, l) ==
               /\ MulLimbs(la, l) = ReducedOnce(t) /\ RowValue(t) \in Nat
               /\ \E K \in 0..(Capacity - 1) :
                    RowValue(t) * Capacity = a * PartOf(l, NLimbs) + Modulus * K
  <1>3. \E t \in Row : Rows(t, lb)
    <2>1. a \in Nat /\ a < Capacity
      BY <1>1
    <2>2. \A l : HasDigits(l) => \E t \in Row : Rows(t, l)
      BY <1>2, <2>1, RowsAre
    <2> HIDE DEF Rows
    <2> QED BY <1>2, <2>2
  <1>4. PICK t \in Row, K \in 0..(C - 1) :
           /\ MulLimbs(la, lb) = ReducedOnce(t) /\ RowValue(t) \in Nat
           /\ RowValue(t) * C = a * b + M * K
    BY <1>2, <1>3
  <1> DEFINE v == RowValue(t)
  <1> HIDE DEF C, M, v
  <1>5. v \in Nat /\ v * C = a * b + M * K /\ K \in Nat /\ K <= C - 1
    BY <1>1, <1>4 DEF v
  <1>6. v < 2 * M
    <2> SUFFICES ASSUME v >= 2 * M PROVE FALSE
      BY <1>1, <1>5
    <2>1. PICK i \in Nat, j \in Nat, k \in Nat : C - 1 = a + i /\ M - 1 = b + j /\ C - 1 = K + k
      <3>1. (C - 1) - a \in Nat /\ C - 1 = a + ((C - 1) - a)
        BY <1>1
      <3>2. (M - 1) - b \in Nat /\ M - 1 = b + ((M - 1) - b)
        BY <1>1
      <3>3. (C - 1) - K \in Nat /\ C - 1 = K + ((C - 1) - K)
        BY <1>1, <1>5
      <3> QED BY <3>1, <3>2, <3>3
    <2>2. PICK h \in Nat : v = 2 * M + h
      <3>1. v - 2 * M \in Nat /\ v = 2 * M + (v - 2 * M)
        BY <1>1, <1>5
      <3> QED BY <3>1
    <2>3. v * C = 2 * (M * C) + h * C /\ h * C \in Nat /\ M * C \in Nat
      BY <1>1, <2>2
    <2>4. M * C = M + M * K + M * k /\ M * k \in Nat /\ M * K \in Nat
      <3>1. C = 1 + K + k
        BY <1>1, <1>5, <2>1
      <3> QED BY <1>1, <1>5, <2>1, <3>1
    <2>5. M * C = a * b + a * (1 + j) + (1 + i) * M
      <3>1. C = a + (1 + i) /\ M = b + (1 + j)
        BY <1>1, <2>1
      <3>2. M * C = M * a + (1 + i) * M
        BY <1>1, <2>1, <3>1
      <3>3. M * a = a * b + a * (1 + j)
        BY <1>1, <2>1, <3>1
      <3> QED BY <3>2, <3>3
    <2>6. a * b \in Nat /\ a * (1 + j) \in Nat /\ (1 + i) * M \in Nat
      BY <1>1, <2>1
    <2> DEFINE mc == M * C
               vc == v * C
               hc == h * C
               mK == M * K
               mk == M * k
               ab == a * b
               aj == a * (1 + j)
               im == (1 + i) * M
    <2>7. /\ vc = 2 * mc + hc /\ hc \in Nat /\ mc \in Nat /\ mc = M + mK + mk /\ mk \in Nat /\ mK \in Nat
          /\ mc = ab + aj + im /\ ab \in Nat /\ aj \in Nat /\ im \in Nat /\ vc = ab + mK
      BY <1>5, <2>3, <2>4, <2>5, <2>6
    <2> HIDE DEF mc, vc, hc, mK, mk, ab, aj, im
    <2> QED BY <1>1, <2>7
  <1>7. HasDigits(ReducedOnce(t)) /\ PartOf(ReducedOnce(t), NLimbs) = Once(v)
    <2>1. t \in Seq(Digit) /\ Len(t) = NLimbs + 2
      <3> HIDE DEF Digit
      <3> QED BY <1>1 DEF Row
    <2>2. Len(t) > NLimbs
      BY <1>1, <2>1
    <2>3. RowValue(t) \in 0..(2 * Modulus - 1)
      BY <1>1, <1>5, <1>6 DEF v, M
    <2> QED BY <2>1, <2>2, <2>3, ReducedIs DEF v
  <1>8. Mul(a, b) = Once(v)
    <2>1. Mul(a, b) = ValueOf(ReducedOnce(t))
      BY <1>4 DEF Mul, la, lb
    <2>2. HasInts(ReducedOnce(t))
      BY <1>1, <1>7 DEF HasDigits, HasInts, Digit
    <2> QED BY <1>7, <2>1, <2>2, LimbsValue
  <1>9. Once(v) = v % M /\ Once(v) \in 0..(M - 1)
    <2>1. v \in 0..(2 * Modulus - 1)
      BY <1>1, <1>5, <1>6 DEF M
    <2> QED BY <2>1, OnceIs DEF M
  <1>10. SameClass(Once(v) * C, v * C)
    <2> DEFINE o == Once(v)
    <2>1. v \in Int /\ C \in Int
      BY <1>1, <1>5
    <2>2. v % Modulus \in 0..(Modulus - 1) /\ SameClass(v % Modulus, v)
      BY <2>1, Classes
    <2>3. o \in Int /\ SameClass(o, v)
      BY <1>1, <1>9, <2>2 DEF M
    <2> HIDE DEF o
    <2>4. SameClass(o * C, v * C)
      BY <2>1, <2>3, ClassesTake
    <2> QED BY <2>4 DEF o
  <1>11. SameClass(v * C, a * b)
    <2>1. K \in Int /\ v * C = a * b + Modulus * K
      BY <1>5 DEF M
    <2> QED BY <2>1 DEF SameClass
  <1>12. SameClass(Once(v) * C, a * b)
    <2>1. Once(v) * C \in Int /\ v * C \in Int /\ a * b \in Int
      BY <1>1, <1>5, <1>9
    <2> QED BY <1>10, <1>11, <2>1, ClassesTake
  <1> QED BY <1>8, <1>9, <1>12 DEF C, M

\* The form in which an element is kept.
Form(x) == (x * Capacity) % Modulus

LEMMA FormIs ==
  ASSUME LimbsAssumption, NEW x \in Int
  PROVE  /\ Form(x) \in 0..(Modulus - 1) /\ Form(x) \in 0..(Capacity - 1) /\ Form(x) \in Int
         /\ SameClass(Form(x), x * Capacity) /\ x * Capacity \in Int
         /\ Capacity \in Nat \ {0} /\ Modulus \in Nat \ {0} /\ Modulus < Capacity
  <1>1. Capacity \in Nat \ {0} /\ Modulus \in Nat \ {0} /\ Modulus < Capacity
    <2>1. Capacity \in Nat \ {0}
      BY WeightsAre DEF Capacity, LimbsAssumption
    <2> QED BY <2>1 DEF LimbsAssumption
  <1> DEFINE z == x * Capacity
  <1>2. z \in Int
    BY <1>1
  <1> HIDE DEF z
  <1>3. z % Modulus \in 0..(Modulus - 1) /\ SameClass(z % Modulus, z)
    BY <1>2, Classes
  <1> DEFINE r == z % Modulus
  <1>4. r \in 0..(Modulus - 1) /\ Form(x) = r
    BY <1>3 DEF Form, z
  <1> HIDE DEF r
  <1>5. Form(x) \in 0..(Capacity - 1) /\ Form(x) \in Int
    BY <1>1, <1>4
  <1> QED BY <1>1, <1>2, <1>3, <1>4, <1>5 DEF r, z

\* A sum of forms is the form of the sum.
LEMMA SameForm ==
  ASSUME LimbsAssumption, NEW x \in Int, NEW y \in Int, SameClass(y, x * Capacity)
  PROVE  y % Modulus = Form(x)
  BY FormIs, Classes DEF Form

\* fp_add, fp_sub and fp_mul, and those of Fr, make of the Montgomery forms of any two numbers
\* the form of their sum, difference and product: no carry or borrow is lost, and one subtraction
\* of the modulus is enough.
THEOREM ArithmeticOfForms ==
  ASSUME LimbsAssumption, NEW x \in Int, NEW y \in Int
  PROVE  /\ Add(Form(x), Form(y)) = Form(x + y)
         /\ Sub(Form(x), Form(y)) = Form(x - y)
         /\ Mul(Form(x), Form(y)) = Form(x * y)
  <1> DEFINE C == Capacity
             fx == Form(x)
             fy == Form(y)
  <1>1. /\ fx \in 0..(Modulus - 1) /\ fx \in 0..(C - 1) /\ fx \in Int /\ SameClass(fx, x * C) /\ x * C \in Int
        /\ fy \in 0..(Modulus - 1) /\ fy \in Int /\ SameClass(fy, y * C) /\ y * C \in Int
        /\ C \in Nat \ {0} /\ Modulus \in Nat \ {0}
    BY FormIs
  <1> HIDE DEF fx, fy, C
  <1>2. PICK i \in Int, j \in Int : fx = x * C + Modulus * i /\ fy = y * C + Modulus * j
    BY <1>1 DEF SameClass
  <1>3. Add(fx, fy) = Form(x + y)
    <2>1. (fx + fy) = (x + y) * C + Modulus * (i + j) /\ i + j \in Int
      BY <1>1, <1>2
    <2>2. SameClass(fx + fy, (x + y) * C)
      BY <2>1 DEF SameClass
    <2>3. fx + fy \in Int /\ x + y \in Int
      BY <1>1
    <2>4. (fx + fy) % Modulus = Form(x + y)
      BY <2>2, <2>3, SameForm DEF C
    <2> QED BY <1>1, <2>4, AddLeaves
  <1>4. Sub(fx, fy) = Form(x - y)
    <2>1. (fx - fy) = (x - y) * C + Modulus * (i - j) /\ i - j \in Int
      BY <1>1, <1>2
    <2>2. SameClass(fx - fy, (x - y) * C)
      BY <2>1 DEF SameClass
    <2>3. fx - fy \in Int /\ x - y \in Int
      BY <1>1
    <2>4. (fx - fy) % Modulus = Form(x - y)
      BY <2>2, <2>3, SameForm DEF C
    <2> QED BY <1>1, <2>4, SubLeaves
  <1>5. Mul(fx, fy) = Form(x * y)
    <2> DEFINE m == Mul(fx, fy)
    <2>1. m \in 0..(Modulus - 1) /\ SameClass(m * C, fx * fy)
      BY <1>1, MulLeaves DEF C
    <2>2. m \in Int
      BY <1>1, <2>1
    <2> HIDE DEF m
    <2> DEFINE z == (x * y) * C
    <2>3. SameClass(fx * fy, (x * C) * fy) /\ SameClass((x * C) * fy, (x * C) * (y * C))
      BY <1>1, ClassesTake
    <2>4. (x * C) * (y * C) = z * C /\ z \in Int /\ x * y \in Int
      BY <1>1
    <2>5. /\ m * C \in Int /\ fx * fy \in Int /\ (x * C) * fy \in Int /\ (x * C) * (y * C) \in Int
          /\ z * C \in Int
      BY <1>1, <2>2, <2>4
    <2> HIDE DEF z
    <2>6. SameClass(m * C, (x * C) * fy)
      BY <2>1, <2>3, <2>5, ClassesTake
    <2>7. SameClass(m * C, (x * C) * (y * C))
      BY <2>3, <2>5, <2>6, ClassesTake
    <2>8. SameClass(m * C, z * C)
      BY <2>4, <2>7
    <2>9. m = z % Modulus
      BY <2>1, <2>4, <2>8, Cancels DEF C
    <2> QED BY <2>9 DEF z, m, Form, C
  <1> QED BY <1>3, <1>4, <1>5 DEF fx, fy

\* fr_from_canonical makes of any words, of a reduced number or not, the form of the number they
\* are, and fr_to_canonical makes of that the residue.
THEOREM FormsAreConverted ==
  ASSUME LimbsAssumption, NEW x \in 0..(Capacity - 1)
  PROVE  FromCanonical(x) = Form(x) /\ ToCanonical(FromCanonical(x)) = x % Modulus
  <1> DEFINE C == Capacity
             one == One
             sq == Squared
             f == FromCanonical(x)
             r == ToCanonical(f)
  <1>1. C \in Nat \ {0} /\ Modulus \in Nat \ {0} /\ Modulus > 2 /\ x \in Int /\ Modulus < C
    <2>1. Capacity \in Nat \ {0}
      BY WeightsAre DEF Capacity, LimbsAssumption
    <2> QED BY <2>1 DEF LimbsAssumption
  <1>2. one \in 0..(Modulus - 1) /\ one \in Int /\ SameClass(one, C)
    <2>1. C \in Int
      BY <1>1
    <2>2. C % Modulus \in 0..(Modulus - 1) /\ SameClass(C % Modulus, C)
      BY <2>1, Classes
    <2> QED BY <1>1, <2>2 DEF One
  <1> HIDE DEF one
  <1>3. sq \in 0..(Modulus - 1) /\ sq \in Int /\ SameClass(sq, one * one) /\ one * one \in Int
    <2> DEFINE z == one * one
    <2>1. z \in Int
      BY <1>2
    <2> HIDE DEF z
    <2>2. z % Modulus \in 0..(Modulus - 1) /\ SameClass(z % Modulus, z)
      BY <2>1, Classes
    <2>3. sq = z % Modulus
      BY DEF Squared, z, one
    <2> HIDE DEF sq
    <2>4. sq \in 0..(Modulus - 1) /\ SameClass(sq, z)
      BY <2>2, <2>3
    <2>5. sq \in Int
      BY <1>1, <2>4
    <2> QED BY <2>1, <2>4, <2>5 DEF z
  <1>4. f \in 0..(Modulus - 1) /\ SameClass(f * C, x * sq)
    BY <1>3, MulLeaves DEF FromCanonical
  <1> HIDE DEF sq, f, C
  <1>5. f \in Int /\ f \in 0..(C - 1)
    BY <1>1, <1>4
  <1>6. SameClass(x * sq, (x * C) * C)
    <2>1. SameClass(one * one, C * one) /\ SameClass(C * one, C * C)
      <3>1. C \in Int
        BY <1>1
      <3> QED BY <1>2, <3>1, ClassesTake
    <2>2. C * one \in Int /\ C * C \in Int
      BY <1>1, <1>2
    <2>3. SameClass(sq, C * one)
      BY <1>3, <2>1, <2>2, ClassesTake
    <2>4. SameClass(sq, C * C)
      BY <1>3, <2>1, <2>2, <2>3, ClassesTake
    <2>5. SameClass(x * sq, x * (C * C))
      BY <1>1, <1>3, <2>2, <2>4, ClassesTake
    <2>6. x * (C * C) = (x * C) * C
      BY <1>1
    <2> QED BY <2>5, <2>6
  <1>7. f = Form(x)
    <2>1. f * C \in Int /\ x * sq \in Int /\ (x * C) * C \in Int /\ x * C \in Int
      BY <1>1, <1>3, <1>5
    <2>2. SameClass(f * C, (x * C) * C)
      BY <1>4, <1>6, <2>1, ClassesTake
    <2> DEFINE z == x * C
    <2>3. z \in Int /\ SameClass(f * C, z * C)
      BY <2>1, <2>2
    <2> HIDE DEF z
    <2>4. f = z % Modulus
      BY <1>4, <2>3, Cancels DEF C
    <2> QED BY <2>4 DEF z, Form, C
  <1>8. r = x % Modulus
    <2> DEFINE one1 == 1
    <2>1. one1 \in 0..(Modulus - 1) /\ one1 \in Int /\ f * one1 = f
      BY <1>1, <1>5
    <2>2. r = Mul(f, one1)
      BY DEF ToCanonical
    <2> HIDE DEF one1, r
    <2>3. r \in 0..(Modulus - 1) /\ SameClass(r * C, f * one1)
      BY <1>5, <2>1, <2>2, MulLeaves DEF C
    <2>4. r \in Int /\ r * C \in Int /\ x * C \in Int
      BY <1>1, <2>3
    <2>5. SameClass(f, x * C)
      BY <1>1, <1>7, FormIs DEF C
    <2>6. SameClass(r * C, x * C)
      BY <1>5, <2>1, <2>3, <2>4, <2>5, ClassesTake
    <2> QED BY <1>1, <2>3, <2>6, Cancels DEF C
  <1> QED BY <1>7, <1>8 DEF f, r
=============================================================================
