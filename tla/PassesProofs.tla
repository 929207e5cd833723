---------------------------- MODULE PassesProofs ----------------------------
(***************************************************************************)
(* Theorems about Passes, for any field, curve, sizes, tables and calls:   *)
(* what a batch to prove is told of its blobs, what the buffers hold, and  *)
(* that a recovery returns the cells of its blobs.                         *)
(*                                                                         *)
(* The error word is cleared when a batch is staged and set by the first   *)
(* dispatch alone, which reads the blobs before anything else could have   *)
(* written them, since every dispatch waits for those before it.           *)
(*                                                                         *)
(* A recovery is 22 dispatches. What each makes of a blob is a function of *)
(* the words and of the missing cells that were staged for it (Made); it   *)
(* stays where it is until its last reader has ended (InPlace), and the    *)
(* tables are what the setup made of them. That the last one makes the     *)
(* cells of the blob's polynomial is algebra (RecoversCells), on the       *)
(* lemmas of DomainProofs about transforms and polynomials.                *)
(***************************************************************************)
EXTENDS Passes, DomainProofs

-----------------------------------------------------------------------------
(* The commands of a proof computation *)

LaterModes == {"", LadderChunks, ProofChunks}
              \cup {[log1 |-> LogM1, log2 |-> LogDomain - 1 - LogM1, scale |-> FrInv(BlobSize % P)]}

LaterKernels == {"ntt1", "ntt2", "build_circulant", "phase_a_sort", "phase_a", "bucket_reduce",
                 "ladder", "fold_ladder", "normalize", "phase_b_split", "combine_split",
                 "compress_proofs"}

\* All but the first: they leave the blobs and the error word alone.
LaterDispatch == [kernel : LaterKernels, out : ProofBuffers \ {"bufBlob", "bufErr"},
                  a : ProofBuffers, b : SetupTables \cup {""}, mode : LaterModes]

FirstDispatch == [kernel |-> "blob_to_fr", out |-> "bufLagrange", a |-> "bufBlob",
                  b |-> "", mode |-> ""]

\* Commands that begin with the conversion of the blobs, and have it once.
BeginWithBlobs(s) ==
  /\ s \in Seq({FirstDispatch} \cup LaterDispatch)
  /\ Len(s) > 0
  /\ s[1] = FirstDispatch
  /\ \A i \in 2..Len(s) : s[i] \in LaterDispatch

\* More dispatches may follow.
LEMMA Extended ==
  ASSUME NEW s, NEW t, BeginWithBlobs(s), t \in Seq(LaterDispatch)
  PROVE  BeginWithBlobs(s \o t)
  <1> DEFINE S == {FirstDispatch} \cup LaterDispatch
  <1>1. s \in Seq(S) /\ t \in Seq(S)
    BY DEF BeginWithBlobs
  <1>2. s \o t \in Seq(S) /\ Len(s \o t) = Len(s) + Len(t) /\ Len(s) \in Nat /\ Len(t) \in Nat
    BY <1>1
  <1>3. (s \o t)[1] = FirstDispatch
    BY <1>1, <1>2 DEF BeginWithBlobs
  <1>4. ASSUME NEW i \in 2..Len(s \o t) PROVE (s \o t)[i] \in LaterDispatch
    <2>1. CASE i <= Len(s)
      BY <2>1, <1>1, <1>2, <1>4 DEF BeginWithBlobs
    <2>2. CASE i > Len(s)
      <3>1. (s \o t)[i] = t[i - Len(s)] /\ i - Len(s) \in 1..Len(t)
        BY <2>2, <1>1, <1>2, <1>4
      <3> QED BY <3>1
    <2> QED BY <2>1, <2>2, <1>2
  <1> QED BY <1>2, <1>3, <1>4 DEF BeginWithBlobs

\* The sequence of one element.
LEMMA Singleton == ASSUME NEW S, NEW x \in S PROVE <<x>> \in Seq(S)
  OBVIOUS

\* A dispatch after the first.
LEMMA OneDispatch ==
  ASSUME NEW kernel \in LaterKernels, NEW out \in ProofBuffers \ {"bufBlob", "bufErr"},
         NEW a \in ProofBuffers, NEW b \in SetupTables \cup {""}, NEW mode \in LaterModes
  PROVE  Dispatch(kernel, out, a, b, mode) \in Seq(LaterDispatch)
  <1> DEFINE d == [kernel |-> kernel, out |-> out, a |-> a, b |-> b, mode |-> mode]
  <1>1. d \in LaterDispatch
    BY DEF LaterDispatch
  <1>2. Dispatch(kernel, out, a, b, mode) = <<d>>
    BY DEF Dispatch
  <1> HIDE DEF d
  <1> QED BY <1>1, <1>2, Singleton

\* What computeBatch records.
LEMMA ProofCommandsBegin == BeginWithBlobs(ProofCommands)
  <1> DEFINE
    mode == [log1 |-> LogM1, log2 |-> LogDomain - 1 - LogM1, scale |-> FrInv(BlobSize % P)]
    d1 == Dispatch("blob_to_fr", "bufLagrange", "bufBlob", "", "")
    d2 == Dispatch("ntt1", "bufWorkA", "bufLagrange", "bufRootsInv", mode)
    d3 == Dispatch("ntt2", "bufPolyExt", "bufWorkA", "bufRootsInv", mode)
    d4 == Dispatch("build_circulant", "bufCoeffs", "bufPolyExt", "bufRootsFwd", "")
    d5 == Dispatch("phase_a_sort", "bufItems", "bufCoeffs", "", "")
    d6 == Dispatch("phase_a", "bufBuckets", "bufItems", "bufTable", "")
    d7 == Dispatch("bucket_reduce", "bufPoints", "bufBuckets", "", "")
    d8 == Dispatch("ladder", "bufLadderJac", "bufPoints", "", "")
    d9 == Dispatch("fold_ladder", "bufLadderJacFolded", "bufLadderJac", "", "")
    d10 == Dispatch("normalize", "bufLadderAff", "bufLadderJacFolded", "", LadderChunks)
    d11 == Dispatch("phase_b_split", "bufBuckets", "bufLadderAff", "", "")
    d12 == Dispatch("combine_split", "bufProofs", "bufPoints", "", "")
    d13 == Dispatch("normalize", "bufProofsAff", "bufProofs", "", ProofChunks)
    d14 == Dispatch("compress_proofs", "bufProofBytes", "bufProofsAff", "", "")
  <1>1. ProofCommands = d1 \o (d2 \o d3) \o d4 \o d5 \o d6 \o d7 \o d8 \o d9 \o d10 \o d11
                           \o d7 \o d12 \o d13 \o d14
    BY DEF ProofCommands, Ntt
  <1>2. mode \in LaterModes
    BY DEF LaterModes
  <1>3. d2 \in Seq(LaterDispatch) /\ d3 \in Seq(LaterDispatch)
    <2> HIDE DEF mode
    <2> QED BY <1>2, OneDispatch DEF LaterKernels, ProofBuffers, SetupTables
  <1>4. "" \in LaterModes /\ LadderChunks \in LaterModes /\ ProofChunks \in LaterModes
    BY DEF LaterModes
  <1>5. d4 \in Seq(LaterDispatch) /\ d5 \in Seq(LaterDispatch) /\ d6 \in Seq(LaterDispatch)
    BY <1>4, OneDispatch DEF LaterKernels, ProofBuffers, SetupTables
  <1>6. d7 \in Seq(LaterDispatch) /\ d8 \in Seq(LaterDispatch) /\ d9 \in Seq(LaterDispatch)
    BY <1>4, OneDispatch DEF LaterKernels, ProofBuffers, SetupTables
  <1>7. d10 \in Seq(LaterDispatch) /\ d11 \in Seq(LaterDispatch) /\ d12 \in Seq(LaterDispatch)
    BY <1>4, OneDispatch DEF LaterKernels, ProofBuffers, SetupTables
  <1>8. d13 \in Seq(LaterDispatch) /\ d14 \in Seq(LaterDispatch)
    BY <1>4, OneDispatch DEF LaterKernels, ProofBuffers, SetupTables
  <1>9. BeginWithBlobs(d1)
    BY DEF BeginWithBlobs, Dispatch, FirstDispatch
  <1>10. d2 \o d3 \in Seq(LaterDispatch)
    <2> HIDE DEF d2, d3
    <2> QED BY <1>3
  <1> HIDE DEF d1, d2, d3, d4, d5, d6, d7, d8, d9, d10, d11, d12, d13, d14
  <1>11. BeginWithBlobs(d1 \o (d2 \o d3) \o d4 \o d5 \o d6)
    BY <1>9, <1>10, <1>5, Extended
  <1>12. BeginWithBlobs(d1 \o (d2 \o d3) \o d4 \o d5 \o d6 \o d7 \o d8 \o d9)
    BY <1>11, <1>6, Extended
  <1>13. BeginWithBlobs(d1 \o (d2 \o d3) \o d4 \o d5 \o d6 \o d7 \o d8 \o d9 \o d10 \o d11
                           \o d7 \o d12)
    BY <1>12, <1>6, <1>7, Extended
  <1>14. BeginWithBlobs(d1 \o (d2 \o d3) \o d4 \o d5 \o d6 \o d7 \o d8 \o d9 \o d10 \o d11
                           \o d7 \o d12 \o d13 \o d14)
    BY <1>13, <1>8, Extended
  <1> QED BY <1>1, <1>14

-----------------------------------------------------------------------------
(* The inductive invariant *)

AllBuffers == ProofBuffers \cup RecoverBuffers \cup CosetTables \cup SetupTables

Where ==
  /\ calls \in Nat /\ begun \in Nat
  /\ call \in {SetupCall} \cup ProveBatch \cup RecoverBatch
  /\ call.kind = "prove" => Len(call.words) \in 1..MaxBatch /\ begun <= Len(ProofCommands)
  /\ DOMAIN buf = AllBuffers
  /\ \A x \in AllBuffers : DOMAIN buf[x] = Blobs

\* The barriers let one dispatch run at a time, the one that began last; what it is
\* about to store is made of the buffers as they are.
OneAtATime ==
  \A r \in running : begun > 0 /\ r = [at |-> begun, val |-> Stored(Recorded[begun])]

Canonical(b) == \A i \in BlobExponents : call.words[b][i] < P
AllCanonicalBlobs == \A b \in 1..BatchSize : Canonical(b)

\* The first dispatch has ended.
Judged == begun > 0 /\ ~(begun = 1 /\ running # {})

BlobsInPlace == \A b \in 0..(BatchSize - 1) : buf["bufBlob"][b] = call.words[b + 1]

ErrorWord == buf["bufErr"][0] = IF Judged /\ ~AllCanonicalBlobs THEN 1 ELSE 0

IInv == Where /\ OneAtATime /\ (call.kind = "prove" => BlobsInPlace /\ ErrorWord)

-----------------------------------------------------------------------------

\* The kinds tell the three sorts of calls apart.
LEMMA Kinds ==
  ASSUME Where
  PROVE  /\ call.kind \in {"setup", "prove", "recover"}
         /\ call.kind = "prove" => /\ call \in ProveBatch
                                   /\ Recorded = ProofCommands
                                   /\ BatchSize = Len(call.words) /\ BatchSize \in Nat
  BY DEF Where, SetupCall, ProveBatch, RecoverBatch, Recorded, BatchSize

\* The first dispatch and the others are told apart by their kernels.
LEMMA DispatchFields ==
  ASSUME NEW d \in {FirstDispatch} \cup LaterDispatch
  PROVE  /\ d.kernel # "pow_seq"
         /\ d.out \in ProofBuffers \ {"bufBlob", "bufErr"}
         /\ d.kernel = "blob_to_fr" <=> d = FirstDispatch
         /\ d = FirstDispatch => d.a = "bufBlob"
  <1>1. CASE d = FirstDispatch
    BY <1>1 DEF FirstDispatch, ProofBuffers
  <1>2. CASE d \in LaterDispatch
    <2>1. d.kernel \in LaterKernels /\ d.out \in ProofBuffers \ {"bufBlob", "bufErr"}
      BY <1>2 DEF LaterDispatch
    <2>2. d.kernel # "pow_seq" /\ d.kernel # "blob_to_fr"
      BY <2>1 DEF LaterKernels
    <2>3. FirstDispatch.kernel = "blob_to_fr"
      BY DEF FirstDispatch
    <2> QED BY <2>1, <2>2, <2>3, Zenon
  <1> QED BY <1>1, <1>2

\* What a dispatch of a proof computation stores to the two buffers the error word
\* depends on.
LEMMA StoredByProof ==
  ASSUME NEW d \in {FirstDispatch} \cup LaterDispatch, call.kind = "prove"
  PROVE  /\ "bufBlob" \notin DOMAIN Stored(d)
         /\ "bufErr" \in DOMAIN Stored(d) <=> Refuses(d)
         /\ Refuses(d) => Stored(d)["bufErr"] = [b \in {0} |-> 1]
         /\ Refuses(d) <=> /\ d = FirstDispatch
                           /\ \E b \in 0..(BatchSize - 1) : ~AllCanonical(buf["bufBlob"][b])
  <1>1. d.kernel # "pow_seq" /\ d.out \notin {"bufBlob", "bufErr"}
    BY DispatchFields, Zenon
  <1>2. DOMAIN Stored(d) = {d.out} \cup (IF Refuses(d) THEN {"bufErr"} ELSE {})
    BY <1>1, Zenon DEF Stored
  <1>3. Refuses(d) => Stored(d)["bufErr"] = [b \in {0} |-> 1]
    BY <1>1 DEF Stored
  <1>4. Refuses(d) <=> /\ d = FirstDispatch
                       /\ \E b \in 0..(BatchSize - 1) : ~AllCanonical(buf["bufBlob"][b])
    BY DispatchFields, Zenon DEF Refuses
  <1> QED BY <1>1, <1>2, <1>3, <1>4

-----------------------------------------------------------------------------
(* The steps *)

\* The blobs that are in place are canonical if those of the call are.
LEMMA JudgedRightly ==
  ASSUME BlobsInPlace, BatchSize \in Nat
  PROVE  AllCanonicalBlobs <=> ~\E b \in 0..(BatchSize - 1) : ~AllCanonical(buf["bufBlob"][b])
  <1>1. \A b \in 0..(BatchSize - 1) : AllCanonical(buf["bufBlob"][b]) <=> Canonical(b + 1)
    BY DEF BlobsInPlace, AllCanonical, Canonical, Fr!IsCanonical
  <1>2. ASSUME NEW b \in 1..BatchSize
        PROVE  b - 1 \in 0..(BatchSize - 1) /\ (b - 1) + 1 = b
    OBVIOUS
  <1>3. \A b \in 0..(BatchSize - 1) : b + 1 \in 1..BatchSize
    OBVIOUS
  <1> QED BY <1>1, <1>2, <1>3 DEF AllCanonicalBlobs

\* What overwriting does to one buffer's value for one blob.
LEMMA OverwrittenAt ==
  ASSUME Where, NEW values, NEW x \in AllBuffers, NEW b \in Blobs
  PROVE  Overwritten(values)[x][b] =
           IF x \in DOMAIN values /\ b \in DOMAIN values[x] THEN values[x][b] ELSE buf[x][b]
  BY Zenon DEF Overwritten, Where

\* It leaves the shape of the buffers.
LEMMA OverwrittenShape ==
  ASSUME Where, NEW values
  PROVE  /\ DOMAIN Overwritten(values) = AllBuffers
         /\ \A x \in AllBuffers : DOMAIN Overwritten(values)[x] = Blobs
  BY Zenon DEF Overwritten, Where

\* The blobs and the error word are buffers, and there is a first blob.
LEMMA BufferNames ==
  /\ "bufBlob" \in AllBuffers /\ "bufErr" \in AllBuffers
  /\ 0 \in Blobs
  /\ \A n \in 1..MaxBatch : 0..(n - 1) \subseteq Blobs
  BY PassesAssumption DEF AllBuffers, ProofBuffers, Blobs

\* A batch is staged.
LEMMA CallSteps == ASSUME IInv, Call PROVE IInv'
  <1> USE DEF IInv
  <1>1. PICK c \in Calls[calls + 1] : call' = c
    BY DEF Call
  <1>2. /\ c \in ProveBatch \cup RecoverBatch
        /\ c.kind = "prove" => Len(c.words) \in 1..MaxBatch
    <2>1. calls + 1 \in DOMAIN Calls
      BY PassesAssumption DEF Where, Call
    <2> QED BY <2>1, PassesAssumption
  <1>3. running' = {} /\ begun' = 0 /\ calls' \in Nat
    BY DEF Call, Complete, Where
  <1>4. buf' = Overwritten(Staged(c))
    BY <1>1 DEF Call
  <1>5. Where'
    <2>1. DOMAIN buf' = AllBuffers /\ \A x \in AllBuffers : DOMAIN (buf'[x]) = Blobs
      BY <1>4, OverwrittenShape
    <2>2. Len(ProofCommands) \in Nat
      BY ProofCommandsBegin DEF BeginWithBlobs
    <2> QED BY <1>1, <1>2, <1>3, <2>1, <2>2 DEF Where
  <1>6. OneAtATime'
    BY <1>3 DEF OneAtATime
  <1>7. ASSUME c.kind = "prove" PROVE (BlobsInPlace /\ ErrorWord)'
    <2> DEFINE n == Len(c.words)
    <2>1. BatchSize' = n /\ n \in 1..MaxBatch
      BY <1>1, <1>2, <1>7 DEF BatchSize
    <2>2. /\ DOMAIN Staged(c) = {"bufErr", "bufBlob"}
          /\ Staged(c)["bufErr"] = [b \in {0} |-> 0]
          /\ Staged(c)["bufBlob"] = [b \in 0..(n - 1) |-> c.words[b + 1]]
      BY <1>7 DEF Staged
    <2>3. buf'["bufErr"][0] = 0
      BY <1>4, <2>2, OverwrittenAt, BufferNames
    <2>4. ASSUME NEW b \in 0..(n - 1) PROVE buf'["bufBlob"][b] = c.words[b + 1]
      <3>1. b \in Blobs
        BY <2>1, BufferNames
      <3> QED BY <1>4, <2>2, <3>1, OverwrittenAt, BufferNames
    <2>5. BlobsInPlace'
      BY <2>1, <2>4, <1>1 DEF BlobsInPlace
    <2>6. ~Judged'
      BY <1>3 DEF Judged
    <2> QED BY <2>3, <2>5, <2>6 DEF ErrorWord
  <1> QED BY <1>1, <1>5, <1>6, <1>7

\* A dispatch begins, alone.
LEMMA BeginSteps == ASSUME IInv, Begin PROVE IInv'
  <1> USE DEF IInv
  <1>1. running = {} /\ begun' = begun + 1 /\ UNCHANGED <<calls, call, buf>>
    BY DEF Begin, Separated
  <1>2. running' = {[at |-> begun + 1, val |-> Stored(Recorded[begun + 1])]}
    BY <1>1 DEF Begin
  <1>3. Where'
    <2>1. call.kind = "prove" => begun' <= Len(ProofCommands)
      <3>1. begun < Len(Recorded)
        BY DEF Begin
      <3>2. Len(ProofCommands) \in Nat /\ begun \in Nat
        BY ProofCommandsBegin DEF BeginWithBlobs, Where
      <3> QED BY <1>1, <3>1, <3>2, Kinds
    <2> QED BY <1>1, <2>1 DEF Where
  <1>4. OneAtATime'
    <2>1. Recorded' = Recorded
      BY <1>1 DEF Recorded
    <2>2. \A d : Stored(d)' = Stored(d)
      BY <1>1 DEF Stored, Refuses, Kernel, BatchSize
    <2>3. \A r \in running' : begun' > 0 /\ r = [at |-> begun', val |-> Stored(Recorded[begun'])]
      BY <1>1, <1>2 DEF Where
    <2> QED BY <2>1, <2>2, <2>3 DEF OneAtATime
  <1>5. ASSUME call.kind = "prove" PROVE (BlobsInPlace /\ ErrorWord)'
    <2>1. BlobsInPlace'
      BY <1>1, <1>5 DEF BlobsInPlace, BatchSize
    <2>2. Judged' <=> Judged
      BY <1>1, <1>2 DEF Judged, Where
    <2>3. AllCanonicalBlobs' <=> AllCanonicalBlobs
      BY <1>1 DEF AllCanonicalBlobs, Canonical, BatchSize
    <2>4. buf'["bufErr"][0] = buf["bufErr"][0]
      BY <1>1
    <2> QED BY <1>5, <2>1, <2>2, <2>3, <2>4, Zenon DEF ErrorWord
  <1> QED BY <1>1, <1>3, <1>4, <1>5

\* The dispatch that runs ends. Only the first one of a proof computation touches the
\* error word, and none the blobs.
LEMMA EndSteps == ASSUME IInv, End PROVE IInv'
  <1> USE DEF IInv
  <1>1. PICK r \in running : buf' = Overwritten(r.val) /\ running' = running \ {r}
                             /\ UNCHANGED <<calls, call, begun>>
    BY DEF End
  <1>2. begun > 0 /\ r = [at |-> begun, val |-> Stored(Recorded[begun])]
    BY DEF OneAtATime
  <1>3. running' = {} /\ running # {}
    BY <1>1, <1>2 DEF OneAtATime
  <1>4. Where'
    <2>1. DOMAIN buf' = AllBuffers /\ \A x \in AllBuffers : DOMAIN (buf'[x]) = Blobs
      BY <1>1, OverwrittenShape
    <2> QED BY <1>1, <2>1 DEF Where
  <1>5. OneAtATime'
    BY <1>3 DEF OneAtATime
  <1>6. ASSUME call.kind = "prove" PROVE (BlobsInPlace /\ ErrorWord)'
    <2> DEFINE d == Recorded[begun]
               n == BatchSize
    <2>1. Recorded = ProofCommands /\ n = Len(call.words) /\ n \in 1..MaxBatch
      BY <1>6, Kinds DEF Where
    <2>2. r.val = Stored(d)
      BY <1>2
    <2>3. d \in {FirstDispatch} \cup LaterDispatch /\ (d = FirstDispatch <=> begun = 1)
      <3>1. begun \in 1..Len(ProofCommands)
        BY <1>2, <1>6 DEF Where
      <3>2. CASE begun = 1
        BY <2>1, <3>2, ProofCommandsBegin DEF BeginWithBlobs
      <3>3. CASE begun # 1
        <4>1. d \in LaterDispatch
          BY <2>1, <3>1, <3>3, ProofCommandsBegin DEF BeginWithBlobs
        <4>2. FirstDispatch \notin LaterDispatch
          BY DEF FirstDispatch, LaterDispatch, LaterKernels
        <4> QED BY <3>3, <4>1, <4>2
      <3> QED BY <3>2, <3>3
    <2> HIDE DEF d
    <2>4. ASSUME NEW b \in 0..(n - 1) PROVE buf'["bufBlob"][b] = buf["bufBlob"][b]
      <3>1. b \in Blobs /\ "bufBlob" \notin DOMAIN r.val
        BY <1>6, <2>1, <2>2, <2>3, BufferNames, StoredByProof
      <3> QED BY <1>1, <3>1, OverwrittenAt, BufferNames
    <2>5. BlobsInPlace' /\ n' = n
      BY <1>1, <1>6, <2>4 DEF BlobsInPlace, BatchSize
    <2>6. Judged'
      BY <1>1, <1>2, <1>3 DEF Judged
    <2>7. Judged <=> begun # 1
      BY <1>2, <1>3 DEF Judged
    <2>8. AllCanonicalBlobs' <=> AllCanonicalBlobs
      BY <1>1 DEF AllCanonicalBlobs, Canonical, BatchSize
    <2>9. Refuses(d) <=> begun = 1 /\ ~AllCanonicalBlobs
      BY <1>6, <2>1, <2>3, StoredByProof, JudgedRightly
    <2>10. buf'["bufErr"][0] = IF Refuses(d) THEN 1 ELSE buf["bufErr"][0]
      <3>1. CASE Refuses(d)
        <4>1. "bufErr" \in DOMAIN r.val /\ r.val["bufErr"] = [b \in {0} |-> 1]
          BY <1>6, <2>2, <2>3, <3>1, StoredByProof
        <4> QED BY <1>1, <3>1, <4>1, OverwrittenAt, BufferNames
      <3>2. CASE ~Refuses(d)
        <4>1. "bufErr" \notin DOMAIN r.val
          BY <1>6, <2>2, <2>3, <3>2, StoredByProof
        <4> QED BY <1>1, <3>2, <4>1, OverwrittenAt, BufferNames
      <3> QED BY <3>1, <3>2
    <2>11. ErrorWord'
      BY <1>6, <2>6, <2>7, <2>8, <2>9, <2>10 DEF ErrorWord
    <2> QED BY <2>5, <2>11
  <1> QED BY <1>1, <1>4, <1>5, <1>6

-----------------------------------------------------------------------------
(* The theorem *)

\* When the prover is made, only the coset's tables are computed.
LEMMA InitIInv == Init => IInv
  <1> SUFFICES ASSUME Init PROVE IInv
    OBVIOUS
  <1>1. calls = 0 /\ begun = 0 /\ running = {} /\ call = SetupCall
    BY DEF Init
  <1>2. call.kind = "setup"
    BY <1>1 DEF SetupCall
  <1>3. DOMAIN buf = AllBuffers /\ \A x \in AllBuffers : DOMAIN buf[x] = Blobs
    BY DEF Init, AllBuffers
  <1> QED BY <1>1, <1>2, <1>3 DEF IInv, Where, OneAtATime

\* IInv is inductive.
LEMMA Inductive == IInv /\ [Next]_vars => IInv'
  <1> SUFFICES ASSUME IInv, [Next]_vars PROVE IInv'
    OBVIOUS
  <1>1. CASE Call
    BY <1>1, CallSteps
  <1>2. CASE Begin
    BY <1>2, BeginSteps
  <1>3. CASE End
    BY <1>3, EndSteps
  <1>4. CASE UNCHANGED vars
    <2>1. UNCHANGED <<calls, call, buf, begun, running>>
      BY <1>4 DEF vars
    <2>2. Where' /\ (call'.kind = call.kind)
      BY <2>1 DEF IInv, Where
    <2>3. OneAtATime'
      <3>1. Recorded' = Recorded
        BY <2>1 DEF Recorded
      <3>2. \A d : Stored(d)' = Stored(d)
        BY <2>1 DEF Stored, Refuses, Kernel, BatchSize
      <3> QED BY <2>1, <3>1, <3>2 DEF IInv, OneAtATime
    <2>4. BlobsInPlace' <=> BlobsInPlace
      BY <2>1 DEF BlobsInPlace, BatchSize
    <2>5. ErrorWord' <=> ErrorWord
      BY <2>1 DEF ErrorWord, Judged, AllCanonicalBlobs, Canonical, BatchSize
    <2> QED BY <2>2, <2>3, <2>4, <2>5 DEF IInv
  <1> QED BY <1>1, <1>2, <1>3, <1>4 DEF Next

\* RefusedIffNotCanonical: a batch is refused for a word of its own that is not
\* below the order, in whichever of its blobs, and for nothing else: not for a word
\* of an earlier batch, nor for anything a later dispatch stores (k_blob_to_fr.comp,
\* computeBatch).
THEOREM RefusedForItsOwnWords == Spec => []RefusedIffNotCanonical
  <1>1. IInv => RefusedIffNotCanonical
    <2> SUFFICES ASSUME IInv, Complete, call.kind = "prove"
                 PROVE  buf["bufErr"][0] = 0 <=> AllCanonicalBlobs
      BY DEF RefusedIffNotCanonical, AllCanonicalBlobs, Canonical
    <2>1. running = {} /\ begun > 0
      BY Kinds, ProofCommandsBegin DEF IInv, Where, Complete, BeginWithBlobs
    <2>2. Judged
      BY <2>1 DEF Judged
    <2> QED BY <2>2 DEF IInv, ErrorWord
  <1> QED BY <1>1, InitIInv, Inductive, PTL DEF Spec

-----------------------------------------------------------------------------
(* What a recovery computes, dispatch by dispatch *)

\* The two passes of recoverNtt.
Before(R, x) ==
  PassOf(Pass1(2 ^ LogN1 * 2 ^ (LogDomain - LogN1), 2 ^ LogN1, 2 ^ (LogDomain - LogN1)), R, 1, x)
After(R, x) ==
  PassOf(Pass2(2 ^ LogN1 * 2 ^ (LogDomain - LogN1), 2 ^ LogN1, 2 ^ (LogDomain - LogN1)), R, 1, x)
Transform(R, x) == After(R, Before(R, x))

Rescaled(x) == EwMul(x, [i \in Exponents |-> FrInv(DomainSize % P)])

\* The values, by the buffer they go to, for words w and missing cells m.
ZCoeff(m) == Spread(Short(m))
ZEval(m) == Transform(RootsFwd, ZCoeff(m))
EZEval(w, m) == EwMul(CellsToFr(w), ZEval(m))
EZCoeffU(w, m) == Transform(RootsInv, EZEval(w, m))
EZCoeff(w, m) == Rescaled(EZCoeffU(w, m))
ShiftedA(w, m) == EwMul(EZCoeff(w, m), PowSeq(0))
CosetA(w, m) == Transform(RootsFwd, ShiftedA(w, m))
ShiftedB(m) == EwMul(ZCoeff(m), PowSeq(0))
CosetB(m) == Transform(RootsFwd, ShiftedB(m))
PCoset(w, m) == EwDiv(CosetA(w, m), CosetB(m))
PCoeffU(w, m) == Transform(RootsInv, PCoset(w, m))
PCoeffS(w, m) == Rescaled(PCoeffU(w, m))
PCoeff(w, m) == EwMul(PCoeffS(w, m), PowSeq(1))
PFull(w, m) == Transform(RootsFwd, PCoeff(w, m))
Out(w, m) == FrToCells(PFull(w, m))

\* The coset's factor.
LEMMA ShiftIs ==
  /\ Shift \in Field /\ FrInv(Shift) \in Field /\ FrMul(Shift, FrInv(Shift)) = 1
  /\ FrPow(Shift, DomainSize) # 1
  <1>1. Shift \in Field /\ Shift # 0
    BY RecoveryAssumption, PrimeIs DEF Field
  <1> QED BY <1>1, InverseIs, RecoveryAssumption

\* Two passes make a transform of the whole domain.
LEMMA TransformIs ==
  ASSUME NEW x \in [Exponents -> Field], NEW R \in RootTables
  PROVE  Transform(R, x) = Dft(x, R) /\ Transform(R, x) \in [Exponents -> Field]
  <1> DEFINE a == 2 ^ LogN1
             b == 2 ^ (LogDomain - LogN1)
  <1>1. LogN1 \in Nat /\ LogN1 <= LogDomain
    BY RecoveryAssumption, Sizes
  <1>2. a \in Nat \ {0} /\ b \in Nat \ {0} /\ DomainSize = a * b
    BY <1>1, PassSizes
  <1>3. Transform(R, x) = PassOf(Pass2(a * b, a, b), R, 1, PassOf(Pass1(a * b, a, b), R, 1, x))
    BY DEF Transform, Before, After
  <1> HIDE DEF a, b
  <1>4. Transform(R, x) = Dft(x, R)
    BY <1>2, <1>3, BothPasses
  <1>5. Dft(x, R) \in [Exponents -> Field]
    BY DftIn
  <1> QED BY <1>4, <1>5

\* Products element by element.
LEMMA EwIs ==
  ASSUME NEW x \in [Exponents -> Field], NEW y \in [Exponents -> Field]
  PROVE  /\ EwMul(x, y) \in [Exponents -> Field] /\ EwDiv(x, y) \in [Exponents -> Field]
         /\ \A i \in Exponents : /\ EwMul(x, y)[i] = FrMul(x[i], y[i])
                                 /\ EwDiv(x, y)[i] = FrMul(x[i], FrInv(y[i]))
                                 /\ x[i] \in Field /\ y[i] \in Field /\ FrInv(y[i]) \in Field
  <1>1. ASSUME NEW i \in Exponents
        PROVE  x[i] \in Field /\ y[i] \in Field /\ FrInv(y[i]) \in Field
               /\ FrMul(x[i], y[i]) \in Field /\ FrMul(x[i], FrInv(y[i])) \in Field
    <2>1. x[i] \in Field /\ y[i] \in Field
      OBVIOUS
    <2>2. FrInv(y[i]) \in Field
      BY <2>1, InverseIs
    <2> QED BY <2>1, <2>2, Closed
  <1>2. \A i \in Exponents : /\ EwMul(x, y)[i] = FrMul(x[i], y[i])
                             /\ EwDiv(x, y)[i] = FrMul(x[i], FrInv(y[i]))
    BY Zenon DEF EwMul, EwDiv
  <1>3. EwMul(x, y) \in [Exponents -> Field]
    BY <1>1, Zenon DEF EwMul
  <1>4. EwDiv(x, y) \in [Exponents -> Field]
    BY <1>1, Zenon DEF EwDiv
  <1> QED BY <1>1, <1>2, <1>3, <1>4, Zenon

\* The tables of the coset.
LEMMA PowSeqIs ==
  /\ PowSeq(0) \in [Exponents -> Field] /\ PowSeq(1) \in [Exponents -> Field]
  /\ \A i \in Exponents : /\ PowSeq(0)[i] = FrPow(Shift, i) /\ FrPow(Shift, i) \in Field
                          /\ PowSeq(1)[i] = FrPow(FrInv(Shift), i) /\ FrPow(FrInv(Shift), i) \in Field
                          /\ FrMul(FrPow(Shift, i), FrPow(FrInv(Shift), i)) = 1
  <1>1. ASSUME NEW i \in Exponents
        PROVE  FrPow(Shift, i) \in Field /\ FrPow(FrInv(Shift), i) \in Field
               /\ FrMul(FrPow(Shift, i), FrPow(FrInv(Shift), i)) = 1
    <2>1. i \in Nat
      BY Sizes DEF Exponents
    <2>2. FrPow(Shift, i) \in Field /\ FrPow(FrInv(Shift), i) \in Field
      BY <2>1, ShiftIs, PowNext
    <2>3. FrPow(1, i) = 1 /\ FrPow(FrMul(Shift, FrInv(Shift)), i)
                               = FrMul(FrPow(Shift, i), FrPow(FrInv(Shift), i))
      BY <2>1, ShiftIs, PowsOf
    <2> QED BY <2>2, <2>3, ShiftIs
  <1>2. PowSeq(0) = [i \in Exponents |-> FrPow(Shift, i)]
    BY DEF PowSeq
  <1>3. PowSeq(1) = [i \in Exponents |-> FrPow(FrInv(Shift), i)]
    BY DEF PowSeq
  <1>4. PowSeq(0) \in [Exponents -> Field]
    BY <1>1, <1>2, Zenon
  <1>5. PowSeq(1) \in [Exponents -> Field]
    BY <1>1, <1>3, Zenon
  <1> QED BY <1>1, <1>2, <1>3, <1>4, <1>5, Zenon

\* Two functions on the exponents that agree everywhere are the same.
LEMMA SameFunction ==
  ASSUME NEW f \in [Exponents -> Field], NEW g \in [Exponents -> Field],
         \A i \in Exponents : f[i] = g[i]
  PROVE  f = g
  OBVIOUS

\* The inverse transform, rescaled, undoes the transform.
LEMMA RescaledBack ==
  ASSUME NEW x \in [Exponents -> Field]
  PROVE  Rescaled(Transform(RootsInv, Dft(x, RootsFwd))) = x
  <1> DEFINE X == Dft(x, RootsFwd)
             Y == Dft(X, RootsInv)
             inv == [i \in Exponents |-> FrInv(DomainSize % P)]
  <1>1. X \in [Exponents -> Field]
    BY DftIn, BothWays
  <1>2. Y \in [Exponents -> Field] /\ Transform(RootsInv, X) = Y
    BY <1>1, DftIn, TransformIs, BothWays
  <1>3. inv \in [Exponents -> Field] /\ \A i \in Exponents : inv[i] = FrInv(DomainSize % P)
    BY DomainSizeInverse
  <1>4. \A k \in Exponents : FrMul(Y[k], FrInv(DomainSize % P)) = x[k]
    BY DftInverted
  <1>5. Rescaled(Y) = EwMul(Y, inv)
    BY DEF Rescaled
  <1> HIDE DEF X, Y, inv
  <1>6. EwMul(Y, inv) \in [Exponents -> Field]
        /\ \A i \in Exponents : EwMul(Y, inv)[i] = FrMul(Y[i], inv[i])
    BY <1>2, <1>3, EwIs
  <1>7. \A i \in Exponents : EwMul(Y, inv)[i] = x[i]
    BY <1>3, <1>4, <1>6
  <1>8. EwMul(Y, inv) = x
    BY <1>6, <1>7, SameFunction
  <1> QED BY <1>2, <1>5, <1>8 DEF X

-----------------------------------------------------------------------------
(* What is read, and the vanishing polynomial *)

\* Reversing a position twice gives it back, and its cell is that of CellAt.
LEMMA Reversed ==
  ASSUME NEW i \in Exponents
  PROVE  /\ Brev(i, LogDomain) \in Exponents /\ Brev(Brev(i, LogDomain), LogDomain) = i
         /\ Brev(i, LogDomain) \div CellSize = CellAt(i)
  <1>1. i \in Nat /\ LogDomain \in Nat /\ DomainSize \in Nat \ {0} /\ i < DomainSize
    BY Sizes DEF Exponents
  <1>2. DomainSize = 2 ^ LogDomain
    BY <1>1, PartOfDomain
  <1>3. Brev(i, LogDomain) \in Exponents
    BY <1>1, <1>2, BrevBelow DEF Exponents
  <1>4. Brev(Brev(i, LogDomain), LogDomain) = i % DomainSize
    BY <1>1, <1>2, BrevTwice
  <1>5. i % DomainSize = i
    BY <1>1
  <1> QED BY <1>3, <1>4, <1>5 DEF CellAt

\* The cells of a polynomial are field elements, each the value at its point.
LEMMA CellsAre ==
  ASSUME NEW p \in [BlobExponents -> Field]
  PROVE  /\ CellsOf(p) \in [Exponents -> Field]
         /\ \A e \in Exponents : /\ CellsOf(p)[e] = PolyAt(Padded(p), Pw(Brev(e, LogDomain)))
                                 /\ CellsOf(p)[Brev(e, LogDomain)] = PolyAt(Padded(p), Pw(e))
  <1>1. ASSUME NEW e \in Exponents
        PROVE  ValueAt(p, e) = PolyAt(Padded(p), Pw(e)) /\ ValueAt(p, e) \in Field
    BY BlobValues
  <1>2. \A e \in Exponents : CellsOf(p)[e] = ValueAt(p, Brev(e, LogDomain))
    BY Zenon DEF CellsOf
  <1>3. CellsOf(p) = [e \in Exponents |-> CellsOf(p)[e]]
    BY Zenon DEF CellsOf
  <1>4. \A e \in Exponents : CellsOf(p)[e] \in Field
    BY <1>1, <1>2, Reversed
  <1>5. CellsOf(p) \in [Exponents -> Field]
    BY <1>3, <1>4, Zenon
  <1>6. ASSUME NEW e \in Exponents
        PROVE  /\ CellsOf(p)[e] = PolyAt(Padded(p), Pw(Brev(e, LogDomain)))
               /\ CellsOf(p)[Brev(e, LogDomain)] = PolyAt(Padded(p), Pw(e))
    BY <1>1, <1>2, Reversed
  <1> QED BY <1>5, <1>6

\* A set of missing cells that leaves half of them.
MayMiss(G) == G \subseteq 0..(Cells - 1) /\ Cardinality(G) <= Half

\* What may be staged for a blob of polynomial p: any words in the slots of the missing
\* cells, and the values of p modulo the order in the others.
Stageable(p, G, w) ==
  /\ p \in [BlobExponents -> Field] /\ MayMiss(G)
  /\ \A e \in Exponents : w[e] \in Int
  /\ Belong(w, G, p)

\* The values read from the staged words: those of the polynomial but in the missing
\* cells, where they are field elements all the same.
LEMMA WordsAre ==
  ASSUME NEW p, NEW G, NEW w, Stageable(p, G, w)
  PROVE  LET E == CellsToFr(w) IN
         /\ E \in [Exponents -> Field]
         /\ \A i \in Exponents : CellAt(i) \notin G => E[i] = PolyAt(Padded(p), Pw(i))
  <1> DEFINE E == CellsToFr(w)
  <1>1. ASSUME NEW e \in Exponents
        PROVE  w[e] \in Int /\ (e \div CellSize \notin G => w[e] % P = CellsOf(p)[e])
    BY Zenon DEF Stageable, Belong
  <1>2. \A i \in Exponents : E[i] = w[Brev(i, LogDomain)] % P
    BY Zenon DEF CellsToFr
  <1>3. E = [i \in Exponents |-> E[i]]
    BY Zenon DEF CellsToFr
  <1> HIDE DEF E
  <1>4. ASSUME NEW i \in Exponents
        PROVE  E[i] \in Field /\ (CellAt(i) \notin G => E[i] = PolyAt(Padded(p), Pw(i)))
    <2>1. Brev(i, LogDomain) \in Exponents
      BY Reversed
    <2>2. E[i] \in Field
      BY <1>1, <1>2, <2>1, Remainder
    <2>3. CellAt(i) \notin G => E[i] = CellsOf(p)[Brev(i, LogDomain)]
      BY <1>1, <1>2, <2>1, Reversed
    <2> QED BY <2>2, <2>3, CellsAre DEF Stageable
  <1>5. E \in [Exponents -> Field]
    BY <1>3, <1>4, Zenon
  <1> QED BY <1>4, <1>5 DEF E

\* What the vanishing polynomial of the missing cells is.
LEMMA ZIs ==
  ASSUME NEW G, MayMiss(G)
  PROVE  LET z == ZCoeff(MissingList(G)) IN
         /\ z \in [Exponents -> Field]
         /\ \A e \in Exponents : PolyAt(z, Pw(e)) = 0 <=> CellAt(e) \in G
         /\ \A i \in Exponents : i > BlobSize => z[i] = 0
         /\ \A k \in Exponents : PolyAt(z, FrMul(Shift, Pw(k))) # 0
  <1> DEFINE list == MissingList(G)
             z == ZCoeff(list)
  <1>1. G \subseteq 0..(Cells - 1) /\ Cardinality(G) <= Cells \div 2
    BY DEF MayMiss, Half
  <1>2. list \in Seq(0..(Cells - 1)) /\ Len(list) = Cardinality(G) /\ IsFiniteSet(G)
    BY <1>1, MissingIs
  <1>3. Len(list) \in Nat /\ Len(list) <= Cells \div 2 /\ Len(list) < Cells
    BY <1>1, <1>2, Halves, FS_CardinalityType
  <1>4. z \in [Exponents -> Field] /\ \A e \in Exponents : ValueAt(z, e) = 0 <=> CellAt(e) \in G
    BY <1>1, VanishesOnMissing DEF ZCoeff
  <1>5. Short(list) \in Seq(Field) /\ Len(Short(list)) = Len(list) + 1
    <2>1. 0 \in Field
      BY Closed
    <2> HIDE DEF list
    <2> QED BY <1>2, <2>1, ShortIs
  <1>6. \A k \in Exponents : PolyAt(z, FrMul(Shift, Pw(k))) # 0
    <2> HIDE DEF list
    <2> QED BY <1>2, <1>3, ShiftIs, CosetAvoids DEF ZCoeff
  <1>7. \A i \in Exponents : i > BlobSize => z[i] = 0
    <2>1. Len(Short(list)) <= Cells \div 2 + 1
      BY <1>3, <1>5, Halves
    <2> HIDE DEF list
    <2> QED BY <1>5, <2>1, SpreadDegree DEF ZCoeff
  <1>8. ASSUME NEW e \in Exponents PROVE PolyAt(z, Pw(e)) = 0 <=> CellAt(e) \in G
    <2>1. ValueAt(z, e) = PolyAt(z, Pw(e))
      <3> HIDE DEF z
      <3> QED BY <1>4, ValueAtRoot
    <2> QED BY <1>4, <2>1
  <1> QED BY <1>4, <1>6, <1>7, <1>8

\* Multiplied by the values of the vanishing polynomial, those that are read are the
\* values of the product of the two polynomials, the missing cells included.
LEMMA EZIs ==
  ASSUME NEW p, NEW G, NEW w, Stageable(p, G, w),
         NEW r \in [Exponents -> Field],
         \A X \in Field : PolyAt(r, X)
           = FrMul(PolyAt(Padded(p), X), PolyAt(ZCoeff(MissingList(G)), X))
  PROVE  EZEval(w, MissingList(G)) = Dft(r, RootsFwd)
  <1> DEFINE z == ZCoeff(MissingList(G))
             E == CellsToFr(w)
             V == ZEval(MissingList(G))
             y == Padded(p)
  <1>1. z \in [Exponents -> Field] /\ \A e \in Exponents : PolyAt(z, Pw(e)) = 0 <=> CellAt(e) \in G
    BY ZIs DEF Stageable
  <1>2. E \in [Exponents -> Field]
        /\ \A i \in Exponents : CellAt(i) \notin G => E[i] = PolyAt(y, Pw(i))
    BY WordsAre
  <1>3. V = Dft(z, RootsFwd) /\ V \in [Exponents -> Field]
    BY <1>1, TransformIs, BothWays DEF ZEval
  <1>4. y \in [Exponents -> Field]
    <2>1. 0 \in Exponents
      BY Sizes DEF Exponents
    <2> QED BY <2>1, BlobValues DEF Stageable
  <1>5. EZEval(w, MissingList(G)) = EwMul(E, V)
    BY DEF EZEval
  <1>6. \A X \in Field : PolyAt(r, X) = FrMul(PolyAt(y, X), PolyAt(z, X))
    OBVIOUS
  <1> HIDE DEF z, E, V, y
  <1>7. EwMul(E, V) \in [Exponents -> Field]
        /\ \A i \in Exponents : EwMul(E, V)[i] = FrMul(E[i], V[i])
    BY <1>2, <1>3, EwIs
  <1>8. ASSUME NEW i \in Exponents PROVE EwMul(E, V)[i] = Dft(r, RootsFwd)[i]
    <2>1. 1 \in Field /\ Pw(i) \in Field
      BY Closed, ValueAtRoot, <1>1
    <2>2. V[i] = PolyAt(z, Pw(i))
      BY <1>1, <1>3, <2>1, DftValues
    <2>3. Dft(r, RootsFwd)[i] = PolyAt(r, Pw(i))
      BY <2>1, DftValues
    <2>4. PolyAt(r, Pw(i)) = FrMul(PolyAt(y, Pw(i)), PolyAt(z, Pw(i)))
      BY <1>6, <2>1
    <2>5. PolyAt(y, Pw(i)) \in Field /\ E[i] \in Field
      BY <1>2, <1>4, <2>1, PolyAtIs
    <2>6. CASE CellAt(i) \in G
      <3>1. V[i] = 0 /\ PolyAt(z, Pw(i)) = 0
        BY <1>1, <2>2, <2>6
      <3>2. FrMul(E[i], 0) = 0 /\ FrMul(PolyAt(y, Pw(i)), 0) = 0
        BY <2>5, Neutral
      <3> QED BY <1>7, <2>3, <2>4, <3>1, <3>2
    <2>7. CASE CellAt(i) \notin G
      BY <1>2, <1>7, <2>2, <2>3, <2>4, <2>7
    <2> QED BY <2>6, <2>7
  <1>9. Dft(r, RootsFwd) \in [Exponents -> Field]
    BY DftIn, BothWays
  <1>10. EwMul(E, V) = Dft(r, RootsFwd)
    BY <1>7, <1>8, <1>9, SameFunction
  <1> QED BY <1>5, <1>10

\* The values of a polynomial on the coset, by scaling its coefficients.
LEMMA OnCoset ==
  ASSUME NEW x \in [Exponents -> Field]
  PROVE  /\ EwMul(x, PowSeq(0)) \in [Exponents -> Field]
         /\ EwMul(EwMul(x, PowSeq(0)), PowSeq(1)) = x
         /\ Dft(EwMul(x, PowSeq(0)), RootsFwd) \in [Exponents -> Field]
         /\ \A k \in Exponents : Dft(EwMul(x, PowSeq(0)), RootsFwd)[k]
                                   = PolyAt(x, FrMul(Shift, Pw(k)))
  <1> DEFINE s == PowSeq(0)
             t == PowSeq(1)
  <1>1. /\ s \in [Exponents -> Field] /\ t \in [Exponents -> Field]
        /\ \A i \in Exponents : s[i] = FrPow(Shift, i) /\ s[i] \in Field /\ t[i] \in Field
                                /\ FrMul(s[i], t[i]) = 1
    BY PowSeqIs
  <1> HIDE DEF s, t
  <1>2. EwMul(x, s) \in [Exponents -> Field] /\ \A i \in Exponents : EwMul(x, s)[i] = FrMul(x[i], s[i])
    BY <1>1, EwIs
  <1>3. EwMul(EwMul(x, s), t) \in [Exponents -> Field]
        /\ \A i \in Exponents : EwMul(EwMul(x, s), t)[i] = FrMul(EwMul(x, s)[i], t[i])
    BY <1>1, <1>2, EwIs
  <1>4. ASSUME NEW i \in Exponents PROVE EwMul(EwMul(x, s), t)[i] = x[i]
    <2>1. x[i] \in Field /\ s[i] \in Field /\ t[i] \in Field
      BY <1>1
    <2>2. FrMul(FrMul(x[i], s[i]), t[i]) = FrMul(x[i], FrMul(s[i], t[i]))
      BY <2>1, MulAssociates
    <2>3. FrMul(x[i], 1) = x[i]
      BY <2>1, Neutral
    <2> QED BY <1>1, <1>2, <1>3, <2>2, <2>3
  <1>5. EwMul(EwMul(x, s), t) = x
    BY <1>3, <1>4, SameFunction
  <1>6. EwMul(x, s) = [i \in Exponents |-> FrMul(x[i], FrPow(Shift, i))]
    BY <1>1 DEF EwMul
  <1>7. \A k \in Exponents : Dft([i \in Exponents |-> FrMul(x[i], FrPow(Shift, i))], RootsFwd)[k]
                               = PolyAt(x, FrMul(Shift, Pw(k)))
    BY ShiftIs, DftValues
  <1>8. Dft(EwMul(x, s), RootsFwd) \in [Exponents -> Field]
    BY <1>2, DftIn, BothWays
  <1> QED BY <1>2, <1>5, <1>6, <1>7, <1>8 DEF s, t

-----------------------------------------------------------------------------
(* The cells that are recovered *)

\* All values are field elements for every position of the domain.
LEMMA ValuesIn ==
  ASSUME NEW p, NEW G, NEW w, Stageable(p, G, w), NEW m, m = MissingList(G)
  PROVE  /\ CellsToFr(w) \in [Exponents -> Field] /\ ZCoeff(m) \in [Exponents -> Field]
         /\ ZEval(m) \in [Exponents -> Field] /\ EZEval(w, m) \in [Exponents -> Field]
         /\ EZCoeffU(w, m) \in [Exponents -> Field] /\ EZCoeff(w, m) \in [Exponents -> Field]
         /\ ShiftedA(w, m) \in [Exponents -> Field] /\ CosetA(w, m) \in [Exponents -> Field]
         /\ ShiftedB(m) \in [Exponents -> Field] /\ CosetB(m) \in [Exponents -> Field]
         /\ PCoset(w, m) \in [Exponents -> Field] /\ PCoeffU(w, m) \in [Exponents -> Field]
         /\ PCoeffS(w, m) \in [Exponents -> Field] /\ PCoeff(w, m) \in [Exponents -> Field]
         /\ PFull(w, m) \in [Exponents -> Field] /\ Out(w, m) \in [Exponents -> Field]
  <1>1. CellsToFr(w) \in [Exponents -> Field]
    BY WordsAre
  <1>2. ZCoeff(m) \in [Exponents -> Field]
    BY ZIs DEF Stageable
  <1>3. RootsFwd \in RootTables /\ RootsInv \in RootTables
    BY BothWays
  <1>4. PowSeq(0) \in [Exponents -> Field] /\ PowSeq(1) \in [Exponents -> Field]
    BY PowSeqIs
  <1>5. \A x \in [Exponents -> Field] : Rescaled(x) \in [Exponents -> Field]
    <2>1. [i \in Exponents |-> FrInv(DomainSize % P)] \in [Exponents -> Field]
      BY DomainSizeInverse
    <2> QED BY <2>1, EwIs DEF Rescaled
  <1>6. ZEval(m) \in [Exponents -> Field]
    BY <1>2, <1>3, TransformIs DEF ZEval
  <1>7. EZEval(w, m) \in [Exponents -> Field]
    BY <1>1, <1>6, EwIs DEF EZEval
  <1>8. EZCoeffU(w, m) \in [Exponents -> Field]
    BY <1>7, <1>3, TransformIs DEF EZCoeffU
  <1>9. EZCoeff(w, m) \in [Exponents -> Field]
    BY <1>8, <1>5 DEF EZCoeff
  <1>10. ShiftedA(w, m) \in [Exponents -> Field]
    BY <1>9, <1>4, EwIs DEF ShiftedA
  <1>11. CosetA(w, m) \in [Exponents -> Field]
    BY <1>10, <1>3, TransformIs DEF CosetA
  <1>12. ShiftedB(m) \in [Exponents -> Field]
    BY <1>2, <1>4, EwIs DEF ShiftedB
  <1>13. CosetB(m) \in [Exponents -> Field]
    BY <1>12, <1>3, TransformIs DEF CosetB
  <1>14. PCoset(w, m) \in [Exponents -> Field]
    BY <1>11, <1>13, EwIs DEF PCoset
  <1>15. PCoeffU(w, m) \in [Exponents -> Field]
    BY <1>14, <1>3, TransformIs DEF PCoeffU
  <1>16. PCoeffS(w, m) \in [Exponents -> Field]
    BY <1>15, <1>5 DEF PCoeffS
  <1>17. PCoeff(w, m) \in [Exponents -> Field]
    BY <1>16, <1>4, EwIs DEF PCoeff
  <1>18. PFull(w, m) \in [Exponents -> Field]
    BY <1>17, <1>3, TransformIs DEF PFull
  <1>19. Out(w, m) \in [Exponents -> Field]
    BY <1>18, Reversed DEF Out, FrToCells
  <1> QED BY <1>1, <1>2, <1>6, <1>7, <1>8, <1>9, <1>10, <1>11, <1>12, <1>13, <1>14, <1>15,
             <1>16, <1>17, <1>18, <1>19, Zenon

\* The divisor on the coset.
LEMMA DivisorIs ==
  ASSUME NEW G, MayMiss(G), NEW k \in Exponents
  PROVE  /\ CosetB(MissingList(G))[k] = PolyAt(ZCoeff(MissingList(G)), FrMul(Shift, Pw(k)))
         /\ CosetB(MissingList(G))[k] # 0
  <1> DEFINE z == ZCoeff(MissingList(G))
             B == CosetB(MissingList(G))
  <1>1. /\ z \in [Exponents -> Field]
        /\ \A i \in Exponents : PolyAt(z, FrMul(Shift, Pw(i))) # 0
    BY ZIs
  <1>2. B = Transform(RootsFwd, EwMul(z, PowSeq(0)))
    BY DEF CosetB, ShiftedB
  <1> HIDE DEF z, B
  <1>3. EwMul(z, PowSeq(0)) \in [Exponents -> Field]
        /\ Dft(EwMul(z, PowSeq(0)), RootsFwd)[k] = PolyAt(z, FrMul(Shift, Pw(k)))
    BY <1>1, OnCoset
  <1>4. B = Dft(EwMul(z, PowSeq(0)), RootsFwd)
    BY <1>2, <1>3, TransformIs, BothWays
  <1> QED BY <1>1, <1>3, <1>4 DEF z, B

\* What is recovered is the cells of the polynomial: the product of the two
\* polynomials, interpolated from its values, is divided on the coset, where its
\* divisor has no zero.
LEMMA RecoversCells ==
  ASSUME NEW p, NEW G, NEW w, Stageable(p, G, w)
  PROVE  Out(w, MissingList(G)) = CellsOf(p)
  <1> DEFINE m == MissingList(G)
             y == Padded(p)
             z == ZCoeff(m)
             ys == EwMul(y, PowSeq(0))
  <1>1. p \in [BlobExponents -> Field] /\ MayMiss(G)
    BY DEF Stageable
  <1>2. z \in [Exponents -> Field] /\ \A i \in Exponents : i > BlobSize => z[i] = 0
    BY <1>1, ZIs
  <1>3. y \in [Exponents -> Field] /\ \A k \in Exponents : Pw(k) \in Field
    <2>1. 0 \in Exponents
      BY Sizes DEF Exponents
    <2>2. y \in [Exponents -> Field]
      BY <1>1, <2>1, BlobValues
    <2> QED BY <2>2, ValueAtRoot
  <1>4. PICK r \in [Exponents -> Field] :
          \A X \in Field : PolyAt(r, X) = FrMul(PolyAt(y, X), PolyAt(z, X))
    <2> HIDE DEF z
    <2> QED BY <1>1, <1>2, ProductExists
  <1>5. EZEval(w, m) = Dft(r, RootsFwd)
    BY <1>1, <1>4, EZIs
  <1>6. EZCoeff(w, m) = r
    BY <1>5, RescaledBack DEF EZCoeff, EZCoeffU
  <1>7. CosetA(w, m) = Dft(EwMul(r, PowSeq(0)), RootsFwd)
        /\ CosetA(w, m) \in [Exponents -> Field]
        /\ \A k \in Exponents : CosetA(w, m)[k] = PolyAt(r, FrMul(Shift, Pw(k)))
    <2>1. CosetA(w, m) = Transform(RootsFwd, EwMul(r, PowSeq(0)))
      BY <1>6 DEF CosetA, ShiftedA
    <2> HIDE DEF m
    <2>2. CosetA(w, m) = Dft(EwMul(r, PowSeq(0)), RootsFwd)
      BY <2>1, OnCoset, TransformIs, BothWays
    <2> QED BY <2>2, OnCoset
  <1>8. ys \in [Exponents -> Field] /\ Dft(ys, RootsFwd) \in [Exponents -> Field]
        /\ EwMul(ys, PowSeq(1)) = y
        /\ \A k \in Exponents : Dft(ys, RootsFwd)[k] = PolyAt(y, FrMul(Shift, Pw(k)))
    <2> HIDE DEF y
    <2> QED BY <1>3, OnCoset
  <1>9. CosetB(m) \in [Exponents -> Field]
    BY ValuesIn
  <1>10. PCoset(w, m) = EwDiv(CosetA(w, m), CosetB(m))
    BY DEF PCoset
  <1>11. \A k \in Exponents : CosetB(m)[k] = PolyAt(z, FrMul(Shift, Pw(k))) /\ CosetB(m)[k] # 0
    BY <1>1, DivisorIs
  <1>12. PFull(w, m) = Transform(RootsFwd, EwMul(Rescaled(Transform(RootsInv, PCoset(w, m))), PowSeq(1)))
    BY DEF PFull, PCoeff, PCoeffS, PCoeffU
  <1>13. Out(w, m) = FrToCells(PFull(w, m))
    BY DEF Out
  <1>14. CellsOf(p) \in [Exponents -> Field]
         /\ \A e \in Exponents : CellsOf(p)[e] = PolyAt(y, Pw(Brev(e, LogDomain)))
    BY <1>1, CellsAre
  <1>15. Out(w, m) \in [Exponents -> Field]
    BY ValuesIn
  <1> HIDE DEF m, y, z, ys
  <1>16. PCoset(w, m) \in [Exponents -> Field] /\ \A k \in Exponents :
           /\ PCoset(w, m)[k] = FrMul(CosetA(w, m)[k], FrInv(CosetB(m)[k]))
           /\ CosetB(m)[k] \in Field
    BY <1>7, <1>9, <1>10, EwIs
  <1>17. ASSUME NEW k \in Exponents PROVE PCoset(w, m)[k] = Dft(ys, RootsFwd)[k]
    <2> DEFINE X == FrMul(Shift, Pw(k))
               u == PolyAt(y, X)
               v == PolyAt(z, X)
    <2>1. X \in Field
      BY <1>3, ShiftIs, Closed
    <2> HIDE DEF X
    <2>2. u \in Field /\ v \in Field
      BY <1>2, <1>3, <2>1, PolyAtIs
    <2>3. PCoset(w, m)[k] = FrMul(FrMul(u, v), FrInv(v)) /\ v # 0
      BY <1>4, <1>7, <1>11, <1>16, <2>1 DEF X
    <2>4. Dft(ys, RootsFwd)[k] = u
      BY <1>8 DEF X
    <2> HIDE DEF u, v
    <2>5. FrInv(v) \in Field /\ FrMul(v, FrInv(v)) = 1
      BY <2>2, <2>3, InverseIs
    <2>6. FrMul(FrMul(u, v), FrInv(v)) = FrMul(u, FrMul(v, FrInv(v)))
      BY <2>2, <2>5, MulAssociates
    <2>7. FrMul(u, 1) = u
      BY <2>2, Neutral
    <2> QED BY <2>3, <2>4, <2>5, <2>6, <2>7
  <1>18. PCoset(w, m) = Dft(ys, RootsFwd)
    BY <1>8, <1>16, <1>17, SameFunction
  <1>19. Rescaled(Transform(RootsInv, PCoset(w, m))) = ys
    BY <1>8, <1>18, RescaledBack
  <1>20. PFull(w, m) = Dft(y, RootsFwd)
    BY <1>3, <1>8, <1>12, <1>19, TransformIs, BothWays
  <1>21. \A k \in Exponents : PFull(w, m)[k] = PolyAt(y, Pw(k))
    <2>1. 1 \in Field
      BY Closed
    <2> QED BY <1>3, <1>20, <2>1, DftValues
  <1>22. ASSUME NEW e \in Exponents PROVE Out(w, m)[e] = CellsOf(p)[e]
    <2>1. Out(w, m)[e] = PFull(w, m)[Brev(e, LogDomain)]
      BY <1>13, Zenon DEF FrToCells
    <2>2. Brev(e, LogDomain) \in Exponents
      BY Reversed
    <2> QED BY <1>14, <1>21, <2>1, <2>2
  <1>23. Out(w, m) = CellsOf(p)
    BY <1>14, <1>15, <1>22, SameFunction
  <1> QED BY <1>23 DEF m

-----------------------------------------------------------------------------
(* The commands of a recovery *)

Mode == [log1 |-> LogN1, log2 |-> LogDomain - LogN1, scale |-> 1]

Recording(kernel, out, a, b, mode) ==
  [kernel |-> kernel, out |-> out, a |-> a, b |-> b, mode |-> mode]

\* Where a dispatch has no buffer, or no mode.
Unused == ""

\* The k-th.
Command(k) ==
  CASE k = 1 -> Recording("cells_to_fr", "bufRecBrp", "bufRecScratch", Unused, Unused)
    [] k = 2 -> Recording("vanishing_poly", "bufRecZCoeff", "bufRecMissing", Unused, Unused)
    [] k = 3 -> Recording("ntt1", "bufRecScratch", "bufRecZCoeff", "bufRootsFwd", Mode)
    [] k = 4 -> Recording("ntt2", "bufRecZEval", "bufRecScratch", "bufRootsFwd", Mode)
    [] k = 5 -> Recording("ew_mul", "bufRecEZEval", "bufRecBrp", "bufRecZEval", "batched")
    [] k = 6 -> Recording("ntt1", "bufRecScratch", "bufRecEZEval", "bufRootsInv", Mode)
    [] k = 7 -> Recording("ntt2", "bufRecEZCoeff", "bufRecScratch", "bufRootsInv", Mode)
    [] k = 8 -> Recording("ew_mul", "bufRecEZCoeff", "bufRecEZCoeff", "bufInvExtBlob", "broadcast")
    [] k = 9 -> Recording("ew_mul", "bufRecShiftedA", "bufRecEZCoeff", "bufCosetShiftFwd", "shared")
    [] k = 10 -> Recording("ntt1", "bufRecScratch", "bufRecShiftedA", "bufRootsFwd", Mode)
    [] k = 11 -> Recording("ntt2", "bufRecCosetA", "bufRecScratch", "bufRootsFwd", Mode)
    [] k = 12 -> Recording("ew_mul", "bufRecShiftedA", "bufRecZCoeff", "bufCosetShiftFwd", "shared")
    [] k = 13 -> Recording("ntt1", "bufRecScratch", "bufRecShiftedA", "bufRootsFwd", Mode)
    [] k = 14 -> Recording("ntt2", "bufRecCosetB", "bufRecScratch", "bufRootsFwd", Mode)
    [] k = 15 -> Recording("ew_div", "bufRecPCoset", "bufRecCosetA", "bufRecCosetB", Unused)
    [] k = 16 -> Recording("ntt1", "bufRecScratch", "bufRecPCoset", "bufRootsInv", Mode)
    [] k = 17 -> Recording("ntt2", "bufRecPCoeffU", "bufRecScratch", "bufRootsInv", Mode)
    [] k = 18 -> Recording("ew_mul", "bufRecPCoeffU", "bufRecPCoeffU", "bufInvExtBlob", "broadcast")
    [] k = 19 -> Recording("ew_mul", "bufRecPCoeff", "bufRecPCoeffU", "bufCosetShiftInv", "shared")
    [] k = 20 -> Recording("ntt1", "bufRecScratch", "bufRecPCoeff", "bufRootsFwd", Mode)
    [] k = 21 -> Recording("ntt2", "bufRecPFull", "bufRecScratch", "bufRootsFwd", Mode)
    [] k = 22 -> Recording("fr_to_cells", "bufRecOut", "bufRecPFull", Unused, Unused)

\* The first n, in order.
FirstCommands(s, n) ==
  s \in Seq({Command(k) : k \in 1..22}) /\ Len(s) = n /\ \A k \in 1..n : s[k] = Command(k)

\* One more.
LEMMA OneMore ==
  ASSUME NEW s, NEW n \in 0..21, FirstCommands(s, n) PROVE FirstCommands(s \o <<Command(n + 1)>>, n + 1)
  <1> DEFINE S == {Command(k) : k \in 1..22}
             c == Command(n + 1)
             t == s \o <<c>>
  <1>1. s \in Seq(S) /\ Len(s) = n /\ \A k \in 1..n : s[k] = Command(k)
    BY DEF FirstCommands
  <1>2. c \in S
    OBVIOUS
  <1>3. \A k : k = n + 1 => Command(k) = c
    OBVIOUS
  <1> HIDE DEF S, c
  <1>4. t \in Seq(S) /\ Len(t) = n + 1 /\ t[n + 1] = c /\ \A k \in 1..n : t[k] = s[k]
    BY <1>1, <1>2
  <1>5. \A k \in 1..(n + 1) : t[k] = Command(k)
    <2> TAKE k \in 1..(n + 1)
    <2>1. CASE k = n + 1
      BY <1>3, <1>4, <2>1
    <2>2. CASE k # n + 1
      BY <1>1, <1>4, <2>2
    <2> QED BY <2>1, <2>2
  <1> QED BY <1>4, <1>5 DEF FirstCommands, S, c

\* Two more.
LEMMA TwoMore ==
  ASSUME NEW s, NEW n \in 0..20, FirstCommands(s, n)
  PROVE  FirstCommands(s \o (<<Command(n + 1)>> \o <<Command(n + 2)>>), n + 2)
  <1> DEFINE S == {Command(k) : k \in 1..22}
             c == Command(n + 1)
             d == Command(n + 2)
  <1>1. FirstCommands(s \o <<c>>, n + 1)
    BY OneMore
  <1>2. n + 1 \in 0..21 /\ (n + 1) + 1 = n + 2
    OBVIOUS
  <1>3. FirstCommands((s \o <<c>>) \o <<Command((n + 1) + 1)>>, (n + 1) + 1)
    <2> HIDE DEF c
    <2> QED BY <1>1, <1>2, OneMore
  <1>4. Command((n + 1) + 1) = d
    BY <1>2
  <1>5. s \in Seq(S) /\ c \in S /\ d \in S
    <2>1. n + 1 \in 1..22 /\ n + 2 \in 1..22
      OBVIOUS
    <2>2. c \in S /\ d \in S
      BY <2>1, Zenon
    <2> QED BY <2>2 DEF FirstCommands
  <1> HIDE DEF S, c, d
  <1>6. (s \o <<c>>) \o <<d>> = s \o (<<c>> \o <<d>>)
    BY <1>5
  <1> QED BY <1>2, <1>3, <1>4, <1>6 DEF c, d

\* A dispatch that is recorded.
LEMMA Recorded1 ==
  ASSUME NEW s, NEW n \in 0..21, FirstCommands(s, n), NEW m, m = n + 1,
         NEW kernel, NEW out, NEW a, NEW b, NEW mode,
         Command(m) = Recording(kernel, out, a, b, mode)
  PROVE  FirstCommands(s \o Dispatch(kernel, out, a, b, mode), m)
  BY OneMore DEF Dispatch, Recording

\* A transform that is recorded.
LEMMA Recorded2 ==
  ASSUME NEW s, NEW n \in 0..20, FirstCommands(s, n), NEW l, l = n + 1, NEW m, m = n + 2,
         NEW out, NEW in, NEW roots,
         Command(l) = Recording("ntt1", "bufRecScratch", in, roots, Mode),
         Command(m) = Recording("ntt2", out, "bufRecScratch", roots, Mode)
  PROVE  FirstCommands(s \o recoverNtt(out, in, roots), m)
  <1>1. recoverNtt(out, in, roots) = <<Command(n + 1)>> \o <<Command(n + 2)>>
    BY DEF recoverNtt, Ntt, Dispatch, Recording, Mode
  <1> QED BY <1>1, TwoMore

\* What recoverBatch records.
LEMMA RecoverCommandsAre ==
  Len(RecoverCommands) = 22 /\ \A k \in 1..22 : RecoverCommands[k] = Command(k)
  <1> DEFINE
    s1 == Dispatch("cells_to_fr", "bufRecBrp", "bufRecScratch", "", "")
    s2 == s1 \o Dispatch("vanishing_poly", "bufRecZCoeff", "bufRecMissing", "", "")
    s4 == s2 \o recoverNtt("bufRecZEval", "bufRecZCoeff", "bufRootsFwd")
    s5 == s4 \o Dispatch("ew_mul", "bufRecEZEval", "bufRecBrp", "bufRecZEval", "batched")
    s7 == s5 \o recoverNtt("bufRecEZCoeff", "bufRecEZEval", "bufRootsInv")
    s8 == s7 \o Dispatch("ew_mul", "bufRecEZCoeff", "bufRecEZCoeff", "bufInvExtBlob", "broadcast")
    s9 == s8 \o Dispatch("ew_mul", "bufRecShiftedA", "bufRecEZCoeff", "bufCosetShiftFwd", "shared")
    s11 == s9 \o recoverNtt("bufRecCosetA", "bufRecShiftedA", "bufRootsFwd")
    s12 == s11 \o Dispatch("ew_mul", "bufRecShiftedA", "bufRecZCoeff", "bufCosetShiftFwd", "shared")
    s14 == s12 \o recoverNtt("bufRecCosetB", "bufRecShiftedA", "bufRootsFwd")
    s15 == s14 \o Dispatch("ew_div", "bufRecPCoset", "bufRecCosetA", "bufRecCosetB", "")
    s17 == s15 \o recoverNtt("bufRecPCoeffU", "bufRecPCoset", "bufRootsInv")
    s18 == s17 \o Dispatch("ew_mul", "bufRecPCoeffU", "bufRecPCoeffU", "bufInvExtBlob", "broadcast")
    s19 == s18 \o Dispatch("ew_mul", "bufRecPCoeff", "bufRecPCoeffU", "bufCosetShiftInv", "shared")
    s21 == s19 \o recoverNtt("bufRecPFull", "bufRecPCoeff", "bufRootsFwd")
    s22 == s21 \o Dispatch("fr_to_cells", "bufRecOut", "bufRecPFull", "", "")
  <1>0. RecoverCommands = s22
    BY DEF RecoverCommands, recoverEwMul, CosetZ
  <1>1. FirstCommands(s1, 1)
    <2>1. Command(1) = Recording("cells_to_fr", "bufRecBrp", "bufRecScratch", "", "")
      BY DEF Command, Unused
    <2>2. s1 = <<Command(1)>>
      BY <2>1 DEF Dispatch, Recording
    <2>3. Command(1) \in {Command(k) : k \in 1..22}
      OBVIOUS
    <2>4. <<Command(1)>> \in Seq({Command(k) : k \in 1..22})
      <3> DEFINE c == Command(1)
                 S == {Command(k) : k \in 1..22}
      <3> HIDE DEF c, S
      <3>1. <<c>> \in Seq(S)
        BY <2>3 DEF c, S
      <3> QED BY <3>1 DEF c, S
    <2>5. Len(<<Command(1)>>) = 1 /\ \A k \in 1..1 : <<Command(1)>>[k] = Command(k)
      OBVIOUS
    <2>6. FirstCommands(<<Command(1)>>, 1)
      BY <2>4, <2>5, Zenon DEF FirstCommands
    <2> QED BY <2>2, <2>6, Zenon
  <1> HIDE DEF s1
  <1>2. FirstCommands(s2, 2)
    <2>1. Command(2) = Recording("vanishing_poly", "bufRecZCoeff", "bufRecMissing", "", "")
      BY DEF Command, Unused
    <2>2. 1 \in 0..21 /\ 2 = 1 + 1
      OBVIOUS
    <2> QED BY <1>1, <2>1, <2>2, Recorded1, Zenon
  <1> HIDE DEF s2
  <1>4. FirstCommands(s4, 4)
    <2>1. Command(3) = Recording("ntt1", "bufRecScratch", "bufRecZCoeff", "bufRootsFwd", Mode)
      BY DEF Command, Unused
    <2>2. Command(4) = Recording("ntt2", "bufRecZEval", "bufRecScratch", "bufRootsFwd", Mode)
      BY DEF Command, Unused
    <2>3. 2 \in 0..20 /\ 3 = 2 + 1 /\ 4 = 2 + 2
      OBVIOUS
    <2> QED BY <1>2, <2>1, <2>2, <2>3, Recorded2, Zenon
  <1> HIDE DEF s4
  <1>5. FirstCommands(s5, 5)
    <2>1. Command(5) = Recording("ew_mul", "bufRecEZEval", "bufRecBrp", "bufRecZEval", "batched")
      BY DEF Command, Unused
    <2>2. 4 \in 0..21 /\ 5 = 4 + 1
      OBVIOUS
    <2> QED BY <1>4, <2>1, <2>2, Recorded1, Zenon
  <1> HIDE DEF s5
  <1>7. FirstCommands(s7, 7)
    <2>1. Command(6) = Recording("ntt1", "bufRecScratch", "bufRecEZEval", "bufRootsInv", Mode)
      BY DEF Command, Unused
    <2>2. Command(7) = Recording("ntt2", "bufRecEZCoeff", "bufRecScratch", "bufRootsInv", Mode)
      BY DEF Command, Unused
    <2>3. 5 \in 0..20 /\ 6 = 5 + 1 /\ 7 = 5 + 2
      OBVIOUS
    <2> QED BY <1>5, <2>1, <2>2, <2>3, Recorded2, Zenon
  <1> HIDE DEF s7
  <1>8. FirstCommands(s8, 8)
    <2>1. Command(8) = Recording("ew_mul", "bufRecEZCoeff", "bufRecEZCoeff", "bufInvExtBlob", "broadcast")
      BY DEF Command, Unused
    <2>2. 7 \in 0..21 /\ 8 = 7 + 1
      OBVIOUS
    <2> QED BY <1>7, <2>1, <2>2, Recorded1, Zenon
  <1> HIDE DEF s8
  <1>9. FirstCommands(s9, 9)
    <2>1. Command(9) = Recording("ew_mul", "bufRecShiftedA", "bufRecEZCoeff", "bufCosetShiftFwd", "shared")
      BY DEF Command, Unused
    <2>2. 8 \in 0..21 /\ 9 = 8 + 1
      OBVIOUS
    <2> QED BY <1>8, <2>1, <2>2, Recorded1, Zenon
  <1> HIDE DEF s9
  <1>11. FirstCommands(s11, 11)
    <2>1. Command(10) = Recording("ntt1", "bufRecScratch", "bufRecShiftedA", "bufRootsFwd", Mode)
      BY DEF Command, Unused
    <2>2. Command(11) = Recording("ntt2", "bufRecCosetA", "bufRecScratch", "bufRootsFwd", Mode)
      BY DEF Command, Unused
    <2>3. 9 \in 0..20 /\ 10 = 9 + 1 /\ 11 = 9 + 2
      OBVIOUS
    <2> QED BY <1>9, <2>1, <2>2, <2>3, Recorded2, Zenon
  <1> HIDE DEF s11
  <1>12. FirstCommands(s12, 12)
    <2>1. Command(12) = Recording("ew_mul", "bufRecShiftedA", "bufRecZCoeff", "bufCosetShiftFwd", "shared")
      BY DEF Command, Unused
    <2>2. 11 \in 0..21 /\ 12 = 11 + 1
      OBVIOUS
    <2> QED BY <1>11, <2>1, <2>2, Recorded1, Zenon
  <1> HIDE DEF s12
  <1>14. FirstCommands(s14, 14)
    <2>1. Command(13) = Recording("ntt1", "bufRecScratch", "bufRecShiftedA", "bufRootsFwd", Mode)
      BY DEF Command, Unused
    <2>2. Command(14) = Recording("ntt2", "bufRecCosetB", "bufRecScratch", "bufRootsFwd", Mode)
      BY DEF Command, Unused
    <2>3. 12 \in 0..20 /\ 13 = 12 + 1 /\ 14 = 12 + 2
      OBVIOUS
    <2> QED BY <1>12, <2>1, <2>2, <2>3, Recorded2, Zenon
  <1> HIDE DEF s14
  <1>15. FirstCommands(s15, 15)
    <2>1. Command(15) = Recording("ew_div", "bufRecPCoset", "bufRecCosetA", "bufRecCosetB", "")
      BY DEF Command, Unused
    <2>2. 14 \in 0..21 /\ 15 = 14 + 1
      OBVIOUS
    <2> QED BY <1>14, <2>1, <2>2, Recorded1, Zenon
  <1> HIDE DEF s15
  <1>17. FirstCommands(s17, 17)
    <2>1. Command(16) = Recording("ntt1", "bufRecScratch", "bufRecPCoset", "bufRootsInv", Mode)
      BY DEF Command, Unused
    <2>2. Command(17) = Recording("ntt2", "bufRecPCoeffU", "bufRecScratch", "bufRootsInv", Mode)
      BY DEF Command, Unused
    <2>3. 15 \in 0..20 /\ 16 = 15 + 1 /\ 17 = 15 + 2
      OBVIOUS
    <2> QED BY <1>15, <2>1, <2>2, <2>3, Recorded2, Zenon
  <1> HIDE DEF s17
  <1>18. FirstCommands(s18, 18)
    <2>1. Command(18) = Recording("ew_mul", "bufRecPCoeffU", "bufRecPCoeffU", "bufInvExtBlob", "broadcast")
      BY DEF Command, Unused
    <2>2. 17 \in 0..21 /\ 18 = 17 + 1
      OBVIOUS
    <2> QED BY <1>17, <2>1, <2>2, Recorded1, Zenon
  <1> HIDE DEF s18
  <1>19. FirstCommands(s19, 19)
    <2>1. Command(19) = Recording("ew_mul", "bufRecPCoeff", "bufRecPCoeffU", "bufCosetShiftInv", "shared")
      BY DEF Command, Unused
    <2>2. 18 \in 0..21 /\ 19 = 18 + 1
      OBVIOUS
    <2> QED BY <1>18, <2>1, <2>2, Recorded1, Zenon
  <1> HIDE DEF s19
  <1>21. FirstCommands(s21, 21)
    <2>1. Command(20) = Recording("ntt1", "bufRecScratch", "bufRecPCoeff", "bufRootsFwd", Mode)
      BY DEF Command, Unused
    <2>2. Command(21) = Recording("ntt2", "bufRecPFull", "bufRecScratch", "bufRootsFwd", Mode)
      BY DEF Command, Unused
    <2>3. 19 \in 0..20 /\ 20 = 19 + 1 /\ 21 = 19 + 2
      OBVIOUS
    <2> QED BY <1>19, <2>1, <2>2, <2>3, Recorded2, Zenon
  <1> HIDE DEF s21
  <1>22. FirstCommands(s22, 22)
    <2>1. Command(22) = Recording("fr_to_cells", "bufRecOut", "bufRecPFull", "", "")
      BY DEF Command, Unused
    <2>2. 21 \in 0..21 /\ 22 = 21 + 1
      OBVIOUS
    <2> QED BY <1>21, <2>1, <2>2, Recorded1, Zenon
  <1> HIDE DEF s22
  <1> QED BY <1>0, <1>22 DEF FirstCommands

-----------------------------------------------------------------------------
(* What the dispatches make, and where *)

\* What the k-th makes of a blob of words w and missing cells m.
Made(k, w, m) ==
  CASE k = 1 -> CellsToFr(w)
    [] k = 2 -> ZCoeff(m)
    [] k = 3 -> Before(RootsFwd, ZCoeff(m))
    [] k = 4 -> ZEval(m)
    [] k = 5 -> EZEval(w, m)
    [] k = 6 -> Before(RootsInv, EZEval(w, m))
    [] k = 7 -> EZCoeffU(w, m)
    [] k = 8 -> EZCoeff(w, m)
    [] k = 9 -> ShiftedA(w, m)
    [] k = 10 -> Before(RootsFwd, ShiftedA(w, m))
    [] k = 11 -> CosetA(w, m)
    [] k = 12 -> ShiftedB(m)
    [] k = 13 -> Before(RootsFwd, ShiftedB(m))
    [] k = 14 -> CosetB(m)
    [] k = 15 -> PCoset(w, m)
    [] k = 16 -> Before(RootsInv, PCoset(w, m))
    [] k = 17 -> PCoeffU(w, m)
    [] k = 18 -> PCoeffS(w, m)
    [] k = 19 -> PCoeff(w, m)
    [] k = 20 -> Before(RootsFwd, PCoeff(w, m))
    [] k = 21 -> PFull(w, m)
    [] k = 22 -> Out(w, m)

\* The last moment its output is needed, by the number of dispatches that have ended.
LastRead(k) == CASE k = 1 -> 4 [] k = 2 -> 11 [] k = 11 -> 14 [] OTHER -> k

\* A blob's buffers after n dispatches: what was staged until it is read, and what
\* was made and is still to be read.
InPlace(bf, b, n, w, m) ==
  /\ n = 0 => bf["bufRecScratch"][b] = w
  /\ n <= 1 => bf["bufRecMissing"][b] = m
  /\ \A k \in 1..22 : k <= n /\ n <= LastRead(k) => bf[Command(k).out][b] = Made(k, w, m)

\* The tables a recovery reads.
TablesReady(bf) ==
  /\ bf["bufRootsFwd"][0] = RootsFwd /\ bf["bufRootsInv"][0] = RootsInv
  /\ bf["bufCosetShiftFwd"][0] = PowSeq(0) /\ bf["bufCosetShiftInv"][0] = PowSeq(1)
  /\ bf["bufInvExtBlob"][0][0] = FrInv(DomainSize % P)

\* The numbers from 1 to 22.
LEMMA Numbers ==
  ASSUME NEW k \in 1..22
  PROVE  \/ k = 1 \/ k = 2 \/ k = 3 \/ k = 4 \/ k = 5 \/ k = 6 \/ k = 7 \/ k = 8
         \/ k = 9 \/ k = 10 \/ k = 11 \/ k = 12 \/ k = 13 \/ k = 14 \/ k = 15
         \/ k = 16 \/ k = 17 \/ k = 18 \/ k = 19 \/ k = 20 \/ k = 21 \/ k = 22
  OBVIOUS

\* Where the dispatches of a recovery write.
LEMMA Outs ==
  /\ Command(1).out = "bufRecBrp" /\ Command(2).out = "bufRecZCoeff"
  /\ Command(3).out = "bufRecScratch" /\ Command(4).out = "bufRecZEval"
  /\ Command(5).out = "bufRecEZEval" /\ Command(6).out = "bufRecScratch"
  /\ Command(7).out = "bufRecEZCoeff" /\ Command(8).out = "bufRecEZCoeff"
  /\ Command(9).out = "bufRecShiftedA" /\ Command(10).out = "bufRecScratch"
  /\ Command(11).out = "bufRecCosetA" /\ Command(12).out = "bufRecShiftedA"
  /\ Command(13).out = "bufRecScratch" /\ Command(14).out = "bufRecCosetB"
  /\ Command(15).out = "bufRecPCoset" /\ Command(16).out = "bufRecScratch"
  /\ Command(17).out = "bufRecPCoeffU" /\ Command(18).out = "bufRecPCoeffU"
  /\ Command(19).out = "bufRecPCoeff" /\ Command(20).out = "bufRecScratch"
  /\ Command(21).out = "bufRecPFull" /\ Command(22).out = "bufRecOut"
  BY DEF Command, Recording

\* An output that is still to be read is in its buffer.
LEMMA StillThere ==
  ASSUME NEW bf, NEW b, NEW n, NEW w, NEW m, InPlace(bf, b, n, w, m),
         NEW k \in 1..22, k <= n, n <= LastRead(k), NEW out, Command(k).out = out
  PROVE  bf[out][b] = Made(k, w, m)
  BY DEF InPlace

\* The next dispatch makes what it should of what is in place.
LEMMA MakesNext ==
  ASSUME NEW bf, NEW b, NEW n \in 0..21, NEW w, NEW m, InPlace(bf, b, n, w, m), TablesReady(bf)
  PROVE  RecoverKernel(Command(n + 1), bf, b) = Made(n + 1, w, m)
  <1>1. CASE n = 0
    <2>1. bf["bufRecScratch"][b] = w
      BY <1>1 DEF InPlace
    <2>2. RecoverKernel(Command(1), bf, b) = CellsToFr(bf["bufRecScratch"][b])
      BY DEF Command, RecoverKernel, Recording
    <2>3. CellsToFr(bf["bufRecScratch"][b]) = CellsToFr(w)
      BY <2>1, Zenon DEF TablesReady
    <2> QED BY <1>1, <2>2, <2>3 DEF Made
  <1>2. CASE n = 1
    <2>1. bf["bufRecMissing"][b] = m
      BY <1>2 DEF InPlace
    <2>2. RecoverKernel(Command(2), bf, b) = Spread(Short(bf["bufRecMissing"][b]))
      BY DEF Command, RecoverKernel, Recording
    <2>3. Spread(Short(bf["bufRecMissing"][b])) = ZCoeff(m)
      BY <2>1, Zenon DEF TablesReady, ZCoeff
    <2> QED BY <1>2, <2>2, <2>3 DEF Made
  <1>3. CASE n = 2
    <2>1. bf["bufRecZCoeff"][b] = ZCoeff(m)
      BY <1>3, Outs, StillThere DEF LastRead, Made
    <2>2. RecoverKernel(Command(3), bf, b) = Before(bf["bufRootsFwd"][0], bf["bufRecZCoeff"][b])
      BY DEF Command, RecoverKernel, Recording, NttKernel, Before, Mode
    <2>3. Before(bf["bufRootsFwd"][0], bf["bufRecZCoeff"][b]) = Before(RootsFwd, ZCoeff(m))
      BY <2>1, Zenon DEF TablesReady
    <2> QED BY <1>3, <2>2, <2>3 DEF Made
  <1>4. CASE n = 3
    <2>1. bf["bufRecScratch"][b] = Before(RootsFwd, ZCoeff(m))
      BY <1>4, Outs, StillThere DEF LastRead, Made
    <2>2. RecoverKernel(Command(4), bf, b) = After(bf["bufRootsFwd"][0], bf["bufRecScratch"][b])
      BY DEF Command, RecoverKernel, Recording, NttKernel, After, Mode
    <2>3. After(bf["bufRootsFwd"][0], bf["bufRecScratch"][b]) = ZEval(m)
      BY <2>1, Zenon DEF TablesReady, ZEval, Transform
    <2> QED BY <1>4, <2>2, <2>3 DEF Made
  <1>5. CASE n = 4
    <2>1. bf["bufRecBrp"][b] = CellsToFr(w)
      BY <1>5, Outs, StillThere DEF LastRead, Made
    <2>2. bf["bufRecZEval"][b] = ZEval(m)
      BY <1>5, Outs, StillThere DEF LastRead, Made
    <2>3. RecoverKernel(Command(5), bf, b) = EwMul(bf["bufRecBrp"][b], bf["bufRecZEval"][b])
      BY DEF Command, RecoverKernel, Recording, Operand
    <2>4. EwMul(bf["bufRecBrp"][b], bf["bufRecZEval"][b]) = EZEval(w, m)
      BY <2>1, <2>2, Zenon DEF TablesReady, EZEval
    <2> QED BY <1>5, <2>3, <2>4 DEF Made
  <1>6. CASE n = 5
    <2>1. bf["bufRecEZEval"][b] = EZEval(w, m)
      BY <1>6, Outs, StillThere DEF LastRead, Made
    <2>2. RecoverKernel(Command(6), bf, b) = Before(bf["bufRootsInv"][0], bf["bufRecEZEval"][b])
      BY DEF Command, RecoverKernel, Recording, NttKernel, Before, Mode
    <2>3. Before(bf["bufRootsInv"][0], bf["bufRecEZEval"][b]) = Before(RootsInv, EZEval(w, m))
      BY <2>1, Zenon DEF TablesReady
    <2> QED BY <1>6, <2>2, <2>3 DEF Made
  <1>7. CASE n = 6
    <2>1. bf["bufRecScratch"][b] = Before(RootsInv, EZEval(w, m))
      BY <1>7, Outs, StillThere DEF LastRead, Made
    <2>2. RecoverKernel(Command(7), bf, b) = After(bf["bufRootsInv"][0], bf["bufRecScratch"][b])
      BY DEF Command, RecoverKernel, Recording, NttKernel, After, Mode
    <2>3. After(bf["bufRootsInv"][0], bf["bufRecScratch"][b]) = EZCoeffU(w, m)
      BY <2>1, Zenon DEF TablesReady, EZCoeffU, Transform
    <2> QED BY <1>7, <2>2, <2>3 DEF Made
  <1>8. CASE n = 7
    <2>1. bf["bufRecEZCoeff"][b] = EZCoeffU(w, m)
      BY <1>8, Outs, StillThere DEF LastRead, Made
    <2>2. RecoverKernel(Command(8), bf, b) =
        EwMul(bf["bufRecEZCoeff"][b], [i \in Exponents |-> bf["bufInvExtBlob"][0][0]])
      BY DEF Command, RecoverKernel, Recording, Operand
    <2>3. 
        EwMul(bf["bufRecEZCoeff"][b], [i \in Exponents |-> bf["bufInvExtBlob"][0][0]]) = EZCoeff(w, m)
      BY <2>1, Zenon DEF TablesReady, EZCoeff, Rescaled
    <2> QED BY <1>8, <2>2, <2>3 DEF Made
  <1>9. CASE n = 8
    <2>1. bf["bufRecEZCoeff"][b] = EZCoeff(w, m)
      BY <1>9, Outs, StillThere DEF LastRead, Made
    <2>2. RecoverKernel(Command(9), bf, b) = EwMul(bf["bufRecEZCoeff"][b], bf["bufCosetShiftFwd"][0])
      BY DEF Command, RecoverKernel, Recording, Operand
    <2>3. EwMul(bf["bufRecEZCoeff"][b], bf["bufCosetShiftFwd"][0]) = ShiftedA(w, m)
      BY <2>1, Zenon DEF TablesReady, ShiftedA
    <2> QED BY <1>9, <2>2, <2>3 DEF Made
  <1>10. CASE n = 9
    <2>1. bf["bufRecShiftedA"][b] = ShiftedA(w, m)
      BY <1>10, Outs, StillThere DEF LastRead, Made
    <2>2. RecoverKernel(Command(10), bf, b) = Before(bf["bufRootsFwd"][0], bf["bufRecShiftedA"][b])
      BY DEF Command, RecoverKernel, Recording, NttKernel, Before, Mode
    <2>3. Before(bf["bufRootsFwd"][0], bf["bufRecShiftedA"][b]) = Before(RootsFwd, ShiftedA(w, m))
      BY <2>1, Zenon DEF TablesReady
    <2> QED BY <1>10, <2>2, <2>3 DEF Made
  <1>11. CASE n = 10
    <2>1. bf["bufRecScratch"][b] = Before(RootsFwd, ShiftedA(w, m))
      BY <1>11, Outs, StillThere DEF LastRead, Made
    <2>2. RecoverKernel(Command(11), bf, b) = After(bf["bufRootsFwd"][0], bf["bufRecScratch"][b])
      BY DEF Command, RecoverKernel, Recording, NttKernel, After, Mode
    <2>3. After(bf["bufRootsFwd"][0], bf["bufRecScratch"][b]) = CosetA(w, m)
      BY <2>1, Zenon DEF TablesReady, CosetA, Transform
    <2> QED BY <1>11, <2>2, <2>3 DEF Made
  <1>12. CASE n = 11
    <2>1. bf["bufRecZCoeff"][b] = ZCoeff(m)
      BY <1>12, Outs, StillThere DEF LastRead, Made
    <2>2. RecoverKernel(Command(12), bf, b) = EwMul(bf["bufRecZCoeff"][b], bf["bufCosetShiftFwd"][0])
      BY DEF Command, RecoverKernel, Recording, Operand
    <2>3. EwMul(bf["bufRecZCoeff"][b], bf["bufCosetShiftFwd"][0]) = ShiftedB(m)
      BY <2>1, Zenon DEF TablesReady, ShiftedB
    <2> QED BY <1>12, <2>2, <2>3 DEF Made
  <1>13. CASE n = 12
    <2>1. bf["bufRecShiftedA"][b] = ShiftedB(m)
      BY <1>13, Outs, StillThere DEF LastRead, Made
    <2>2. RecoverKernel(Command(13), bf, b) = Before(bf["bufRootsFwd"][0], bf["bufRecShiftedA"][b])
      BY DEF Command, RecoverKernel, Recording, NttKernel, Before, Mode
    <2>3. Before(bf["bufRootsFwd"][0], bf["bufRecShiftedA"][b]) = Before(RootsFwd, ShiftedB(m))
      BY <2>1, Zenon DEF TablesReady
    <2> QED BY <1>13, <2>2, <2>3 DEF Made
  <1>14. CASE n = 13
    <2>1. bf["bufRecScratch"][b] = Before(RootsFwd, ShiftedB(m))
      BY <1>14, Outs, StillThere DEF LastRead, Made
    <2>2. RecoverKernel(Command(14), bf, b) = After(bf["bufRootsFwd"][0], bf["bufRecScratch"][b])
      BY DEF Command, RecoverKernel, Recording, NttKernel, After, Mode
    <2>3. After(bf["bufRootsFwd"][0], bf["bufRecScratch"][b]) = CosetB(m)
      BY <2>1, Zenon DEF TablesReady, CosetB, Transform
    <2> QED BY <1>14, <2>2, <2>3 DEF Made
  <1>15. CASE n = 14
    <2>1. bf["bufRecCosetA"][b] = CosetA(w, m)
      BY <1>15, Outs, StillThere DEF LastRead, Made
    <2>2. bf["bufRecCosetB"][b] = CosetB(m)
      BY <1>15, Outs, StillThere DEF LastRead, Made
    <2>3. RecoverKernel(Command(15), bf, b) = EwDiv(bf["bufRecCosetA"][b], bf["bufRecCosetB"][b])
      BY DEF Command, RecoverKernel, Recording
    <2>4. EwDiv(bf["bufRecCosetA"][b], bf["bufRecCosetB"][b]) = PCoset(w, m)
      BY <2>1, <2>2, Zenon DEF TablesReady, PCoset
    <2> QED BY <1>15, <2>3, <2>4 DEF Made
  <1>16. CASE n = 15
    <2>1. bf["bufRecPCoset"][b] = PCoset(w, m)
      BY <1>16, Outs, StillThere DEF LastRead, Made
    <2>2. RecoverKernel(Command(16), bf, b) = Before(bf["bufRootsInv"][0], bf["bufRecPCoset"][b])
      BY DEF Command, RecoverKernel, Recording, NttKernel, Before, Mode
    <2>3. Before(bf["bufRootsInv"][0], bf["bufRecPCoset"][b]) = Before(RootsInv, PCoset(w, m))
      BY <2>1, Zenon DEF TablesReady
    <2> QED BY <1>16, <2>2, <2>3 DEF Made
  <1>17. CASE n = 16
    <2>1. bf["bufRecScratch"][b] = Before(RootsInv, PCoset(w, m))
      BY <1>17, Outs, StillThere DEF LastRead, Made
    <2>2. RecoverKernel(Command(17), bf, b) = After(bf["bufRootsInv"][0], bf["bufRecScratch"][b])
      BY DEF Command, RecoverKernel, Recording, NttKernel, After, Mode
    <2>3. After(bf["bufRootsInv"][0], bf["bufRecScratch"][b]) = PCoeffU(w, m)
      BY <2>1, Zenon DEF TablesReady, PCoeffU, Transform
    <2> QED BY <1>17, <2>2, <2>3 DEF Made
  <1>18. CASE n = 17
    <2>1. bf["bufRecPCoeffU"][b] = PCoeffU(w, m)
      BY <1>18, Outs, StillThere DEF LastRead, Made
    <2>2. RecoverKernel(Command(18), bf, b) =
        EwMul(bf["bufRecPCoeffU"][b], [i \in Exponents |-> bf["bufInvExtBlob"][0][0]])
      BY DEF Command, RecoverKernel, Recording, Operand
    <2>3. 
        EwMul(bf["bufRecPCoeffU"][b], [i \in Exponents |-> bf["bufInvExtBlob"][0][0]]) = PCoeffS(w, m)
      BY <2>1, Zenon DEF TablesReady, PCoeffS, Rescaled
    <2> QED BY <1>18, <2>2, <2>3 DEF Made
  <1>19. CASE n = 18
    <2>1. bf["bufRecPCoeffU"][b] = PCoeffS(w, m)
      BY <1>19, Outs, StillThere DEF LastRead, Made
    <2>2. RecoverKernel(Command(19), bf, b) = EwMul(bf["bufRecPCoeffU"][b], bf["bufCosetShiftInv"][0])
      BY DEF Command, RecoverKernel, Recording, Operand
    <2>3. EwMul(bf["bufRecPCoeffU"][b], bf["bufCosetShiftInv"][0]) = PCoeff(w, m)
      BY <2>1, Zenon DEF TablesReady, PCoeff
    <2> QED BY <1>19, <2>2, <2>3 DEF Made
  <1>20. CASE n = 19
    <2>1. bf["bufRecPCoeff"][b] = PCoeff(w, m)
      BY <1>20, Outs, StillThere DEF LastRead, Made
    <2>2. RecoverKernel(Command(20), bf, b) = Before(bf["bufRootsFwd"][0], bf["bufRecPCoeff"][b])
      BY DEF Command, RecoverKernel, Recording, NttKernel, Before, Mode
    <2>3. Before(bf["bufRootsFwd"][0], bf["bufRecPCoeff"][b]) = Before(RootsFwd, PCoeff(w, m))
      BY <2>1, Zenon DEF TablesReady
    <2> QED BY <1>20, <2>2, <2>3 DEF Made
  <1>21. CASE n = 20
    <2>1. bf["bufRecScratch"][b] = Before(RootsFwd, PCoeff(w, m))
      BY <1>21, Outs, StillThere DEF LastRead, Made
    <2>2. RecoverKernel(Command(21), bf, b) = After(bf["bufRootsFwd"][0], bf["bufRecScratch"][b])
      BY DEF Command, RecoverKernel, Recording, NttKernel, After, Mode
    <2>3. After(bf["bufRootsFwd"][0], bf["bufRecScratch"][b]) = PFull(w, m)
      BY <2>1, Zenon DEF TablesReady, PFull, Transform
    <2> QED BY <1>21, <2>2, <2>3 DEF Made
  <1>22. CASE n = 21
    <2>1. bf["bufRecPFull"][b] = PFull(w, m)
      BY <1>22, Outs, StillThere DEF LastRead, Made
    <2>2. RecoverKernel(Command(22), bf, b) = FrToCells(bf["bufRecPFull"][b])
      BY DEF Command, RecoverKernel, Recording
    <2>3. FrToCells(bf["bufRecPFull"][b]) = Out(w, m)
      BY <2>1, Zenon DEF TablesReady, Out
    <2> QED BY <1>22, <2>2, <2>3 DEF Made
  <1> QED BY <1>1, <1>2, <1>3, <1>4, <1>5, <1>6, <1>7, <1>8, <1>9, <1>10, <1>11,
              <1>12, <1>13, <1>14, <1>15, <1>16, <1>17, <1>18, <1>19, <1>20, <1>21, <1>22

-----------------------------------------------------------------------------
(* The inductive invariant of the buffers *)

\* How many dispatches have ended.
Ended == IF running = {} THEN begun ELSE begun - 1

\* A recovery's batch, of which each blob has half of its cells at least.
RecoverCall(c) ==
  /\ Len(c.cells) \in 1..MaxBatch
  /\ \A b \in 0..(Len(c.cells) - 1) :
       Stageable(c.polys[b + 1], c.gone[b + 1], c.cells[b + 1])

\* The tables after n dispatches: the setup makes those of the coset, and nothing
\* writes to any of them again.
TablesAfter(kind, n, bf) ==
  /\ bf["bufRootsFwd"][0] = RootsFwd /\ bf["bufRootsInv"][0] = RootsInv
  /\ kind # "setup" \/ n >= 1 => /\ bf["bufCosetShiftFwd"][0] = PowSeq(0)
                                 /\ bf["bufInvExtBlob"][0][0] = FrInv(DomainSize % P)
  /\ kind # "setup" \/ n >= 2 => bf["bufCosetShiftInv"][0] = PowSeq(1)

\* What a recovery computes with is in the field, in every blob's buffers.
FieldsIn(bf) ==
  \A x \in RecoverBuffers \ {"bufRecMissing", "bufRecScratch"} :
    \A b \in Blobs : bf[x][b] \in [Exponents -> Field]

\* Every blob of a recovery has its own values in place.
BatchInPlace(c, n, bf) ==
  \A b \in 0..(Len(c.cells) - 1) :
    InPlace(bf, b, n, c.cells[b + 1], MissingList(c.gone[b + 1]))

RInv ==
  /\ calls <= Len(Calls) /\ begun <= Len(Recorded)
  /\ calls = 0 \/ buf["bufErr"][0] \in {0, 1}
  /\ TablesAfter(call.kind, Ended, buf)
  /\ FieldsIn(buf)
  /\ call.kind = "recover" => RecoverCall(call) /\ BatchInPlace(call, Ended, buf)

\* Where the dispatches write, and that none writes over what is still to be read.
CommandIs(k) ==
  /\ Command(k).out \in RecoverBuffers /\ Command(k).out # "bufRecMissing"
  /\ Command(k).kernel \notin {"blob_to_fr", "pow_seq"}
  /\ \A j \in 1..22 : j < k /\ k <= LastRead(j) => Command(j).out # Command(k).out

\* It is so of every dispatch of a recovery.
LEMMA CommandsAre == ASSUME NEW k \in 1..22 PROVE CommandIs(k)
  <1>1. Command(k).out \in RecoverBuffers /\ Command(k).out # "bufRecMissing"
    BY Numbers, Outs DEF RecoverBuffers
  <1>2. Command(k).kernel \notin {"blob_to_fr", "pow_seq"}
    BY Numbers DEF Command, Recording
  <1>3. ASSUME NEW j \in 1..22, j < k, k <= LastRead(j) PROVE Command(j).out # Command(k).out
    <2>1. \/ j = 1 /\ k \in 2..4
          \/ j = 2 /\ k \in 3..11
          \/ j = 11 /\ k \in 12..14
      BY <1>3 DEF LastRead
    <2> QED BY <2>1, Numbers, Outs
  <1> QED BY <1>1, <1>2, <1>3 DEF CommandIs

\* What is made, the first half of a transform aside, is in the field.
LEMMA MadeIn ==
  ASSUME NEW p, NEW G, NEW w, Stageable(p, G, w), NEW m, m = MissingList(G),
         NEW k \in 1..22, Command(k).out # "bufRecScratch"
  PROVE  Made(k, w, m) \in [Exponents -> Field]
  BY Numbers, Outs, ValuesIn DEF Made

\* A dispatch that ends leaves in place what is still to be read, and what it made.
LEMMA InPlaceNext ==
  ASSUME NEW bf, NEW bg, NEW b, NEW n \in 0..21, NEW w, NEW m,
         InPlace(bf, b, n, w, m), TablesReady(bf),
         bg[Command(n + 1).out][b] = RecoverKernel(Command(n + 1), bf, b),
         \A x \in RecoverBuffers : x # Command(n + 1).out => bg[x][b] = bf[x][b]
  PROVE  InPlace(bg, b, n + 1, w, m)
  <1> DEFINE c == Command(n + 1)
  <1>1. n + 1 \in 1..22 /\ n \in Nat
    OBVIOUS
  <1>2. CommandIs(n + 1)
    BY <1>1, CommandsAre
  <1>3. c.out # "bufRecMissing" /\ "bufRecMissing" \in RecoverBuffers
    BY <1>2 DEF CommandIs, RecoverBuffers
  <1>4. n + 1 <= 1 => bg["bufRecMissing"][b] = m
    <2>1. n + 1 <= 1 => bf["bufRecMissing"][b] = m
      BY DEF InPlace
    <2>2. bg["bufRecMissing"][b] = bf["bufRecMissing"][b]
      BY <1>3, Zenon
    <2> QED BY <2>1, <2>2
  <1>5. bg[c.out][b] = Made(n + 1, w, m)
    BY MakesNext
  <1>6. ASSUME NEW k \in 1..22, k <= n + 1, n + 1 <= LastRead(k)
        PROVE  bg[Command(k).out][b] = Made(k, w, m)
    <2>1. CASE k = n + 1
      BY <1>5, <2>1
    <2>2. CASE k < n + 1
      <3>1. LastRead(k) \in Nat
        BY DEF LastRead
      <3>2. k <= n /\ n <= LastRead(k)
        BY <1>1, <1>6, <2>2, <3>1
      <3>3. bf[Command(k).out][b] = Made(k, w, m)
        BY <3>2 DEF InPlace
      <3>4. Command(k).out # c.out
        BY <1>2, <1>6, <2>2 DEF CommandIs
      <3>5. Command(k).out \in RecoverBuffers
        BY CommandsAre DEF CommandIs
      <3> QED BY <3>3, <3>4, <3>5, Zenon
    <2> QED BY <1>1, <1>6, <2>1, <2>2
  <1>7. ~(n + 1 = 0)
    BY <1>1
  <1> QED BY <1>4, <1>6, <1>7 DEF InPlace

-----------------------------------------------------------------------------
(* What the steps do to the buffers of a recovery *)

\* The buffers of the two pipelines and the tables are different ones.
LEMMA Apart ==
  /\ \A x \in RecoverBuffers \cup CosetTables \cup SetupTables : x \in AllBuffers /\ x \notin ProofBuffers
  /\ \A x \in CosetTables \cup SetupTables : x \notin RecoverBuffers
  /\ \A x \in SetupTables : x \notin CosetTables
  /\ "bufErr" \notin RecoverBuffers \cup CosetTables \cup SetupTables
  /\ {"bufRootsFwd", "bufRootsInv"} \subseteq SetupTables
  /\ CosetTables = {"bufCosetShiftFwd", "bufCosetShiftInv", "bufInvExtBlob"}
  BY DEF AllBuffers, ProofBuffers, RecoverBuffers, CosetTables, SetupTables

\* Tables that are not written to are what they were.
LEMMA TablesStay ==
  ASSUME NEW kind, NEW n, NEW bf, NEW bg, TablesAfter(kind, n, bf),
         \A x \in CosetTables \cup SetupTables : bg[x][0] = bf[x][0]
  PROVE  TablesAfter(kind, n, bg)
  <1>1. /\ bg["bufRootsFwd"][0] = bf["bufRootsFwd"][0] /\ bg["bufRootsInv"][0] = bf["bufRootsInv"][0]
        /\ bg["bufCosetShiftFwd"][0] = bf["bufCosetShiftFwd"][0]
        /\ bg["bufCosetShiftInv"][0] = bf["bufCosetShiftInv"][0]
        /\ bg["bufInvExtBlob"][0] = bf["bufInvExtBlob"][0]
    BY Apart
  <1> QED BY <1>1, Zenon DEF TablesAfter

\* Once a batch may begin, and from then on, all tables are ready.
LEMMA TablesFilled ==
  /\ \A kind, n, bf : kind # "setup" => (TablesAfter(kind, n, bf) <=> TablesReady(bf))
  /\ \A kind, n, bf : n = 2 => (TablesAfter(kind, n, bf) <=> TablesReady(bf))
  <1>1. ASSUME NEW kind, NEW n, NEW bf, kind # "setup"
        PROVE  TablesAfter(kind, n, bf) <=> TablesReady(bf)
    BY <1>1, Zenon DEF TablesAfter, TablesReady
  <1>2. ASSUME NEW kind, NEW n, NEW bf, n = 2
        PROVE  TablesAfter(kind, n, bf) <=> TablesReady(bf)
    <2>1. n >= 1 /\ n >= 2
      BY <1>2
    <2> QED BY <2>1, Zenon DEF TablesAfter, TablesReady
  <1> QED BY <1>1, <1>2

\* The setup's two dispatches.
LEMMA SetupCommandsAre ==
  /\ Len(SetupCommands) = 2
  /\ \A k \in 1..2 : SetupCommands[k].kernel = "pow_seq" /\ SetupCommands[k].mode = k - 1
  /\ SetupCommands[1].out = "bufCosetShiftFwd" /\ SetupCommands[2].out = "bufCosetShiftInv"
  <1> DEFINE c == [kernel |-> "pow_seq", out |-> "bufCosetShiftFwd", a |-> Unused, b |-> Unused, mode |-> 0]
             d == [kernel |-> "pow_seq", out |-> "bufCosetShiftInv", a |-> Unused, b |-> Unused, mode |-> 1]
  <1>1. SetupCommands = <<c>> \o <<d>>
    BY DEF SetupCommands, Dispatch, Unused
  <1>2. c.kernel = "pow_seq" /\ c.out = "bufCosetShiftFwd" /\ c.mode = 0
    OBVIOUS
  <1>3. d.kernel = "pow_seq" /\ d.out = "bufCosetShiftInv" /\ d.mode = 1
    OBVIOUS
  <1> HIDE DEF c, d
  <1>4. Len(SetupCommands) = 2 /\ SetupCommands[1] = c /\ SetupCommands[2] = d
    BY <1>1
  <1>5. \A k \in 1..2 : k = 1 \/ k = 2
    OBVIOUS
  <1> QED BY <1>2, <1>3, <1>4, <1>5

\* How many commands each kind of call has.
LEMMA Lengths ==
  /\ call.kind = "setup" => Recorded = SetupCommands /\ Len(Recorded) = 2
  /\ call.kind = "prove" => Recorded = ProofCommands /\ Len(Recorded) \in Nat
  /\ call.kind = "recover" => Recorded = RecoverCommands /\ Len(Recorded) = 22
  <1>1. Len(ProofCommands) \in Nat
    BY ProofCommandsBegin DEF BeginWithBlobs
  <1>2. call.kind = "setup" => Recorded = SetupCommands
    BY DEF Recorded
  <1>3. call.kind = "prove" => Recorded = ProofCommands
    BY DEF Recorded
  <1>4. call.kind = "recover" => Recorded = RecoverCommands
    BY DEF Recorded
  <1> QED BY <1>1, <1>2, <1>3, <1>4, SetupCommandsAre, RecoverCommandsAre

\* What a dispatch of a recovery stores.
LEMMA StoredByRecovery ==
  ASSUME NEW k \in 1..22, call.kind = "recover"
  PROVE  /\ DOMAIN Stored(Command(k)) = {Command(k).out}
         /\ Stored(Command(k))[Command(k).out]
              = [b \in 0..(BatchSize - 1) |-> RecoverKernel(Command(k), buf, b)]
  <1> DEFINE d == Command(k)
  <1>1. d.kernel \notin {"blob_to_fr", "pow_seq"} /\ d.out \in RecoverBuffers
    BY CommandsAre DEF CommandIs
  <1>2. d.out # "bufErr" /\ d.out # "bufInvExtBlob"
    BY <1>1, Apart
  <1> HIDE DEF d
  <1>3. ~Refuses(d)
    BY <1>1 DEF Refuses
  <1>4. DOMAIN Stored(d) = {d.out}
    BY <1>1, <1>3 DEF Stored
  <1>5. \A b : Kernel(d, b) = RecoverKernel(d, buf, b)
    BY DEF Kernel
  <1>6. Stored(d)[d.out] = [b \in 0..(BatchSize - 1) |-> Kernel(d, b)]
    BY <1>2 DEF Stored
  <1>7. Stored(d)[d.out] = [b \in 0..(BatchSize - 1) |-> RecoverKernel(d, buf, b)]
    BY <1>5, <1>6
  <1> QED BY <1>4, <1>7 DEF d

\* What a dispatch of the setup stores.
LEMMA StoredBySetup ==
  ASSUME NEW k \in 1..2, call.kind = "setup"
  PROVE  LET d == SetupCommands[k] IN
         /\ d.out = IF k = 1 THEN "bufCosetShiftFwd" ELSE "bufCosetShiftInv"
         /\ DOMAIN Stored(d) = {d.out, "bufInvExtBlob"}
         /\ Stored(d)[d.out] = [b \in {0} |-> PowSeq(k - 1)]
         /\ Stored(d)["bufInvExtBlob"] = [b \in {0} |-> [e \in {0} |-> FrInv(DomainSize % P)]]
  <1> DEFINE d == SetupCommands[k]
  <1>1. /\ d.kernel = "pow_seq" /\ d.mode = k - 1
        /\ d.out = IF k = 1 THEN "bufCosetShiftFwd" ELSE "bufCosetShiftInv"
    BY SetupCommandsAre
  <1> HIDE DEF d
  <1>2. ~Refuses(d) /\ d.out # "bufErr" /\ d.out # "bufInvExtBlob"
    BY <1>1 DEF Refuses
  <1>3. DOMAIN Stored(d) = {d.out, "bufInvExtBlob"}
    BY <1>1, <1>2 DEF Stored
  <1>4. Stored(d)["bufInvExtBlob"] = [b \in {0} |-> [e \in {0} |-> FrInv(DomainSize % P)]]
    BY <1>1 DEF Stored
  <1>5. BatchSize = 1 /\ 0..(1 - 1) = {0}
    BY DEF BatchSize
  <1>6. \A b : Kernel(d, b) = PowSeq(k - 1)
    BY <1>1 DEF Kernel
  <1>7. Stored(d)[d.out] = [b \in 0..(BatchSize - 1) |-> Kernel(d, b)]
    BY <1>1, <1>2 DEF Stored
  <1>8. Stored(d)[d.out] = [b \in {0} |-> PowSeq(k - 1)]
    BY <1>5, <1>6, <1>7
  <1> QED BY <1>1, <1>3, <1>4, <1>8 DEF d

-----------------------------------------------------------------------------
(* The steps *)

\* A call that may be made to recover cells.
LEMMA CallsAre ==
  ASSUME NEW n \in DOMAIN Calls, NEW c \in Calls[n]
  PROVE  /\ c \in ProveBatch \cup RecoverBatch /\ c.kind \in {"prove", "recover"}
         /\ c.kind = "recover" => RecoverCall(c)
  <1>1. c \in ProveBatch \cup RecoverBatch
    BY PassesAssumption
  <1>2. c.kind \in {"prove", "recover"} /\ (c.kind = "recover" => c \in RecoverBatch)
    BY <1>1 DEF ProveBatch, RecoverBatch
  <1>3. ASSUME c.kind = "recover" PROVE RecoverCall(c)
    <2>1. c \in RecoverBatch
      BY <1>2, <1>3
    <2>2. /\ c.cells \in Seq([Exponents -> Bytes32]) /\ c.polys \in Seq([BlobExponents -> Field])
          /\ c.gone \in Seq(SUBSET (0..(Cells - 1)))
      BY <2>1 DEF RecoverBatch
    <2>3. /\ Len(c.cells) \in 1..MaxBatch
          /\ Len(c.gone) = Len(c.cells) /\ Len(c.polys) = Len(c.cells)
          /\ \A b \in DOMAIN c.cells :
               Cardinality(c.gone[b]) <= Half /\ Belong(c.cells[b], c.gone[b], c.polys[b])
      BY <1>3, PassesAssumption
    <2>4. ASSUME NEW b \in 0..(Len(c.cells) - 1)
          PROVE  Stageable(c.polys[b + 1], c.gone[b + 1], c.cells[b + 1])
      <3>1. b + 1 \in 1..Len(c.cells) /\ DOMAIN c.cells = 1..Len(c.cells)
        BY <2>2, <2>3
      <3>2. c.polys[b + 1] \in [BlobExponents -> Field]
        BY <2>2, <2>3, <3>1
      <3>3. c.gone[b + 1] \subseteq 0..(Cells - 1) /\ Cardinality(c.gone[b + 1]) <= Half
        BY <2>2, <2>3, <3>1
      <3>4. Belong(c.cells[b + 1], c.gone[b + 1], c.polys[b + 1])
        BY <2>3, <3>1
      <3>5. c.cells[b + 1] \in [Exponents -> Bytes32] /\ Bytes32 \subseteq Int
        BY <2>2, <3>1 DEF Bytes32
      <3>6. \A e \in Exponents : c.cells[b + 1][e] \in Int
        BY <3>5
      <3> QED BY <3>2, <3>3, <3>4, <3>6 DEF Stageable, MayMiss
    <2> QED BY <2>3, <2>4 DEF RecoverCall
  <1> QED BY <1>1, <1>2, <1>3

\* A batch finds the tables ready, and its blobs' values are put in place.
LEMMA CallKeeps == ASSUME IInv, RInv, Call PROVE RInv'
  <1>1. PICK c \in Calls[calls + 1] : call' = c
    BY DEF Call
  <1>2. /\ calls \in Nat /\ calls < Len(Calls) /\ calls' = calls + 1 /\ begun' = 0
        /\ running = {} /\ running' = {} /\ begun = Len(Recorded) /\ Len(Calls) \in Nat
    BY PassesAssumption DEF IInv, Where, Call, Complete
  <1>3. calls + 1 \in DOMAIN Calls
    BY <1>2, PassesAssumption
  <1>4. /\ c \in ProveBatch \cup RecoverBatch /\ c.kind \in {"prove", "recover"}
        /\ c.kind = "recover" => RecoverCall(c)
    BY <1>1, <1>3, CallsAre
  <1>5. calls' <= Len(Calls) /\ ~(calls' = 0)
    BY <1>2
  <1>6. begun' <= Len(Recorded)'
    <2>1. c.kind = "prove" => Recorded' = ProofCommands
      BY <1>1 DEF Recorded
    <2>2. c.kind = "recover" => Recorded' = RecoverCommands
      BY <1>1 DEF Recorded
    <2>3. Len(ProofCommands) \in Nat
      BY ProofCommandsBegin DEF BeginWithBlobs
    <2> QED BY <1>2, <1>4, <2>1, <2>2, <2>3, RecoverCommandsAre
  <1>7. Ended = begun /\ Ended' = 0
    BY <1>2 DEF Ended
  <1>8. buf' = Overwritten(Staged(c))
    BY <1>1 DEF Call
  <1>9. TablesReady(buf)
    <2>1. TablesAfter(call.kind, begun, buf)
      BY <1>7 DEF RInv
    <2>2. call.kind = "setup" => begun = 2
      BY <1>2, Lengths
    <2> QED BY <2>1, <2>2, TablesFilled
  <1>10. /\ DOMAIN Staged(c) \subseteq {"bufErr", "bufBlob", "bufRecMissing", "bufRecScratch"}
         /\ "bufErr" \in DOMAIN Staged(c) /\ Staged(c)["bufErr"] = [b \in {0} |-> 0]
    BY DEF Staged
  <1>11. \A x \in AllBuffers, b \in Blobs : x \notin DOMAIN Staged(c) => buf'[x][b] = buf[x][b]
    BY <1>8, OverwrittenAt DEF IInv
  <1>12. TablesAfter(c.kind, 0, buf')
    <2>1. \A x \in CosetTables \cup SetupTables : x \in AllBuffers /\ x \notin DOMAIN Staged(c)
      <3>1. \A x \in CosetTables \cup SetupTables :
              x \notin {"bufErr", "bufBlob", "bufRecMissing", "bufRecScratch"}
        BY DEF CosetTables, SetupTables
      <3> QED BY <1>10, <3>1, Apart
    <2>2. \A x \in CosetTables \cup SetupTables : buf'[x][0] = buf[x][0]
      BY <1>11, <2>1, BufferNames
    <2>3. TablesAfter(c.kind, 0, buf)
      <3>1. c.kind # "setup"
        BY <1>4
      <3> QED BY <1>9, <3>1, TablesFilled
    <2> QED BY <2>2, <2>3, TablesStay
  <1>13. FieldsIn(buf')
    <2>1. ASSUME NEW x \in RecoverBuffers \ {"bufRecMissing", "bufRecScratch"}, NEW b \in Blobs
          PROVE  buf'[x][b] \in [Exponents -> Field]
      <3>1. x \in AllBuffers /\ x # "bufErr" /\ x # "bufBlob"
        BY Apart DEF ProofBuffers
      <3>2. x \notin DOMAIN Staged(c)
        BY <1>10, <3>1
      <3>3. buf'[x][b] = buf[x][b]
        BY <1>11, <3>1, <3>2
      <3> QED BY <3>3 DEF RInv, FieldsIn
    <2> QED BY <2>1 DEF FieldsIn
  <1>14. ASSUME c.kind = "recover" PROVE BatchInPlace(c, 0, buf')
    <2> DEFINE w(b) == c.cells[b + 1]
               m(b) == MissingList(c.gone[b + 1])
               n == Len(c.cells)
    <2>1. /\ DOMAIN Staged(c) = {"bufErr", "bufRecMissing", "bufRecScratch"}
          /\ Staged(c)["bufRecScratch"] = [b \in 0..(n - 1) |-> w(b)]
          /\ Staged(c)["bufRecMissing"] = [b \in 0..(n - 1) |-> m(b)]
      BY <1>14 DEF Staged
    <2>2. n \in 1..MaxBatch
      BY <1>4, <1>14 DEF RecoverCall
    <2>3. ASSUME NEW b \in 0..(n - 1) PROVE InPlace(buf', b, 0, w(b), m(b))
      <3> HIDE DEF n, w, m
      <3>1. b \in Blobs
        BY <2>2, BufferNames
      <3>2. "bufRecScratch" \in AllBuffers /\ "bufRecMissing" \in AllBuffers
        BY Apart DEF RecoverBuffers
      <3>3. buf'["bufRecScratch"][b] = w(b)
        BY <1>8, <2>1, <3>1, <3>2, OverwrittenAt DEF IInv
      <3>4. buf'["bufRecMissing"][b] = m(b)
        BY <1>8, <2>1, <3>1, <3>2, OverwrittenAt DEF IInv
      <3>5. \A k \in 1..22 : ~(k <= 0)
        OBVIOUS
      <3> QED BY <3>3, <3>4, <3>5, Zenon DEF InPlace
    <2> QED BY <2>3 DEF BatchInPlace
  <1>15. buf'["bufErr"][0] = 0
    BY <1>8, <1>10, OverwrittenAt, BufferNames DEF IInv
  <1> QED BY <1>1, <1>4, <1>5, <1>6, <1>7, <1>12, <1>13, <1>14, <1>15 DEF RInv

\* A dispatch that begins changes nothing yet.
LEMMA BeginKeeps == ASSUME IInv, RInv, Begin PROVE RInv'
  <1>1. running = {} /\ begun' = begun + 1 /\ begun \in Nat /\ begun < Len(Recorded)
        /\ UNCHANGED <<calls, call, buf>>
    BY DEF Begin, Separated, IInv, Where
  <1>2. running' # {}
    BY DEF Begin
  <1>3. Ended' = Ended
    BY <1>1, <1>2 DEF Ended
  <1>4. Recorded' = Recorded
    BY <1>1 DEF Recorded
  <1>5. Len(Recorded) \in Nat
    BY Lengths, Kinds DEF IInv
  <1>6. begun' <= Len(Recorded)'
    BY <1>1, <1>4, <1>5
  <1> QED BY <1>1, <1>3, <1>6 DEF RInv

\* A dispatch that ends, of whichever call: what it writes to.
LEMMA EndIs ==
  ASSUME IInv, RInv, End
  PROVE  /\ begun \in 1..Len(Recorded) /\ Len(Recorded) \in Nat
         /\ buf' = Overwritten(Stored(Recorded[begun]))
         /\ Ended = begun - 1 /\ Ended' = begun
         /\ UNCHANGED <<calls, call, begun>> /\ Recorded' = Recorded
         /\ \A x \in AllBuffers, b \in Blobs :
              x \notin DOMAIN Stored(Recorded[begun]) => buf'[x][b] = buf[x][b]
  <1>1. PICK r \in running : buf' = Overwritten(r.val) /\ running' = running \ {r}
                             /\ UNCHANGED <<calls, call, begun>>
    BY DEF End
  <1>2. begun > 0 /\ r = [at |-> begun, val |-> Stored(Recorded[begun])]
    BY DEF IInv, OneAtATime
  <1>3. running' = {} /\ running # {}
    BY <1>1, <1>2 DEF IInv, OneAtATime
  <1>4. Ended = begun - 1 /\ Ended' = begun
    BY <1>1, <1>3 DEF Ended
  <1>5. Len(Recorded) \in Nat /\ begun \in Nat
    BY Lengths, Kinds DEF IInv, Where
  <1>6. begun \in 1..Len(Recorded)
    BY <1>2, <1>5 DEF RInv
  <1>7. r.val = Stored(Recorded[begun])
    BY <1>2
  <1>8. Recorded' = Recorded
    BY <1>1 DEF Recorded
  <1>9. \A x \in AllBuffers, b \in Blobs :
          x \notin DOMAIN Stored(Recorded[begun]) => buf'[x][b] = buf[x][b]
    BY <1>1, <1>7, OverwrittenAt DEF IInv
  <1> QED BY <1>1, <1>4, <1>5, <1>6, <1>7, <1>8, <1>9

\* The setup fills a table.
LEMMA SetupEnds == ASSUME IInv, RInv, End, call.kind = "setup" PROVE RInv'
  <1> DEFINE d == SetupCommands[begun]
  <1>1. begun \in 1..2 /\ Recorded = SetupCommands /\ Len(Recorded) = 2
    BY EndIs, Lengths
  <1>2. /\ d.out = IF begun = 1 THEN "bufCosetShiftFwd" ELSE "bufCosetShiftInv"
        /\ DOMAIN Stored(d) = {d.out, "bufInvExtBlob"}
        /\ Stored(d)[d.out] = [b \in {0} |-> PowSeq(begun - 1)]
        /\ Stored(d)["bufInvExtBlob"] = [b \in {0} |-> [e \in {0} |-> FrInv(DomainSize % P)]]
    BY <1>1, StoredBySetup
  <1>3. /\ buf' = Overwritten(Stored(d)) /\ Ended = begun - 1 /\ Ended' = begun
        /\ UNCHANGED <<calls, call, begun>> /\ Recorded' = Recorded
        /\ \A x \in AllBuffers, b \in Blobs : x \notin DOMAIN Stored(d) => buf'[x][b] = buf[x][b]
    BY <1>1, EndIs
  <1> HIDE DEF d
  <1>4. \A x \in DOMAIN Stored(d) : x \in CosetTables /\ x \in AllBuffers
    BY <1>2, Apart
  <1>5. buf'[d.out][0] = PowSeq(begun - 1)
    <2>1. d.out \in AllBuffers /\ d.out \in DOMAIN Stored(d) /\ 0 \in Blobs
      BY <1>2, <1>4, BufferNames
    <2> QED BY <1>2, <1>3, <2>1, OverwrittenAt DEF IInv
  <1>6. buf'["bufInvExtBlob"][0][0] = FrInv(DomainSize % P)
    <2>1. "bufInvExtBlob" \in AllBuffers /\ 0 \in Blobs
      BY <1>2, <1>4, BufferNames
    <2>2. buf'["bufInvExtBlob"][0] = [e \in {0} |-> FrInv(DomainSize % P)]
      BY <1>2, <1>3, <2>1, OverwrittenAt DEF IInv
    <2> QED BY <2>2
  <1>7. \A x \in AllBuffers : x \notin CosetTables => \A b \in Blobs : buf'[x][b] = buf[x][b]
    BY <1>3, <1>4
  <1>8. TablesAfter("setup", begun, buf')
    <2>1. TablesAfter("setup", begun - 1, buf)
      BY <1>3 DEF RInv
    <2>2. /\ "bufRootsFwd" \in AllBuffers /\ "bufRootsFwd" \notin CosetTables
          /\ "bufRootsInv" \in AllBuffers /\ "bufRootsInv" \notin CosetTables
      BY Apart
    <2>3. buf'["bufRootsFwd"][0] = RootsFwd /\ buf'["bufRootsInv"][0] = RootsInv
      BY <1>7, <2>1, <2>2, BufferNames DEF TablesAfter
    <2>4. buf'["bufCosetShiftFwd"][0] = PowSeq(0)
      <3>1. CASE begun = 1
        BY <1>2, <1>5, <3>1
      <3>2. CASE begun = 2
        <4>1. buf["bufCosetShiftFwd"][0] = PowSeq(0)
          BY <2>1, <3>2 DEF TablesAfter
        <4>2. "bufCosetShiftFwd" \notin DOMAIN Stored(d) /\ "bufCosetShiftFwd" \in AllBuffers
          BY <1>2, <3>2, Apart
        <4> QED BY <1>3, <4>1, <4>2, BufferNames
      <3> QED BY <1>1, <3>1, <3>2
    <2>5. begun >= 2 => buf'["bufCosetShiftInv"][0] = PowSeq(1)
      <3>1. begun >= 2 => begun = 2
        BY <1>1
      <3> QED BY <1>2, <1>5, <3>1
    <2> QED BY <1>6, <2>3, <2>4, <2>5, Zenon DEF TablesAfter
  <1>9. FieldsIn(buf')
    <2>1. \A x \in RecoverBuffers : x \in AllBuffers /\ x \notin CosetTables
      BY Apart
    <2> QED BY <1>7, <2>1 DEF FieldsIn, RInv
  <1>10. calls' = 0 \/ buf'["bufErr"][0] \in {0, 1}
    <2>1. buf'["bufErr"][0] = buf["bufErr"][0]
      BY <1>7, BufferNames, Apart
    <2> QED BY <1>3, <2>1 DEF RInv
  <1> QED BY <1>3, <1>8, <1>9, <1>10 DEF RInv

\* A proof computation leaves the recovery's buffers and the tables alone.
LEMMA ProofEnds == ASSUME IInv, RInv, End, call.kind = "prove" PROVE RInv'
  <1> DEFINE d == Recorded[begun]
  <1>1. d \in {FirstDispatch} \cup LaterDispatch
    <2>1. begun \in 1..Len(ProofCommands) /\ Recorded = ProofCommands
      BY EndIs, Lengths
    <2>2. ProofCommands \in Seq({FirstDispatch} \cup LaterDispatch)
      BY ProofCommandsBegin DEF BeginWithBlobs
    <2> QED BY <2>1, <2>2
  <1>2. /\ UNCHANGED <<calls, call, begun>> /\ Recorded' = Recorded
        /\ \A x \in AllBuffers, b \in Blobs : x \notin DOMAIN Stored(d) => buf'[x][b] = buf[x][b]
    BY EndIs
  <1> HIDE DEF d
  <1>3. DOMAIN Stored(d) \subseteq ProofBuffers
    <2>1. d.kernel # "pow_seq" /\ d.out \in ProofBuffers
      BY <1>1, DispatchFields, Zenon
    <2>2. DOMAIN Stored(d) = {d.out} \cup (IF Refuses(d) THEN {"bufErr"} ELSE {})
      BY <2>1, Zenon DEF Stored
    <2>3. "bufErr" \in ProofBuffers
      BY DEF ProofBuffers
    <2> QED BY <2>1, <2>2, <2>3
  <1>4. \A x \in RecoverBuffers \cup CosetTables \cup SetupTables :
          \A b \in Blobs : buf'[x][b] = buf[x][b]
    BY <1>2, <1>3, Apart
  <1>5. TablesAfter("prove", Ended', buf')
    <2>1. TablesReady(buf)
      <3>1. TablesAfter("prove", Ended, buf)
        BY DEF RInv
      <3> QED BY <3>1, TablesFilled
    <2>2. TablesAfter("prove", Ended', buf)
      BY <2>1, TablesFilled
    <2> QED BY <1>4, <2>2, TablesStay, BufferNames
  <1>6. FieldsIn(buf')
    BY <1>4 DEF FieldsIn, RInv
  <1>7. buf'["bufErr"][0] \in {0, 1}
    <2>1. IInv'
      BY EndSteps
    <2> QED BY <1>2, <2>1 DEF IInv, ErrorWord
  <1> QED BY <1>2, <1>5, <1>6, <1>7 DEF RInv

\* A recovery's dispatch makes its value for every blob of the batch.
LEMMA RecoveryEnds == ASSUME IInv, RInv, End, call.kind = "recover" PROVE RInv'
  <1> DEFINE d == Command(begun)
             n == Len(call.cells)
             w(b) == call.cells[b + 1]
             m(b) == MissingList(call.gone[b + 1])
  <1>1. begun \in 1..22 /\ Recorded[begun] = d /\ begun - 1 \in 0..21 /\ (begun - 1) + 1 = begun
    <2>1. begun \in 1..22 /\ Recorded = RecoverCommands
      BY EndIs, Lengths
    <2> QED BY <2>1, RecoverCommandsAre
  <1>2. BatchSize = n /\ n \in 1..MaxBatch /\ \A b \in 0..(n - 1) : b \in Blobs
    <2>1. BatchSize = n
      BY DEF BatchSize
    <2>2. n \in 1..MaxBatch
      BY DEF RInv, RecoverCall
    <2> QED BY <2>1, <2>2, BufferNames
  <1>3. /\ DOMAIN Stored(d) = {d.out}
        /\ Stored(d)[d.out] = [b \in 0..(n - 1) |-> RecoverKernel(d, buf, b)]
    BY <1>1, <1>2, StoredByRecovery
  <1>4. /\ buf' = Overwritten(Stored(d)) /\ Ended = begun - 1 /\ Ended' = begun
        /\ UNCHANGED <<calls, call, begun>> /\ Recorded' = Recorded
        /\ \A x \in AllBuffers, b \in Blobs : x \notin DOMAIN Stored(d) => buf'[x][b] = buf[x][b]
    BY <1>1, EndIs
  <1>5. d.out \in RecoverBuffers /\ d.out \in AllBuffers
    BY <1>1, CommandsAre, Apart DEF CommandIs
  <1>6. \A b \in 0..(n - 1) : InPlace(buf, b, begun - 1, w(b), m(b))
    BY <1>4 DEF RInv, BatchInPlace
  <1>7. TablesReady(buf)
    <2>1. TablesAfter("recover", Ended, buf)
      BY DEF RInv
    <2> QED BY <2>1, TablesFilled
  <1>8. \A b \in 0..(n - 1) : Stageable(call.polys[b + 1], call.gone[b + 1], call.cells[b + 1])
    BY DEF RInv, RecoverCall
  <1>9. \A x \in AllBuffers : x # d.out => \A b \in Blobs : buf'[x][b] = buf[x][b]
    BY <1>3, <1>4
  <1>10. \A b \in Blobs : buf'[d.out][b] = IF b \in 0..(n - 1) THEN RecoverKernel(d, buf, b)
                                            ELSE buf[d.out][b]
    <2> HIDE DEF d, n
    <2> TAKE b \in Blobs
    <2>1. buf'[d.out][b] = IF d.out \in DOMAIN Stored(d) /\ b \in DOMAIN Stored(d)[d.out]
                           THEN Stored(d)[d.out][b] ELSE buf[d.out][b]
      BY <1>4, <1>5, OverwrittenAt DEF IInv
    <2> QED BY <1>3, <2>1
  <1>11. ASSUME NEW b \in 0..(n - 1) PROVE InPlace(buf', b, begun, w(b), m(b))
    <2>1. b \in Blobs /\ InPlace(buf, b, begun - 1, w(b), m(b))
      BY <1>2, <1>6
    <2>2. buf'[d.out][b] = RecoverKernel(d, buf, b)
      BY <1>10, <2>1
    <2>3. \A x \in RecoverBuffers : x # d.out => buf'[x][b] = buf[x][b]
      BY <1>9, <2>1, Apart
    <2> DEFINE e == begun - 1
    <2>4. e \in 0..21 /\ e + 1 = begun
      BY <1>1
    <2>5. InPlace(buf, b, e, w(b), m(b))
      BY <2>1
    <2> HIDE DEF e, w, m
    <2>6. InPlace(buf', b, e + 1, w(b), m(b))
      BY <1>7, <2>2, <2>3, <2>4, <2>5, InPlaceNext
    <2> QED BY <2>4, <2>6
  <1>12. BatchInPlace(call, begun, buf')
    BY <1>11 DEF BatchInPlace
  <1>13. FieldsIn(buf')
    <2>1. ASSUME NEW x \in RecoverBuffers \ {"bufRecMissing", "bufRecScratch"}, NEW b \in Blobs
          PROVE  buf'[x][b] \in [Exponents -> Field]
      <3>1. buf[x][b] \in [Exponents -> Field] /\ x \in AllBuffers
        BY Apart DEF RInv, FieldsIn
      <3>2. CASE x = d.out /\ b \in 0..(n - 1)
        <4>1. RecoverKernel(d, buf, b) = Made(begun, w(b), m(b))
          <5> DEFINE e == begun - 1
          <5>1. e \in 0..21 /\ e + 1 = begun
            BY <1>1
          <5>2. InPlace(buf, b, e, w(b), m(b))
            BY <1>6, <3>2
          <5> HIDE DEF e, w, m
          <5>3. RecoverKernel(Command(e + 1), buf, b) = Made(e + 1, w(b), m(b))
            BY <1>7, <5>1, <5>2, MakesNext
          <5> QED BY <5>1, <5>3
        <4>2. Stageable(call.polys[b + 1], call.gone[b + 1], call.cells[b + 1])
          BY <1>8, <3>2
        <4>3. Command(begun).out # "bufRecScratch"
          BY <2>1, <3>2
        <4>4. Made(begun, w(b), m(b)) \in [Exponents -> Field]
          BY <1>1, <4>2, <4>3, MadeIn
        <4> QED BY <1>10, <3>2, <4>1, <4>4
      <3>3. CASE ~(x = d.out /\ b \in 0..(n - 1))
        BY <1>9, <1>10, <3>1, <3>3
      <3> QED BY <3>2, <3>3
    <2> QED BY <2>1 DEF FieldsIn
  <1>14. TablesAfter("recover", begun, buf')
    <2>1. \A x \in CosetTables \cup SetupTables : x \in AllBuffers /\ x # d.out
      BY <1>5, Apart
    <2>2. \A x \in CosetTables \cup SetupTables : buf'[x][0] = buf[x][0]
      BY <1>9, <2>1, BufferNames
    <2>3. TablesAfter("recover", begun, buf)
      BY <1>7, TablesFilled
    <2> QED BY <2>2, <2>3, TablesStay
  <1>15. buf'["bufErr"][0] = buf["bufErr"][0]
    BY <1>5, <1>9, BufferNames, Apart
  <1> HIDE DEF d, n, w, m
  <1> QED BY <1>4, <1>12, <1>13, <1>14, <1>15 DEF RInv

\* There is one division, by the values of the vanishing polynomial on the coset.
LEMMA DividedBy ==
  ASSUME NEW k \in 1..22, Command(k).kernel = "ew_div"
  PROVE  k = 15 /\ Command(k).b = "bufRecCosetB"
  BY Numbers DEF Command, Recording

\* The buffers as they are when the prover is made.
LEMMA InitRInv == Init => RInv
  <1> SUFFICES ASSUME Init PROVE RInv
    OBVIOUS
  <1>1. calls = 0 /\ begun = 0 /\ running = {} /\ call.kind = "setup"
    BY DEF Init, SetupCall
  <1>2. Ended = 0
    BY <1>1 DEF Ended
  <1>3. \A x \in AllBuffers, b \in Blobs :
          buf[x][b] = IF x \in SetupTables THEN IF b = 0 THEN Loaded(x) ELSE <<>>
                      ELSE [e \in Exponents |-> Stale]
    BY Zenon DEF Init, AllBuffers
  <1>4. buf["bufRootsFwd"][0] = RootsFwd /\ buf["bufRootsInv"][0] = RootsInv
    <2>1. Loaded("bufRootsFwd") = RootsFwd /\ Loaded("bufRootsInv") = RootsInv
      BY DEF Loaded
    <2> QED BY <1>3, <2>1, Apart, BufferNames
  <1>5. TablesAfter("setup", 0, buf)
    <2>1. ~(0 >= 1) /\ ~(0 >= 2)
      OBVIOUS
    <2> QED BY <1>4, <2>1, Zenon DEF TablesAfter
  <1>6. FieldsIn(buf)
    <2>1. [e \in Exponents |-> Stale] \in [Exponents -> Field]
      BY PassesAssumption
    <2>2. \A x \in RecoverBuffers : x \in AllBuffers /\ x \notin SetupTables
      BY Apart
    <2> QED BY <1>3, <2>1, <2>2 DEF FieldsIn
  <1>7. Len(Calls) \in Nat /\ Len(Recorded) \in Nat
    BY <1>1, Lengths, PassesAssumption
  <1>8. calls <= Len(Calls) /\ begun <= Len(Recorded)
    BY <1>1, <1>7
  <1> QED BY <1>1, <1>2, <1>5, <1>6, <1>8 DEF RInv

\* With IInv, RInv is inductive.
LEMMA RecoveryInductive == IInv /\ RInv /\ [Next]_vars => RInv'
  <1> SUFFICES ASSUME IInv, RInv, [Next]_vars PROVE RInv'
    OBVIOUS
  <1>1. CASE Call
    BY <1>1, CallKeeps
  <1>2. CASE Begin
    BY <1>2, BeginKeeps
  <1>3. CASE End
    <2>1. call.kind \in {"setup", "prove", "recover"}
      BY Kinds DEF IInv
    <2> QED BY <1>3, <2>1, SetupEnds, ProofEnds, RecoveryEnds
  <1>4. CASE UNCHANGED vars
    <2>1. UNCHANGED <<calls, call, buf, begun, running>>
      BY <1>4 DEF vars
    <2>2. Ended' = Ended /\ Recorded' = Recorded
      BY <2>1 DEF Ended, Recorded
    <2> QED BY <2>1, <2>2 DEF RInv
  <1> QED BY <1>1, <1>2, <1>3, <1>4 DEF Next

\* Both invariants hold all along.
LEMMA Invariants == Spec => [](IInv /\ RInv)
  BY InitIInv, Inductive, InitRInv, RecoveryInductive, PTL DEF Spec

-----------------------------------------------------------------------------
(* The theorems about the buffers *)

\* TypeOK: what a recovery computes with are field elements, in every blob's buffers
\* and whatever ran before, the error word is a bit, and no dispatch writes to what is
\* not a buffer (computeBatch, recoverBatch, populateCosetShiftTables).
THEOREM TypeInvariant == Spec => []TypeOK
  <1>1. IInv /\ RInv => TypeOK
    <2> SUFFICES ASSUME IInv, RInv PROVE TypeOK
      OBVIOUS
    <2>1. calls \in 0..Len(Calls)
      BY PassesAssumption DEF IInv, Where, RInv
    <2>2. Len(Recorded) \in Nat /\ begun \in 0..Len(Recorded)
      BY Lengths, Kinds DEF IInv, Where, RInv
    <2>3. /\ call \in {SetupCall} \cup ProveBatch \cup RecoverBatch
          /\ DOMAIN buf = AllBuffers /\ \A x \in AllBuffers : DOMAIN buf[x] = Blobs
      BY DEF IInv, Where
    <2>4. ASSUME NEW r \in running PROVE r.at \in 1..begun /\ DOMAIN r.val \subseteq DOMAIN buf
      <3> DEFINE d == Recorded[begun]
      <3>1. begun > 0 /\ r.at = begun /\ r.val = Stored(d) /\ begun \in 1..Len(Recorded)
        BY <2>2, <2>4 DEF IInv, OneAtATime
      <3>2. DOMAIN Stored(d) \subseteq AllBuffers
        <4>1. CASE call.kind = "setup"
          <5>1. d = SetupCommands[begun] /\ begun \in 1..2
            BY <3>1, <4>1, Lengths
          <5>2. DOMAIN Stored(d) \subseteq CosetTables
            BY <4>1, <5>1, StoredBySetup, Apart
          <5> QED BY <5>2, Apart
        <4>2. CASE call.kind = "prove"
          <5>1. Recorded = ProofCommands /\ begun \in 1..Len(ProofCommands)
            BY <3>1, <4>2, Lengths
          <5>2. d \in {FirstDispatch} \cup LaterDispatch
            BY <5>1, ProofCommandsBegin DEF BeginWithBlobs
          <5> HIDE DEF d
          <5>3. d.kernel # "pow_seq" /\ d.out \in ProofBuffers
            BY <5>2, DispatchFields, Zenon
          <5>4. DOMAIN Stored(d) = {d.out} \cup (IF Refuses(d) THEN {"bufErr"} ELSE {})
            BY <5>3, Zenon DEF Stored
          <5>5. "bufErr" \in ProofBuffers /\ ProofBuffers \subseteq AllBuffers
            BY DEF ProofBuffers, AllBuffers
          <5> QED BY <5>3, <5>4, <5>5
        <4>3. CASE call.kind = "recover"
          <5>1. begun \in 1..22 /\ d = Command(begun)
            BY <3>1, <4>3, Lengths, RecoverCommandsAre
          <5>2. DOMAIN Stored(d) = {Command(begun).out}
            BY <4>3, <5>1, StoredByRecovery
          <5>3. Command(begun).out \in AllBuffers
            BY <5>1, CommandsAre, Apart DEF CommandIs
          <5> QED BY <5>2, <5>3
        <4> QED BY <4>1, <4>2, <4>3, Kinds DEF IInv
      <3> QED BY <2>3, <3>1, <3>2
    <2> QED BY <2>1, <2>2, <2>3, <2>4 DEF TypeOK, RInv, FieldsIn
  <1> QED BY <1>1, Invariants, PTL

\* DivisorNeverZero: when the recovery is about to divide on the coset, the vanishing
\* polynomial of each blob's missing cells is not zero anywhere on it, whichever cells
\* are missing (k_ew_div.comp: "chosen so b is never zero there").
THEOREM NeverDividesByZero == Spec => []DivisorNeverZero
  <1>1. IInv /\ RInv => DivisorNeverZero
    <2> SUFFICES ASSUME IInv, RInv, running = {}, ~Complete, Recorded[begun + 1].kernel = "ew_div",
                        NEW b \in 0..(BatchSize - 1), NEW i \in Exponents
                 PROVE  buf[Recorded[begun + 1].b][b][i] # 0
      BY DEF DivisorNeverZero
    <2>1. begun \in Nat /\ Len(Recorded) \in Nat /\ begun + 1 \in 1..Len(Recorded)
      BY Lengths, Kinds DEF IInv, Where, RInv, Complete
    <2>2. call.kind = "recover"
      <3>1. call.kind # "setup"
        BY <2>1, Lengths, SetupCommandsAre
      <3>2. ASSUME call.kind = "prove" PROVE FALSE
        <4> DEFINE d == Recorded[begun + 1]
        <4>1. d \in {FirstDispatch} \cup LaterDispatch
          BY <2>1, <3>2, Lengths, ProofCommandsBegin DEF BeginWithBlobs
        <4>2. d.kernel = "ew_div"
          OBVIOUS
        <4> HIDE DEF d
        <4>3. d.kernel = "blob_to_fr" \/ d.kernel \in LaterKernels
          BY <4>1, DispatchFields, Zenon DEF FirstDispatch, LaterDispatch
        <4> QED BY <4>2, <4>3 DEF LaterKernels
      <3> QED BY <3>1, <3>2, Kinds DEF IInv
    <2>3. Recorded = RecoverCommands /\ Len(Recorded) = 22
      BY <2>2, Lengths
    <2>4. begun + 1 = 15 /\ Recorded[begun + 1].b = "bufRecCosetB"
      <3>1. begun + 1 \in 1..22 /\ Recorded[begun + 1] = Command(begun + 1)
        BY <2>1, <2>3, RecoverCommandsAre
      <3> DEFINE k == begun + 1
      <3>2. k \in 1..22 /\ Command(k).kernel = "ew_div"
        BY <3>1
      <3> HIDE DEF k
      <3>3. k = 15 /\ Command(k).b = "bufRecCosetB"
        BY <3>2, DividedBy
      <3> QED BY <3>1, <3>3 DEF k
    <2>5. Ended = 14
      BY <2>1, <2>4 DEF Ended
    <2>6. b \in 0..(Len(call.cells) - 1)
      BY <2>2 DEF BatchSize
    <2> DEFINE G == call.gone[b + 1]
               w == call.cells[b + 1]
    <2>7. InPlace(buf, b, 14, w, MissingList(G)) /\ MayMiss(G)
      BY <2>2, <2>5, <2>6 DEF RInv, RecoverCall, BatchInPlace, Stageable
    <2>8. buf["bufRecCosetB"][b] = CosetB(MissingList(G))
      <3> HIDE DEF G, w
      <3> QED BY <2>7, Outs, StillThere DEF LastRead, Made
    <2>9. CosetB(MissingList(G))[i] # 0
      BY <2>7, DivisorIs
    <2> QED BY <2>4, <2>8, <2>9
  <1> QED BY <1>1, Invariants, PTL

\* AllCellsRecovered: a recovery returns every cell of every blob of its batch, the
\* missing ones included, provided at most half are missing: whatever words stand in
\* the slots of the missing cells (k_cells_to_fr.comp: "regardless of value"), whatever
\* the buffers held, and with words past the order taken modulo it, in the cells that
\* are passed (vkzg.h: "at least half", recoverBatch).
THEOREM CellsRecovered == Spec => []AllCellsRecovered
  <1>1. IInv /\ RInv => AllCellsRecovered
    <2> SUFFICES ASSUME IInv, RInv, Complete, call.kind = "recover", NEW b \in 0..(BatchSize - 1)
                 PROVE  buf["bufRecOut"][b] = CellsOf(call.polys[b + 1])
      BY DEF AllCellsRecovered
    <2>1. Ended = 22
      BY Lengths DEF Ended, Complete
    <2>2. b \in 0..(Len(call.cells) - 1)
      BY DEF BatchSize
    <2> DEFINE G == call.gone[b + 1]
               w == call.cells[b + 1]
    <2>3. InPlace(buf, b, 22, w, MissingList(G))
          /\ Stageable(call.polys[b + 1], G, call.cells[b + 1])
      BY <2>1, <2>2 DEF RInv, RecoverCall, BatchInPlace
    <2>4. Out(w, MissingList(G)) = CellsOf(call.polys[b + 1])
      BY <2>3, RecoversCells
    <2>5. buf["bufRecOut"][b] = Out(w, MissingList(G))
      <3> HIDE DEF G, w
      <3> QED BY <2>3, Outs, StillThere DEF LastRead, Made
    <2> QED BY <2>4, <2>5
  <1> QED BY <1>1, Invariants, PTL
=============================================================================
