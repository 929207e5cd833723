------------------------------- MODULE Passes -------------------------------
(***************************************************************************)
(* The command buffers a prover submits (src/vkzg.cpp): once, when it is   *)
(* made, the one that fills the tables of the coset; then, for each batch, *)
(* that of a proof computation (ProofPass) or of a cell recovery           *)
(* (Recovery). They share the prover's buffers, where a batch finds what   *)
(* the ones before it left.                                                *)
(*                                                                         *)
(* A dispatch begins, reading its inputs, and ends, writing its output;    *)
(* the device may begin one before those recorded earlier have ended,      *)
(* unless a barrier lies between them. Prover models how batches follow    *)
(* each other and what becomes of the ones that fail.                      *)
(***************************************************************************)
EXTENDS ProofPass, Recovery

CONSTANTS
  MaxBatch,     \* blobs the buffers are made for
  Calls,        \* the batches a run considers for the first call, the second, ...
  Stale         \* what memory holds when the prover is made

Blobs == 0..(MaxBatch - 1)

\* A batch to prove, by its blobs' words, or to recover, by its blobs' cells, those
\* that are missing of them and the polynomials they belong to. A word is 32 bytes, any
\* of them.
Bytes32 == 0..(Fr!Capacity - 1)
ProveBatch == [kind : {"prove"}, words : Seq([BlobExponents -> Bytes32])]
RecoverBatch == [kind : {"recover"}, cells : Seq([Exponents -> Bytes32]),
                 gone : Seq(SUBSET (0..(Cells - 1))), polys : Seq([BlobExponents -> Field])]

\* The words in the slots of the cells that are not missing are the polynomial's values,
\* modulo the order; the other slots hold any words.
Belong(cells, gone, poly) ==
  \A e \in Exponents : e \div CellSize \notin gone => cells[e] % P = CellsOf(poly)[e]

ASSUME PassesAssumption ==
  /\ MaxBatch \in Nat \ {0}
  /\ Stale \in Field
  /\ Calls \in Seq(SUBSET (ProveBatch \cup RecoverBatch))
  /\ \A n \in DOMAIN Calls : \A c \in Calls[n] :
       IF c.kind = "prove" THEN Len(c.words) \in 1..MaxBatch
       ELSE /\ Len(c.cells) \in 1..MaxBatch
            /\ Len(c.gone) = Len(c.cells) /\ Len(c.polys) = Len(c.cells)
            /\ \A b \in DOMAIN c.cells :
                 Cardinality(c.gone[b]) <= Half /\ Belong(c.cells[b], c.gone[b], c.polys[b])

\* A definition whose name ends in _word is a variant of the one that follows
\* it, with a bug the code could have had; the specification never uses it.

VARIABLES
  calls,    \* how many calls have begun
  call,     \* the one in progress or the last one, or the setup
  buf,      \* the buffers
  begun,    \* how many of its dispatches have begun
  running   \* those that have not ended: what they are about to store

vars == <<calls, call, buf, begun, running>>

SetupCall == [kind |-> "setup"]

Recorded == CASE call.kind = "setup" -> SetupCommands
              [] call.kind = "prove" -> ProofCommands
              [] call.kind = "recover" -> RecoverCommands

BatchSize == CASE call.kind = "setup" -> 1
               [] call.kind = "prove" -> Len(call.words)
               [] call.kind = "recover" -> Len(call.cells)

Complete == begun = Len(Recorded) /\ running = {}

-----------------------------------------------------------------------------

\* createProver has copied the tables it was given.
Loaded(x) == CASE x = "bufRootsFwd" -> RootsFwd
               [] x = "bufRootsInv" -> RootsInv
               [] x = "bufTable" -> PositionTable
               [] x = "bufKernelItemsPlus" -> ItemsByBucket(TapPlus)
               [] x = "bufKernelItemsMinus" -> ItemsByBucket(TapMinus)

Init ==
  /\ calls = 0
  /\ call = SetupCall
  /\ buf = [x \in ProofBuffers \cup RecoverBuffers \cup CosetTables \cup SetupTables |->
              [b \in Blobs |-> IF x \in SetupTables THEN IF b = 0 THEN Loaded(x) ELSE <<>>
                               ELSE [e \in Exponents |-> Stale]]]
  /\ begun = 0
  /\ running = {}

\* What the host writes to the buffers before it submits, by buffer and blob.
Staged(c) ==
  [x \in IF c.kind = "prove" THEN {"bufErr", "bufBlob"}
         ELSE {"bufErr", "bufRecMissing", "bufRecScratch"} |->
     CASE x = "bufErr" -> [b \in {0} |-> 0]
       [] x = "bufBlob" -> [b \in 0..(Len(c.words) - 1) |-> c.words[b + 1]]
       [] x = "bufRecMissing" -> [b \in 0..(Len(c.cells) - 1) |-> MissingList(c.gone[b + 1])]
       [] x = "bufRecScratch" -> [b \in 0..(Len(c.cells) - 1) |-> c.cells[b + 1]]]

\* Values for some blobs of some buffers; the others keep what they have.
Overwritten(values) ==
  [x \in DOMAIN buf |-> [b \in DOMAIN buf[x] |->
     IF x \in DOMAIN values /\ b \in DOMAIN values[x] THEN values[x][b] ELSE buf[x][b]]]

Call ==
  /\ Complete
  /\ calls < Len(Calls)
  /\ calls' = calls + 1
  /\ call' \in Calls[calls + 1]
  /\ buf' = Overwritten(Staged(call'))
  /\ begun' = 0
  /\ UNCHANGED running

-----------------------------------------------------------------------------

\* What dispatch d makes of blob b.
Kernel(d, b) == CASE call.kind = "setup" -> PowSeq(d.mode)
                  [] call.kind = "prove" -> ProofKernel(d, buf, BatchSize, b)
                  [] call.kind = "recover" -> RecoverKernel(d, buf, b)

\* k_blob_to_fr raises the error word when it meets a word that is not canonical.
Refuses(d) ==
  d.kernel = "blob_to_fr" /\ \E b \in 0..(BatchSize - 1) : ~AllCanonical(buf[d.a][b])

\* What dispatch d stores, by buffer and blob. k_pow_seq has a second output.
Stored(d) ==
  [x \in {d.out} \cup (IF Refuses(d) THEN {"bufErr"} ELSE {})
                 \cup (IF d.kernel = "pow_seq" THEN {"bufInvExtBlob"} ELSE {}) |->
     CASE x = "bufErr" -> [b \in {0} |-> 1]
       [] x = "bufInvExtBlob" -> [b \in {0} |-> [e \in {0} |-> FrInv(DomainSize % P)]]
       [] x = d.out -> [b \in 0..(BatchSize - 1) |-> Kernel(d, b)]]

\* dispatch() ends with a barrier: shader accesses after it wait for those before.
Separated_notAfterDiv == \A r \in running : Recorded[r.at].kernel = "ew_div"
Separated == running = {}

Begin ==
  /\ begun < Len(Recorded)
  /\ Separated
  /\ begun' = begun + 1
  /\ running' = running \cup {[at |-> begun + 1, val |-> Stored(Recorded[begun + 1])]}
  /\ UNCHANGED <<calls, call, buf>>

End ==
  \E r \in running :
    /\ buf' = Overwritten(r.val)
    /\ running' = running \ {r}
    /\ UNCHANGED <<calls, call, begun>>

Next == Call \/ Begin \/ End

Spec == Init /\ [][Next]_vars

-----------------------------------------------------------------------------
(* Properties *)

TypeOK ==
  /\ calls \in 0..Len(Calls)
  /\ call \in {SetupCall} \cup ProveBatch \cup RecoverBatch
  /\ \A x \in DOMAIN buf : DOMAIN buf[x] = Blobs
  /\ \A x \in RecoverBuffers \ {"bufRecMissing", "bufRecScratch"} :
       \A b \in Blobs : buf[x][b] \in [Exponents -> Field]
  /\ calls = 0 \/ buf["bufErr"][0] \in {0, 1}
  /\ begun \in 0..Len(Recorded)
  /\ \A r \in running : r.at \in 1..begun /\ DOMAIN r.val \subseteq DOMAIN buf

\* A batch of blobs whose words are all field elements gets, for every blob and
\* every cell, the proof of that cell of that blob's polynomial, whatever the calls
\* before left in the buffers, whichever pipeline reduces the buckets, and wherever
\* points at infinity or equal points turn up in between (vkzg.h: "all 128 cell
\* proofs of each blob").
ProofsOpenCells ==
  Complete /\ call.kind = "prove" /\ buf["bufErr"][0] = 0 =>
    \A b \in 0..(BatchSize - 1), c \in 0..(Cells - 1) :
      buf["bufProofBytes"][b][c] =
        Compressed(Powers[ProofExponent(InterpolatedFrom(call.words[b + 1]), c)])

\* The batch is refused if any of its blobs has a word that is not canonical, the
\* order r itself included, and only then: not for what an earlier batch had.
RefusedIffNotCanonical ==
  Complete /\ call.kind = "prove" =>
    (buf["bufErr"][0] = 0 <=>
       \A b \in 1..BatchSize : \A i \in BlobExponents : call.words[b][i] < P)

\* Whatever the missing cells' words are ("regardless of value", k_cells_to_fr.comp:5),
\* canonical or not, and whatever the buffers held, the output is all the cells of
\* every blob of the batch, each blob's own, as soon as at least half of them were
\* passed (vkzg.h: "at least half"). Passed words past the order, each by whatever
\* multiple of it, count as what they are modulo it.
AllCellsRecovered ==
  Complete /\ call.kind = "recover" =>
    \A b \in 0..(BatchSize - 1) : buf["bufRecOut"][b] = CellsOf(call.polys[b + 1])

\* "chosen so b is never zero there" (k_ew_div.comp:4): FrInv makes 0 of a 0, which
\* would go unnoticed until the cells come out wrong.
DivisorNeverZero ==
  running = {} /\ ~Complete /\ Recorded[begun + 1].kernel = "ew_div" =>
    \A b \in 0..(BatchSize - 1), i \in Exponents : buf[Recorded[begun + 1].b][b][i] # 0
=============================================================================
