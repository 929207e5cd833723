---------------------------- MODULE ProverProofs ----------------------------
(***************************************************************************)
(* Proofs about Prover, for any number of threads, slots, blobs and calls. *)
(*                                                                         *)
(* Shape is inductive by itself and gives type correctness; its parts say  *)
(* that the mutex is held by the one thread inside, how far that thread's  *)
(* call can be, and that the command buffer holds its chunk. OneJob and    *)
(* Progress follow the submission through the device.                      *)
(*                                                                         *)
(* From the same invariant, Prover implements ProverApi: a step of a       *)
(* thread is the step of ProverApi it stands for, or none at all.          *)
(***************************************************************************)
EXTENDS Prover, TLAPS, SequenceTheorems

Inside == pcs \ {"idle", "locking"}
Busy == Inside \ {"loop"}

\* A thread is between lock and unlock exactly when it owns the mutex.
MutexHeld == \A t \in Threads : (pc[t] \in Inside) <=> (mutex = t)

\* Where a call can be, given where its thread is.
CallShape == \A t \in Threads :
  /\ done[t] <= call[t].n
  /\ call[t].bad \subseteq 1..call[t].n
  /\ pc[t] \in {"idle", "locking"} => done[t] = 0
  /\ call[t].op = "profile" => call[t].n <= MaxBatch /\ done[t] \in {0, call[t].n}
  /\ pc[t] \in Busy => done[t] < call[t].n

\* The command buffer holds the stages of the chunk the holder is at.
CmdShape == \A t \in Threads :
  /\ pc[t] \in Busy => cmd = Recorded(t, cmd.lo)
  /\ pc[t] \in {"flush", "flushWait"} =>
       call[t].op = "profile" /\ cmd.lo \in 1..LastStage
  /\ pc[t] \in {"submit", "wait", "readback"} =>
       cmd.lo = IF call[t].op = "profile" THEN LastStage + 1 ELSE 1

Shape == TypeOK /\ MutexHeld /\ CallShape /\ CmdShape

-----------------------------------------------------------------------------

\* A submission in flight is the command buffer of a thread that waits for it.
OneJob == queue # <<>> =>
  /\ device = "ok"
  /\ ~fence
  /\ \E t \in Threads : mutex = t /\ pc[t] \in {"wait", "flushWait"}
  /\ queue = <<[cmd EXCEPT !.lo = queue[1].lo]>>
  /\ queue[1].lo \in cmd.lo..(cmd.hi + 1)

InputBuffer(t) == IF call[t].op = "recover" THEN "bufRecScratch" ELSE "bufBlob"
MiddleBuffer(t) == IF call[t].op = "recover" THEN "bufRecBrp" ELSE "bufLagrange"

\* Buffer b holds t's current chunk.
Holds(b, t) ==
  \A s \in Slots : s <= Batch(t) => buf[b][s] = MyItem(t, done[t] + s)

\* What the buffers hold once k stages of t's chunk have been executed.
Executed(t, k) ==
  /\ k = 0 => Holds(InputBuffer(t), t) /\ ~bufErr
  /\ k >= 1 => Holds(MiddleBuffer(t), t) /\ (call[t].op # "recover" => (bufErr <=> ChunkBad(t)))
  /\ k >= 2 => Holds(ReadbackBuffer(t), t)
  /\ call[t].op = "recover" => Holds("bufRecMissing", t) /\ ~ChunkBad(t)

\* How many stages have been, when the thread is at pc p.
StagesRun(t) ==
  IF queue # <<>> THEN queue[1].lo - 1
  ELSE IF pc[t] = "readback" THEN LastStage
  ELSE IF pc[t] \in {"wait", "flushWait"} /\ fence THEN cmd.hi
  ELSE cmd.lo - 1

Intact(t) == \/ device = "ok"
             \/ pc[t] = "wait" /\ fence
             \/ pc[t] = "readback"

Follows(t) == pc[t] \in Busy /\ Intact(t) =>
  \E k \in 0..LastStage : k = StagesRun(t) /\ Executed(t, k)

Progress == \A t \in Threads : Follows(t)

IInv == Shape /\ OneJob /\ Progress /\ OwnResults

-----------------------------------------------------------------------------
(* Lemmas about the data *)

\* A chunk fits the staging buffers and does not run past the caller's array:
\* every slot it uses is an input position of the call.
LEMMA BatchBounds ==
  ASSUME TypeOK, CallShape, NEW t \in Threads, done[t] < call[t].n
  PROVE  /\ Batch(t) \in 1..MaxBatch
         /\ done[t] + Batch(t) \in 1..call[t].n
         /\ call[t].n \in Positions
<1>1. /\ call[t].n \in 0..MaxItems
      /\ call[t].op = "profile" => call[t].n <= MaxBatch /\ done[t] \in {0, call[t].n}
      /\ done[t] \in 0..MaxItems
  BY DEF TypeOK, CallShape, Call
<1>2. MaxBatch \in Nat \ {0} /\ MaxItems \in Nat
  BY ProverAssumption
<1>3. CASE call[t].op = "profile"
  BY <1>1, <1>2, <1>3 DEF Batch, Positions
<1>4. CASE call[t].op # "profile"
  BY <1>1, <1>2, <1>4 DEF Batch, Positions
<1>5. QED BY <1>3, <1>4

\* An input of a call is an Item.
LEMMA MyItemType ==
  ASSUME TypeOK, NEW t \in Threads, NEW i \in Positions
  PROVE  MyItem(t, i) \in Item
  BY DEF TypeOK, MyItem, Item

\* Copying a chunk in leaves a well-formed buffer.
LEMMA FilledType ==
  ASSUME TypeOK, CallShape, NEW t \in Threads, done[t] < call[t].n,
         NEW b \in Buffers
  PROVE  Filled(b, t) \in [Slots -> Item \cup {Junk}]
<1>1. ASSUME NEW s \in Slots, s <= Batch(t)
      PROVE  MyItem(t, done[t] + s) \in Item
  <2>1. done[t] + s \in Positions
    BY <1>1, BatchBounds, ProverAssumption DEF Slots, Positions, TypeOK, Call
  <2>2. QED BY <2>1, MyItemType
<1>2. QED BY <1>1 DEF Filled, TypeOK

\* Recording produces a well-formed command buffer.
LEMMA RecordedType ==
  ASSUME TypeOK, CallShape, NEW t \in Threads, done[t] < call[t].n,
         NEW k \in 1..(LastStage + 1)
  PROVE  Recorded(t, k) \in Cmd
  BY BatchBounds, ProverAssumption DEF Recorded, Cmd, TypeOK, Call, LastStage

-----------------------------------------------------------------------------
(* Shape *)

\* The caller's state once a call has returned.
LEMMA ReturnShape ==
  ASSUME TypeOK, CallShape, NEW t \in Threads, NEW code \in Codes, Return(t, code)
  PROVE  /\ pc' \in [Threads -> pcs]
         /\ call' \in [Threads -> Call]
         /\ done' \in [Threads -> 0..MaxItems]
         /\ out' \in [Threads -> [Positions -> Item \cup {Junk, Untouched}]]
         /\ rc' \in [Threads -> Codes0]
         /\ mutex' \in Threads \cup {NoThread}
         /\ CallShape'
<1>1. NoCall \in Call
  BY ProverAssumption DEF NoCall, Call, AllOps
<1>2. FreshOut \in [Positions -> Item \cup {Junk, Untouched}]
  BY DEF FreshOut
<1>3. /\ pc' = [pc EXCEPT ![t] = "idle"]
      /\ call' = [call EXCEPT ![t] = NoCall]
      /\ done' = [done EXCEPT ![t] = 0]
      /\ out' = [out EXCEPT ![t] = FreshOut]
      /\ rc' = [rc EXCEPT ![t] = code]
      /\ mutex' = NoThread
  BY DEF Return
<1>4. 0 \in 0..MaxItems /\ "idle" \in pcs /\ code \in Codes0
  BY ProverAssumption DEF pcs, Codes0
<1>5. CallShape'
  <2>1. ASSUME NEW u \in Threads, u # t
        PROVE  pc'[u] = pc[u] /\ call'[u] = call[u] /\ done'[u] = done[u]
    BY <1>3, <2>1 DEF TypeOK
  <2>2. pc'[t] = "idle" /\ call'[t] = NoCall /\ done'[t] = 0
    BY <1>3 DEF TypeOK
  <2>3. QED BY <2>1, <2>2 DEF CallShape, NoCall, Busy, Inside
<1>6. QED BY <1>1, <1>2, <1>3, <1>4, <1>5 DEF TypeOK

\* Handing the command buffer to the device keeps the queue well formed.
LEMMA AcceptedType ==
  ASSUME TypeOK, Accepted
  PROVE  queue' \in Seq(Cmd)
  BY DEF TypeOK, Accepted

\* While one thread is inside, every other one is outside.
LEMMA OthersOutside ==
  ASSUME Shape, NEW t \in Threads, mutex = t, NEW u \in Threads, u # t
  PROVE  pc[u] \in {"idle", "locking"}
  BY DEF Shape, TypeOK, MutexHeld, Inside

\* Every step keeps types, the mutex and the shape of calls and recordings.
LEMMA ShapeStep == Shape /\ [Next]_vars => Shape'
<1> SUFFICES ASSUME Shape, [Next]_vars
             PROVE  Shape'
  OBVIOUS
<1> USE DEF Shape
<1>1. ASSUME NEW t \in Threads, Reject(t)
      PROVE  Shape'
  <2>1. TypeOK'
    BY <1>1, ProverAssumption DEF TypeOK, pcs, Codes0, Codes, Reject
  <2>2. MutexHeld'
    BY <1>1, ProverAssumption DEF TypeOK, MutexHeld, Inside, pcs, Reject
  <2>3. CallShape'
    BY <1>1, ProverAssumption DEF TypeOK, CallShape, Busy, Inside, pcs, Reject
  <2>4. CmdShape'
    BY <1>1, ProverAssumption DEF TypeOK, MutexHeld, CallShape, CmdShape, Busy, Inside, pcs, Recorded, Batch, Reject
  <2>5. QED BY <2>1, <2>2, <2>3, <2>4
<1>2. ASSUME NEW t \in Threads, Enter(t)
      PROVE  Shape'
  <2>1. TypeOK'
    BY <1>2, ProverAssumption DEF TypeOK, pcs, Codes0, Codes, Enter, Call, Positions, Ids, NoCall
  <2>2. MutexHeld'
    BY <1>2, ProverAssumption DEF TypeOK, MutexHeld, Inside, pcs, Enter, Call, Positions, Ids, NoCall
  <2>3. CallShape'
    <3>0. PICK op \in Ops, m \in Sizes : \E bad \in SUBSET (1..m) :
            /\ op = "profile" => m <= MaxBatch
            /\ call' = [call EXCEPT ![t] = [op |-> op, n |-> m, bad |-> bad]]
      BY <1>2 DEF Enter
    <3>1. PICK bad \in SUBSET (1..m) :
            /\ op = "profile" => m <= MaxBatch
            /\ call' = [call EXCEPT ![t] = [op |-> op, n |-> m, bad |-> bad]]
      BY <3>0
    <3>2. m \in 1..MaxItems
      BY ProverAssumption
    <3>3. pc'[t] = "locking" /\ done'[t] = 0
      BY <1>2 DEF Enter, TypeOK, CallShape
    <3>4. call'[t].op = op /\ call'[t].n = m /\ call'[t].bad = bad
      BY <3>1 DEF TypeOK
    <3>5. ASSUME NEW u \in Threads, u # t
          PROVE  pc'[u] = pc[u] /\ call'[u] = call[u] /\ done'[u] = done[u]
      BY <1>2, <3>1, <3>5 DEF Enter, TypeOK
    <3>6. ASSUME NEW u \in Threads
          PROVE  /\ done'[u] <= call'[u].n
                 /\ call'[u].bad \subseteq 1..call'[u].n
                 /\ pc'[u] \in {"idle", "locking"} => done'[u] = 0
                 /\ call'[u].op = "profile" =>
                      call'[u].n <= MaxBatch /\ done'[u] \in {0, call'[u].n}
                 /\ pc'[u] \in Busy => done'[u] < call'[u].n
      <4>1. CASE u = t
        <5>1. /\ done'[u] = 0 /\ call'[u].n = m /\ call'[u].bad = bad
              /\ call'[u].op = op /\ pc'[u] \notin Busy
          BY <4>1, <3>3, <3>4 DEF Busy, Inside
        <5>2. m \in Nat /\ bad \subseteq 1..m /\ (op = "profile" => m <= MaxBatch)
          BY <3>1, <3>2, ProverAssumption
        <5>3. QED BY <5>1, <5>2
      <4>2. CASE u # t
        BY <4>2, <3>5 DEF CallShape
      <4>3. QED BY <4>1, <4>2
    <3>7. QED BY <3>6 DEF CallShape
  <2>4. CmdShape'
    BY <1>2, ProverAssumption DEF TypeOK, MutexHeld, CallShape, CmdShape, Busy, Inside, pcs, Recorded, Batch, Enter, Call, Positions, Ids, NoCall
  <2>5. QED BY <2>1, <2>2, <2>3, <2>4
<1>3. ASSUME NEW t \in Threads, Lock(t)
      PROVE  Shape'
  <2>1. TypeOK'
    BY <1>3, ProverAssumption DEF TypeOK, pcs, Codes0, Codes, Lock, LockFree
  <2>2. MutexHeld'
    BY <1>3, ProverAssumption DEF TypeOK, MutexHeld, Inside, pcs, Lock, LockFree
  <2>3. CallShape'
    BY <1>3, ProverAssumption DEF TypeOK, CallShape, Busy, Inside, pcs, Lock, LockFree
  <2>4. CmdShape'
    BY <1>3, ProverAssumption DEF TypeOK, MutexHeld, CallShape, CmdShape, Busy, Inside, pcs, Recorded, Batch, Lock, LockFree
  <2>5. QED BY <2>1, <2>2, <2>3, <2>4
<1>4. ASSUME NEW t \in Threads, LoopDone(t)
      PROVE  Shape'
  <2>1. TypeOK'
    <3>1. Return(t, "OK") /\ "OK" \in Codes
      BY <1>4 DEF LoopDone, Codes
    <3>2. QED BY <1>4, <3>1, ReturnShape DEF TypeOK, LoopDone
  <2>2. MutexHeld'
    BY <1>4, ProverAssumption DEF TypeOK, MutexHeld, Inside, pcs, LoopDone, Return
  <2>3. CallShape'
    <3>1. Return(t, "OK") /\ "OK" \in Codes
      BY <1>4 DEF LoopDone, Codes
    <3>2. QED BY <3>1, ReturnShape
  <2>4. CmdShape'
    BY <1>4, ProverAssumption DEF TypeOK, MutexHeld, CallShape, CmdShape, Busy, Inside, pcs, Recorded, Batch, LoopDone, Return
  <2>5. QED BY <2>1, <2>2, <2>3, <2>4
<1>5. ASSUME NEW t \in Threads, StageBlobs(t)
      PROVE  Shape'
  <2>1. TypeOK'
    <3>1. Filled("bufBlob", t) \in [Slots -> Item \cup {Junk}]
      BY <1>5, FilledType DEF StageBlobs, Buffers
    <3>2. Recorded(t, 1) \in Cmd
      BY <1>5, RecordedType DEF StageBlobs, LastStage
    <3>3. buf' \in [Buffers -> [Slots -> Item \cup {Junk}]]
      BY <1>5, <3>1 DEF TypeOK, StageBlobs
    <3>4. QED BY <1>5, <3>2, <3>3 DEF TypeOK, StageBlobs, ClearErr, ResetTimes, Tag, pcs
  <2>2. MutexHeld'
    BY <1>5, ProverAssumption DEF TypeOK, MutexHeld, Inside, pcs, StageBlobs, ClearErr, ResetTimes, Tag
  <2>3. CallShape'
    BY <1>5, ProverAssumption DEF TypeOK, CallShape, Busy, Inside, pcs, StageBlobs, ClearErr, ResetTimes, Tag
  <2>4. CmdShape'
    <3>1. mutex = t
      BY <1>5 DEF StageBlobs, MutexHeld, Inside, pcs, TypeOK
    <3>2. ASSUME NEW u \in Threads, u # t
          PROVE  pc'[u] \in {"idle", "locking"}
      BY <1>5, <3>1, <3>2, OthersOutside DEF StageBlobs, TypeOK
    <3>3. cmd' = Recorded(t, 1) /\ cmd'.lo = 1 /\ cmd' = Recorded(t, cmd.lo)'
      BY <1>5 DEF StageBlobs, Recorded, Batch
    <3>4. call'[t] = call[t] /\ pc'[t] \in {"flush", "submit"}
      BY <1>5 DEF StageBlobs, TypeOK
    <3>5. /\ pc'[t] = "flush" => call[t].op = "profile" /\ cmd'.lo \in 1..LastStage
          /\ pc'[t] = "submit" => cmd'.lo = IF call[t].op = "profile" THEN LastStage + 1 ELSE 1
      BY <1>5, <3>3 DEF StageBlobs, TypeOK, CmdShape, LastStage, Call, Cmd
    <3>6. QED BY <3>2, <3>3, <3>4, <3>5 DEF CmdShape, Busy, Inside, pcs
  <2>5. QED BY <2>1, <2>2, <2>3, <2>4
<1>6. ASSUME NEW t \in Threads, RejectCells(t)
      PROVE  Shape'
  <2>1. TypeOK'
    <3>1. Filled("bufRecScratch", t) \in [Slots -> Item \cup {Junk}]
      BY <1>6, FilledType DEF RejectCells, Buffers
    <3>2. Return(t, "BADARGS") /\ "BADARGS" \in Codes
      BY <1>6 DEF RejectCells, Codes
    <3>3. buf' \in [Buffers -> [Slots -> Item \cup {Junk}]]
      BY <1>6, <3>1 DEF TypeOK, RejectCells
    <3>4. QED BY <1>6, <3>2, <3>3, ReturnShape DEF TypeOK, RejectCells
  <2>2. MutexHeld'
    BY <1>6, ProverAssumption DEF TypeOK, MutexHeld, Inside, pcs, RejectCells, Return
  <2>3. CallShape'
    <3>1. Return(t, "BADARGS") /\ "BADARGS" \in Codes
      BY <1>6 DEF RejectCells, Codes
    <3>2. QED BY <3>1, ReturnShape
  <2>4. CmdShape'
    BY <1>6, ProverAssumption DEF TypeOK, MutexHeld, CallShape, CmdShape, Busy, Inside, pcs, Recorded, Batch, RejectCells, Return
  <2>5. QED BY <2>1, <2>2, <2>3, <2>4
<1>7. ASSUME NEW t \in Threads, StageCells(t)
      PROVE  Shape'
  <2>1. TypeOK'
    <3>1. Filled("bufRecScratch", t) \in [Slots -> Item \cup {Junk}]
      BY <1>7, FilledType DEF StageCells, Buffers
    <3>2. FilledMissing(t) \in [Slots -> Item \cup {Junk}]
      BY <1>7, FilledType DEF StageCells, Buffers, FilledMissing
    <3>3. Recorded(t, 1) \in Cmd
      BY <1>7, RecordedType DEF StageCells, LastStage
    <3>4. buf' \in [Buffers -> [Slots -> Item \cup {Junk}]]
      BY <1>7, <3>1, <3>2 DEF TypeOK, StageCells
    <3>5. QED BY <1>7, <3>3, <3>4 DEF TypeOK, StageCells, ClearErr, pcs
  <2>2. MutexHeld'
    BY <1>7, ProverAssumption DEF TypeOK, MutexHeld, Inside, pcs, StageCells, ClearErr, FilledMissing
  <2>3. CallShape'
    BY <1>7, ProverAssumption DEF TypeOK, CallShape, Busy, Inside, pcs, StageCells, ClearErr, FilledMissing
  <2>4. CmdShape'
    BY <1>7, ProverAssumption DEF TypeOK, MutexHeld, CallShape, CmdShape, Busy, Inside, pcs, Recorded, Batch, StageCells, ClearErr, FilledMissing
  <2>5. QED BY <2>1, <2>2, <2>3, <2>4
<1>8. ASSUME NEW t \in Threads, FlushSubmit(t)
      PROVE  Shape'
  <2>1. TypeOK'
    <3>1. queue' \in Seq(Cmd)
      BY <1>8, AcceptedType DEF FlushSubmit, Refused, TypeOK
    <3>2. QED BY <1>8, <3>1 DEF TypeOK, FlushSubmit, ResetFence, pcs
  <2>2. MutexHeld'
    BY <1>8, ProverAssumption DEF TypeOK, MutexHeld, Inside, pcs, FlushSubmit, ResetFence, Accepted, Refused
  <2>3. CallShape'
    BY <1>8, ProverAssumption DEF TypeOK, CallShape, Busy, Inside, pcs, FlushSubmit, ResetFence, Accepted, Refused
  <2>4. CmdShape'
    BY <1>8, ProverAssumption DEF TypeOK, MutexHeld, CallShape, CmdShape, Busy, Inside, pcs, Recorded, Batch, FlushSubmit, ResetFence, Accepted, Refused
  <2>5. QED BY <2>1, <2>2, <2>3, <2>4
<1>9. ASSUME NEW t \in Threads, FlushWait(t)
      PROVE  Shape'
  <2>1. TypeOK'
    <3>1. done[t] < call[t].n /\ cmd.lo + 1 \in 1..(LastStage + 1)
      BY <1>9 DEF FlushWait, CallShape, CmdShape, Busy, Inside, pcs, LastStage
    <3>2. Recorded(t, cmd.lo + 1) \in Cmd
      BY <3>1, RecordedType
    <3>3. QED BY <1>9, <3>2 DEF TypeOK, FlushWait, pcs
  <2>2. MutexHeld'
    BY <1>9, ProverAssumption DEF TypeOK, MutexHeld, Inside, pcs, FlushWait
  <2>3. CallShape'
    BY <1>9, ProverAssumption DEF TypeOK, CallShape, Busy, Inside, pcs, FlushWait
  <2>4. CmdShape'
    <3>1. mutex = t
      BY <1>9 DEF FlushWait, MutexHeld, Inside, pcs, TypeOK
    <3>2. ASSUME NEW u \in Threads, u # t
          PROVE  pc'[u] \in {"idle", "locking"}
      BY <1>9, <3>1, <3>2, OthersOutside DEF FlushWait, TypeOK
    <3>3. cmd' = Recorded(t, cmd.lo + 1) /\ cmd'.lo = cmd.lo + 1 /\ cmd' = Recorded(t, cmd.lo)'
      BY <1>9 DEF FlushWait, Recorded, Batch
    <3>4. call'[t] = call[t] /\ pc'[t] \in {"flush", "submit"}
      BY <1>9 DEF FlushWait, TypeOK
    <3>5. /\ pc'[t] = "flush" => call[t].op = "profile" /\ cmd'.lo \in 1..LastStage
          /\ pc'[t] = "submit" => cmd'.lo = IF call[t].op = "profile" THEN LastStage + 1 ELSE 1
      BY <1>9, <3>3 DEF FlushWait, TypeOK, CmdShape, LastStage, Call, Cmd
    <3>6. QED BY <3>2, <3>3, <3>4, <3>5 DEF CmdShape, Busy, Inside, pcs
  <2>5. QED BY <2>1, <2>2, <2>3, <2>4
<1>10. ASSUME NEW t \in Threads, Submit(t)
      PROVE  Shape'
  <2>1. TypeOK'
    <3>1. queue' \in Seq(Cmd)
      BY <1>10, AcceptedType DEF Submit
    <3>2. QED BY <1>10, <3>1 DEF TypeOK, Submit, ResetFence, pcs
  <2>2. MutexHeld'
    BY <1>10, ProverAssumption DEF TypeOK, MutexHeld, Inside, pcs, Submit, ResetFence, Accepted
  <2>3. CallShape'
    BY <1>10, ProverAssumption DEF TypeOK, CallShape, Busy, Inside, pcs, Submit, ResetFence, Accepted
  <2>4. CmdShape'
    BY <1>10, ProverAssumption DEF TypeOK, MutexHeld, CallShape, CmdShape, Busy, Inside, pcs, Recorded, Batch, Submit, ResetFence, Accepted
  <2>5. QED BY <2>1, <2>2, <2>3, <2>4
<1>11. ASSUME NEW t \in Threads, SubmitFails(t)
      PROVE  Shape'
  <2>1. TypeOK'
    <3>1. Return(t, "GPU") /\ "GPU" \in Codes
      BY <1>11 DEF SubmitFails, Codes
    <3>2. QED BY <1>11, <3>1, ReturnShape DEF TypeOK, SubmitFails, ResetFence, Refused
  <2>2. MutexHeld'
    BY <1>11, ProverAssumption DEF TypeOK, MutexHeld, Inside, pcs, SubmitFails, ResetFence, Refused, Return
  <2>3. CallShape'
    <3>1. Return(t, "GPU") /\ "GPU" \in Codes
      BY <1>11 DEF SubmitFails, Codes
    <3>2. QED BY <3>1, ReturnShape
  <2>4. CmdShape'
    BY <1>11, ProverAssumption DEF TypeOK, MutexHeld, CallShape, CmdShape, Busy, Inside, pcs, Recorded, Batch, SubmitFails, ResetFence, Refused, Return
  <2>5. QED BY <2>1, <2>2, <2>3, <2>4
<1>12. ASSUME NEW t \in Threads, Wait(t)
      PROVE  Shape'
  <2>1. TypeOK'
    BY <1>12, ProverAssumption DEF TypeOK, pcs, Codes0, Codes, Wait
  <2>2. MutexHeld'
    BY <1>12, ProverAssumption DEF TypeOK, MutexHeld, Inside, pcs, Wait
  <2>3. CallShape'
    BY <1>12, ProverAssumption DEF TypeOK, CallShape, Busy, Inside, pcs, Wait
  <2>4. CmdShape'
    BY <1>12, ProverAssumption DEF TypeOK, MutexHeld, CallShape, CmdShape, Busy, Inside, pcs, Recorded, Batch, Wait
  <2>5. QED BY <2>1, <2>2, <2>3, <2>4
<1>13. ASSUME NEW t \in Threads, WaitFails(t)
      PROVE  Shape'
  <2>1. TypeOK'
    <3>1. Return(t, "GPU") /\ "GPU" \in Codes
      BY <1>13 DEF WaitFails, Codes
    <3>2. QED BY <1>13, <3>1, ReturnShape DEF TypeOK, WaitFails
  <2>2. MutexHeld'
    BY <1>13, ProverAssumption DEF TypeOK, MutexHeld, Inside, pcs, WaitFails, Return
  <2>3. CallShape'
    <3>1. Return(t, "GPU") /\ "GPU" \in Codes
      BY <1>13 DEF WaitFails, Codes
    <3>2. QED BY <3>1, ReturnShape
  <2>4. CmdShape'
    BY <1>13, ProverAssumption DEF TypeOK, MutexHeld, CallShape, CmdShape, Busy, Inside, pcs, Recorded, Batch, WaitFails, Return
  <2>5. QED BY <2>1, <2>2, <2>3, <2>4
<1>14. ASSUME NEW t \in Threads, InvalidBlob(t)
      PROVE  Shape'
  <2>1. TypeOK'
    <3>1. Return(t, "INVALID_BLOB") /\ "INVALID_BLOB" \in Codes
      BY <1>14 DEF InvalidBlob, Codes
    <3>2. QED BY <1>14, <3>1, ReturnShape DEF TypeOK, InvalidBlob
  <2>2. MutexHeld'
    BY <1>14, ProverAssumption DEF TypeOK, MutexHeld, Inside, pcs, InvalidBlob, Return
  <2>3. CallShape'
    <3>1. Return(t, "INVALID_BLOB") /\ "INVALID_BLOB" \in Codes
      BY <1>14 DEF InvalidBlob, Codes
    <3>2. QED BY <3>1, ReturnShape
  <2>4. CmdShape'
    BY <1>14, ProverAssumption DEF TypeOK, MutexHeld, CallShape, CmdShape, Busy, Inside, pcs, Recorded, Batch, InvalidBlob, Return
  <2>5. QED BY <2>1, <2>2, <2>3, <2>4
<1>15. ASSUME NEW t \in Threads, CopyOut(t)
      PROVE  Shape'
  <2>0. done[t] < call[t].n
    BY <1>15 DEF CopyOut, CallShape, Busy, Inside, pcs
  <2>1. TypeOK'
    <3>1. /\ Batch(t) \in 1..MaxBatch
          /\ done[t] + Batch(t) \in 1..call[t].n
          /\ call[t].n \in 0..MaxItems
          /\ done[t] \in Nat
      BY <2>0, BatchBounds DEF TypeOK, Call
    <3>2. done' \in [Threads -> 0..MaxItems]
      BY <1>15, <3>1, ProverAssumption DEF CopyOut, TypeOK
    <3>3. ASSUME NEW i \in Positions, i \in Chunk(t)
          PROVE  buf[ReadbackBuffer(t)][i - done[t]] \in Item \cup {Junk}
      <4>1. i - done[t] \in Slots
        BY <3>1, <3>3, ProverAssumption DEF Chunk, Slots
      <4>2. QED BY <4>1 DEF TypeOK, ReadbackBuffer, Buffers
    <3>4. OutAfter(t) \in [Positions -> Item \cup {Junk, Untouched}]
      BY <3>3 DEF OutAfter, TypeOK
    <3>5. QED BY <1>15, <3>2, <3>4 DEF CopyOut, TypeOK, pcs
  <2>2. MutexHeld'
    BY <1>15, ProverAssumption DEF TypeOK, MutexHeld, Inside, pcs, CopyOut, OutAfter
  <2>3. CallShape'
    <3>1. /\ Batch(t) \in 1..MaxBatch
          /\ done[t] + Batch(t) \in 1..call[t].n
          /\ call[t].op = "profile" => Batch(t) = call[t].n /\ done[t] = 0
          /\ done[t] \in Nat
      <4>1. done[t] < call[t].n
        BY <2>0
      <4>4. done[t] \in Nat /\ call[t].n \in Nat
        BY DEF TypeOK, Call
      <4>2. call[t].op = "profile" => done[t] \in {0, call[t].n}
        BY DEF CallShape
      <4>3. QED BY <4>1, <4>2, <4>4, BatchBounds DEF Batch
    <3>2. pc'[t] = "loop" /\ call'[t] = call[t] /\ done'[t] = done[t] + Batch(t)
      BY <1>15 DEF CopyOut, TypeOK
    <3>3. ASSUME NEW u \in Threads, u # t
          PROVE  pc'[u] = pc[u] /\ call'[u] = call[u] /\ done'[u] = done[u]
      BY <1>15, <3>3 DEF CopyOut, TypeOK
    <3>4. ASSUME NEW u \in Threads
          PROVE  /\ done'[u] <= call'[u].n
                 /\ call'[u].bad \subseteq 1..call'[u].n
                 /\ pc'[u] \in {"idle", "locking"} => done'[u] = 0
                 /\ call'[u].op = "profile" =>
                      call'[u].n <= MaxBatch /\ done'[u] \in {0, call'[u].n}
                 /\ pc'[u] \in Busy => done'[u] < call'[u].n
      <4>1. CASE u = t
        BY <4>1, <3>1, <3>2 DEF CallShape, Busy
      <4>2. CASE u # t
        BY <4>2, <3>3 DEF CallShape
      <4>3. QED BY <4>1, <4>2
    <3>5. QED BY <3>4 DEF CallShape
  <2>4. CmdShape'
    BY <1>15, ProverAssumption DEF TypeOK, MutexHeld, CallShape, CmdShape, Busy, Inside, pcs, Recorded, Batch, CopyOut, OutAfter
  <2>5. QED BY <2>1, <2>2, <2>3, <2>4
<1>16. ASSUME GpuRun
       PROVE  Shape'
  <2> DEFINE j == Head(queue)
  <2>1. j \in Cmd /\ queue # <<>> /\ queue[1] = j /\ 1 \in 1..Len(queue) /\ j.lo <= j.hi
    BY <1>16 DEF GpuRun, TypeOK
  <2>2. queue' \in Seq(Cmd)
    <3>1. [j EXCEPT !.lo = j.lo + 1] \in Cmd
      BY <2>1 DEF Cmd, LastStage
    <3>2. queue' = <<[j EXCEPT !.lo = j.lo + 1]>> \o Tail(queue)
      BY <1>16 DEF GpuRun
    <3>3. Tail(queue) \in Seq(Cmd)
      BY <2>1 DEF TypeOK
    <3>4. QED BY <3>1, <3>2, <3>3
  <2>3. /\ buf' \in [Buffers -> [Slots -> Item \cup {Junk}]]
        /\ bufErr' \in BOOLEAN
    <3>1. ASSUME NEW i \in Buffers, NEW o \in Buffers
          PROVE  Run(j, i, o) \in [Buffers -> [Slots -> Item \cup {Junk}]]
      BY DEF Run, TypeOK
    <3>2. CASE j.op = "recover"
      <4>1. RunRecoverStage(j)
        BY <1>16, <3>2 DEF GpuRun
      <4>2. ASSUME NEW s \in Slots
            PROVE  Recovered(s) \in Item \cup {Junk}
        BY DEF Recovered, TypeOK, Buffers
      <4>3. CASE buf' = Run(j, "bufRecScratch", "bufRecBrp")
        BY <3>1, <4>1, <4>3 DEF RunRecoverStage, TypeOK, Buffers
      <4>4. CASE buf' = RecoverBuf(j)
        BY <4>1, <4>2, <4>4 DEF RunRecoverStage, RecoverBuf, TypeOK
      <4>5. QED BY <4>1, <4>3, <4>4 DEF RunRecoverStage
    <3>3. CASE j.op # "recover"
      <4>1. RunProofStage(j)
        BY <1>16, <3>3 DEF GpuRun
      <4>2. buf' = Run(j, "bufBlob", "bufLagrange") \/ buf' = Run(j, "bufLagrange", "bufProofBytes")
        BY <4>1 DEF RunProofStage
      <4>3. buf' \in [Buffers -> [Slots -> Item \cup {Junk}]]
        <5>1. {"bufBlob", "bufLagrange", "bufProofBytes"} \subseteq Buffers
          BY DEF Buffers
        <5>2. QED BY <3>1, <4>2, <5>1
      <4>4. bufErr' \in BOOLEAN
        BY <4>1 DEF RunProofStage, TypeOK
      <4>5. QED BY <4>3, <4>4
    <3>4. QED BY <3>2, <3>3
  <2>4. UNCHANGED <<pc, callId, call, done, out, rc, mutex, lastStage, cmd, fence, device>>
    BY <1>16 DEF GpuRun, callerVars
  <2>5. TypeOK'
    BY <2>2, <2>3, <2>4 DEF TypeOK
  <2>6. QED BY <2>4, <2>5 DEF MutexHeld, CallShape, CmdShape, Recorded, Batch
<1>17. ASSUME GpuComplete
       PROVE  Shape'
  <2>1. queue' \in Seq(Cmd) /\ fence' \in BOOLEAN
    BY <1>17 DEF GpuComplete, TypeOK
  <2>2. UNCHANGED <<pc, callId, call, done, out, rc, mutex, buf, bufErr, lastStage, cmd, device>>
    BY <1>17 DEF GpuComplete, callerVars
  <2>3. TypeOK'
    BY <2>1, <2>2 DEF TypeOK
  <2>4. QED BY <2>2, <2>3 DEF MutexHeld, CallShape, CmdShape, Recorded, Batch
<1>18. ASSUME DeviceLost
       PROVE  Shape'
  <2>1. UNCHANGED <<pc, callId, call, done, out, rc, mutex, buf, bufErr, lastStage, cmd, fence>>
    BY <1>18 DEF DeviceLost, callerVars
  <2>2. TypeOK'
    BY <1>18, <2>1 DEF TypeOK, DeviceLost
  <2>3. QED BY <2>1, <2>2 DEF MutexHeld, CallShape, CmdShape, Recorded, Batch
<1>19. CASE UNCHANGED vars
  BY <1>19 DEF vars, TypeOK, MutexHeld, CallShape, CmdShape, Recorded, Batch
<1>20. QED
  BY <1>1, <1>2, <1>3, <1>4, <1>5, <1>6, <1>7, <1>8, <1>9, <1>10, <1>11, <1>12,
     <1>13, <1>14, <1>15, <1>16, <1>17, <1>18, <1>19 DEF Next, Serve, Gpu

\* Initially no thread is inside and nothing is recorded or submitted.
LEMMA ShapeInit == Init => Shape
<1> SUFFICES ASSUME Init PROVE Shape
  OBVIOUS
<1>1. NoCall \in Call /\ FreshOut \in [Positions -> Item \cup {Junk, Untouched}]
  BY ProverAssumption DEF NoCall, Call, AllOps, FreshOut
<1>2. cmd \in Cmd /\ 0 \in Ids /\ 0 \in 0..MaxItems
  BY ProverAssumption DEF Init, Cmd, AllOps, LastStage, Ids
<1>3. TypeOK
  <2>1. queue \in Seq(Cmd) /\ buf \in [Buffers -> [Slots -> Item \cup {Junk}]]
    BY DEF Init
  <2>2. pc \in [Threads -> pcs] /\ rc \in [Threads -> Codes0]
    BY DEF Init, pcs, Codes0
  <2>3. QED BY <2>1, <2>2, <1>1, <1>2 DEF Init, TypeOK
<1>4. QED
  BY <1>3, ProverAssumption DEF Init, Shape, MutexHeld, CallShape, CmdShape, Inside,
     Busy, pcs, NoCall

\* Every variable keeps its type; in particular a recorded pass, and so every
\* copy to and from the staging buffers, is never larger than p->maxBatch.
THEOREM TypeCorrect == Spec => []TypeOK
<1>1. Init => Shape
  BY ShapeInit
<1>2. Shape /\ [Next]_vars => Shape'
  BY ShapeStep
<1>3. Shape => TypeOK
  BY DEF Shape
<1>4. QED BY <1>1, <1>2, <1>3, PTL DEF Spec

-----------------------------------------------------------------------------
(* One submission at a time *)

\* A thread inside the library that is not waiting finds the device idle.
LEMMA Quiet ==
  ASSUME Shape, OneJob, NEW t \in Threads, pc[t] \in Inside,
         pc[t] \notin {"wait", "flushWait"}
  PROVE  queue = <<>>
  BY DEF Shape, MutexHeld, OneJob

\* So does one whose wait is over, or has failed because the device is lost.
LEMMA WaitQuiet ==
  ASSUME OneJob, fence \/ device = "lost"
  PROVE  queue = <<>>
  BY DEF OneJob

\* Submitting to an idle device leaves just what was recorded.
LEMMA Submitted ==
  ASSUME Shape, queue = <<>>, Accepted
  PROVE  queue' = <<cmd>> /\ queue'[1] = cmd /\ device = "ok"
  BY DEF Shape, TypeOK, Accepted

\* The sequence that is a queue of one.
LEMMA Singleton ==
  ASSUME NEW x, NEW y
  PROVE  /\ Head(<<x>>) = x /\ Tail(<<x>>) = <<>> /\ <<y>>[1] = y
         /\ <<y>> \o <<>> = <<y>> /\ <<y>> # <<>>
  OBVIOUS

\* What the device does to the queue.
LEMMA QueueStep ==
  ASSUME Shape, OneJob
  PROVE  /\ GpuRun => /\ queue' = <<[cmd EXCEPT !.lo = queue[1].lo + 1]>>
                      /\ queue'[1].lo = queue[1].lo + 1
                      /\ queue[1].lo <= cmd.hi
                      /\ queue # <<>> /\ queue' # <<>>
         /\ GpuComplete => queue' = <<>> /\ queue[1].lo = cmd.hi + 1 /\ queue # <<>>
<1> DEFINE x == [cmd EXCEPT !.lo = queue[1].lo]
<1>1. ASSUME queue # <<>>
      PROVE  queue = <<x>> /\ Head(queue) = x /\ x.hi = cmd.hi /\ x.lo = queue[1].lo
             /\ queue[1].lo \in cmd.lo..(cmd.hi + 1) /\ queue[1] = x /\ Len(queue) = 1
  BY <1>1 DEF OneJob, Shape, TypeOK, Cmd
<1>2. ASSUME GpuRun
      PROVE  /\ queue' = <<[cmd EXCEPT !.lo = queue[1].lo + 1]>>
             /\ queue'[1].lo = queue[1].lo + 1
             /\ queue[1].lo <= cmd.hi
             /\ queue # <<>> /\ queue' # <<>>
  <2>1. /\ queue # <<>> /\ Head(queue).lo <= Head(queue).hi
        /\ queue' = <<[Head(queue) EXCEPT !.lo = @ + 1]>> \o Tail(queue)
    BY <1>2 DEF GpuRun
  <2>2. [x EXCEPT !.lo = queue[1].lo + 1] = [cmd EXCEPT !.lo = queue[1].lo + 1]
    BY DEF Shape, TypeOK, Cmd
  <2>3. queue' = <<[x EXCEPT !.lo = queue[1].lo + 1]>>
    <3> DEFINE y == [x EXCEPT !.lo = queue[1].lo + 1]
    <3>1. [Head(queue) EXCEPT !.lo = @ + 1] = y
      BY <1>1, <2>1
    <3>2. Tail(queue) = <<>>
      <4> HIDE DEF x
      <4>1. QED BY <1>1, <2>1, Singleton
    <3>3. queue' = <<y>> \o <<>>
      BY <2>1, <3>1, <3>2
    <3>4. <<y>> \o <<>> = <<y>>
      <4> HIDE DEF y
      <4>1. QED BY Singleton
    <3>5. QED BY <3>3, <3>4
  <2>4. queue[1].lo <= cmd.hi
    BY <1>1, <2>1
  <2>5. /\ queue' # <<>>
        /\ queue'[1] = [x EXCEPT !.lo = queue[1].lo + 1]
    BY <2>3, Singleton
  <2>6. [cmd EXCEPT !.lo = queue[1].lo + 1].lo = queue[1].lo + 1
    BY DEF Shape, TypeOK, Cmd
  <2>7. QED BY <2>1, <2>2, <2>3, <2>4, <2>5, <2>6
<1>3. ASSUME GpuComplete
      PROVE  queue' = <<>> /\ queue[1].lo = cmd.hi + 1 /\ queue # <<>>
  <2>1. queue # <<>> /\ Head(queue).lo > Head(queue).hi /\ queue' = Tail(queue)
    BY <1>3 DEF GpuComplete
  <2>2. queue = <<x>> /\ Head(queue).lo = queue[1].lo /\ Head(queue).hi = cmd.hi
        /\ queue[1].lo \in cmd.lo..(cmd.hi + 1)
    BY <1>1, <2>1
  <2>3. queue' = <<>>
    BY <2>1, <2>2
  <2>4. cmd.hi \in Int /\ cmd.lo \in Int
    BY DEF Shape, TypeOK, Cmd
  <2>5. QED BY <2>1, <2>2, <2>3, <2>4
<1>4. QED BY <1>2, <1>3

\* No step makes the device work for a thread that does not wait for it.
LEMMA OneJobStep ==
  ASSUME Shape, OneJob, [Next]_vars, "wait" \notin Faults
  PROVE  OneJob'
<1>0. Shape'
  BY ShapeStep
<1>1. ASSUME NEW t \in Threads, Reject(t) \/ Enter(t)
      PROVE  OneJob'
  <2>1. UNCHANGED <<mutex, cmd, fence, queue, device>> /\ pc[t] = "idle"
    BY <1>1 DEF Reject, Enter
  <2>2. \A u \in Threads : u # t => pc'[u] = pc[u]
    BY <1>1 DEF Reject, Enter, Shape, TypeOK
  <2>3. QED BY <2>1, <2>2 DEF OneJob
<1>2. ASSUME NEW t \in Threads, Lock(t)
      PROVE  OneJob'
  <2>1. queue = <<>>
    BY <1>2, ProverAssumption DEF Lock, LockFree, OneJob
  <2>2. QED BY <1>2, <2>1 DEF Lock, OneJob
<1>3. ASSUME NEW t \in Threads,
             \/ LoopDone(t) \/ StageBlobs(t) \/ RejectCells(t) \/ StageCells(t)
             \/ SubmitFails(t) \/ InvalidBlob(t) \/ CopyOut(t)
      PROVE  OneJob'
  <2>1. pc[t] \in Inside \ {"wait", "flushWait"} /\ UNCHANGED queue
    BY <1>3 DEF LoopDone, StageBlobs, RejectCells, StageCells, SubmitFails,
                InvalidBlob, CopyOut, Refused, Inside, pcs
  <2>2. QED BY <2>1, Quiet DEF OneJob
<1>4. ASSUME NEW t \in Threads, FlushWait(t) \/ Wait(t) \/ WaitFails(t)
      PROVE  OneJob'
  <2>1. (fence \/ device = "lost") /\ UNCHANGED queue
    BY <1>4 DEF FlushWait, Wait, WaitFails, WaitOver, WaitFailed
  <2>2. QED BY <2>1, WaitQuiet DEF OneJob
<1>5. ASSUME NEW t \in Threads, FlushSubmit(t) \/ Submit(t)
      PROVE  OneJob'
  <2>1. /\ UNCHANGED <<cmd, device, mutex>> /\ fence' = FALSE
        /\ pc[t] \in Inside \ {"wait", "flushWait"}
        /\ pc[t] \in Busy
        /\ pc'[t] \in {"wait", "flushWait"}
        /\ Accepted \/ UNCHANGED queue
    BY <1>5 DEF FlushSubmit, Submit, ResetFence, Refused, Inside, Busy, pcs,
                Shape, TypeOK
  <2>2. queue = <<>> /\ mutex = t
    BY <2>1, Quiet DEF Shape, MutexHeld
  <2>3. CASE Accepted
    <3>1. queue' = <<cmd>> /\ queue'[1] = cmd /\ device = "ok"
      BY <2>2, <2>3, Submitted
    <3>2. cmd = [cmd EXCEPT !.lo = cmd.lo] /\ cmd.lo \in cmd.lo..(cmd.hi + 1)
      <4>1. cmd = Recorded(t, cmd.lo) /\ cmd \in Cmd
        BY <2>1 DEF Shape, CmdShape, TypeOK
      <4>2. cmd.lo <= cmd.hi + 1
        BY <4>1 DEF Recorded, Cmd, LastStage, Shape, CmdShape
      <4>3. QED BY <4>1, <4>2 DEF Cmd
    <3>3. QED BY <2>1, <2>2, <3>1, <3>2 DEF OneJob
  <2>4. CASE UNCHANGED queue
    BY <2>2, <2>4 DEF OneJob
  <2>5. QED BY <2>1, <2>3, <2>4
<1>6. ASSUME GpuRun
      PROVE  OneJob'
  <2>1. UNCHANGED <<pc, mutex, cmd, fence, device>>
    BY <1>6 DEF GpuRun, callerVars
  <2>2. /\ queue' = <<[cmd EXCEPT !.lo = queue'[1].lo]>>
        /\ queue'[1].lo = queue[1].lo + 1 /\ queue[1].lo <= cmd.hi /\ queue # <<>>
    BY <1>6, QueueStep
  <2>3. queue'[1].lo \in cmd.lo..(cmd.hi + 1)
    BY <2>2 DEF OneJob, Shape, TypeOK, Cmd
  <2>4. QED BY <2>1, <2>2, <2>3 DEF OneJob
<1>7. ASSUME GpuComplete \/ DeviceLost
      PROVE  OneJob'
  <2>1. queue' = <<>>
    BY <1>7, QueueStep DEF DeviceLost
  <2>2. QED BY <2>1 DEF OneJob
<1>8. CASE UNCHANGED vars
  BY <1>8 DEF vars, OneJob
<1>9. QED
  BY <1>1, <1>2, <1>3, <1>4, <1>5, <1>6, <1>7, <1>8 DEF Next, Serve, Gpu

\* When waits do not fail spuriously, the calls are serialised: the device only
\* ever executes the submission of the one thread that holds the mutex, and that
\* thread is waiting for it.
THEOREM CallsSerialised ==
  ASSUME "wait" \notin Faults
  PROVE  Spec => []Serialised
<1>1. Init => Shape /\ OneJob
  BY ShapeInit DEF Init, OneJob
<1>2. Shape /\ OneJob /\ [Next]_vars => Shape' /\ OneJob'
  BY ShapeStep, OneJobStep
<1>3. Shape /\ OneJob => Serialised
  BY ProverAssumption DEF OneJob, Serialised
<1>4. QED BY <1>1, <1>2, <1>3, PTL DEF Spec

-----------------------------------------------------------------------------
(* What the device has done *)

\* A step that leaves alone the buffers and the call of u leaves alone what has
\* been executed of u's chunk.
LEMMA ExecutedFrame ==
  ASSUME NEW u \in Threads, NEW k \in 0..LastStage, Executed(u, k),
         UNCHANGED <<buf, bufErr, call[u], done[u], callId[u]>>
  PROVE  Executed(u, k)'
<1>1. /\ InputBuffer(u)' = InputBuffer(u) /\ MiddleBuffer(u)' = MiddleBuffer(u)
      /\ ReadbackBuffer(u)' = ReadbackBuffer(u)
  BY DEF InputBuffer, MiddleBuffer, ReadbackBuffer
<1>2. Batch(u)' = Batch(u)
  BY DEF Batch
<1>3. ChunkBad(u)' <=> ChunkBad(u)
  BY DEF ChunkBad, Chunk, Batch
<1>4. \A s \in Slots : MyItem(u, done[u] + s)' = MyItem(u, done[u] + s)
  BY DEF MyItem
<1>5. ASSUME NEW b, Holds(b, u) PROVE Holds(b, u)'
  BY <1>2, <1>4, <1>5 DEF Holds
<1>6. QED BY <1>1, <1>3, <1>5 DEF Executed

\* Copying in and recording leave no stage executed and the error flag clear.
LEMMA StagedExecuted ==
  ASSUME Shape, NEW t \in Threads, StageBlobs(t) \/ StageCells(t)
  PROVE  Executed(t, 0)'
<1>1. /\ UNCHANGED <<call, done, callId>> /\ bufErr' = FALSE
      /\ done[t] < call[t].n
  BY DEF StageBlobs, StageCells, ClearErr
<1>2. ASSUME NEW b \in Buffers, buf'[b] = Filled(b, t)
      PROVE  Holds(b, t)'
  BY <1>1, <1>2 DEF Holds, Filled, Batch, MyItem
<1>3. CASE StageBlobs(t)
  <2>1. call[t].op # "recover" /\ buf'["bufBlob"] = Filled("bufBlob", t)
    BY <1>3 DEF StageBlobs, Shape, TypeOK, Buffers
  <2>2. Holds("bufBlob", t)'
    BY <1>2, <2>1 DEF Buffers
  <2>3. QED BY <1>1, <2>1, <2>2 DEF Executed, InputBuffer
<1>4. CASE StageCells(t)
  <2>1. /\ call[t].op = "recover" /\ ~ChunkBad(t)
        /\ buf'["bufRecScratch"] = Filled("bufRecScratch", t)
        /\ buf'["bufRecMissing"] = Filled("bufRecMissing", t)
    BY <1>4 DEF StageCells, Shape, TypeOK, Buffers, FilledMissing, TooManyMissing
  <2>2. Holds("bufRecScratch", t)' /\ Holds("bufRecMissing", t)'
    BY <1>2, <2>1 DEF Buffers
  <2>3. ~ChunkBad(t)'
    BY <1>1, <2>1 DEF ChunkBad, Chunk, Batch
  <2>4. QED BY <1>1, <2>1, <2>2, <2>3 DEF Executed, InputBuffer
<1>5. QED BY <1>3, <1>4

\* A kernel that reads a buffer holding t's chunk leaves it in the one it writes.
LEMMA RunHolds ==
  ASSUME Shape, NEW t \in Threads, NEW j, j.batch = Batch(t),
         NEW i \in Buffers, NEW o \in Buffers, i # o,
         Holds(i, t), buf' = Run(j, i, o), UNCHANGED <<call, done, callId>>
  PROVE  /\ Holds(o, t)'
         /\ \A b \in Buffers : b # o /\ Holds(b, t) => Holds(b, t)'
  BY DEF Shape, TypeOK, Holds, Run, Batch, MyItem

\* The error flag is raised exactly when the chunk read holds an invalid blob.
LEMMA RaisedIffBad ==
  ASSUME Shape, NEW t \in Threads, done[t] < call[t].n, NEW b \in Buffers, Holds(b, t)
  PROVE  (\E s \in Slots : s <= Batch(t) /\ Raises(buf[b][s])) <=> ChunkBad(t)
<1>1. ASSUME NEW s \in Slots, s <= Batch(t)
      PROVE  /\ done[t] + s \in Chunk(t)
             /\ Raises(buf[b][s]) <=> done[t] + s \in call[t].bad
  <2>1. done[t] \in Nat /\ Batch(t) \in 1..MaxBatch /\ s \in 1..MaxBatch
        /\ done[t] + Batch(t) \in 1..call[t].n /\ call[t].n \in 0..MaxItems
    BY BatchBounds DEF Shape, TypeOK, Slots, Call
  <2>2. done[t] + s \in Positions /\ done[t] + s \in Chunk(t)
    BY <1>1, <2>1, ProverAssumption DEF Positions, Chunk
  <2>3. buf[b][s] = MyItem(t, done[t] + s)
    BY <1>1 DEF Holds
  <2>4. MyItem(t, done[t] + s) # Junk
    BY <2>2, MyItemType, ProverAssumption DEF Shape
  <2>5. MyItem(t, done[t] + s).ok <=> done[t] + s \notin call[t].bad
    BY Zenon DEF MyItem
  <2>6. QED BY <2>2, <2>3, <2>4, <2>5 DEF Raises
<1>2. ASSUME NEW i \in Chunk(t)
      PROVE  i - done[t] \in Slots /\ i - done[t] <= Batch(t) /\ done[t] + (i - done[t]) = i
  BY BatchBounds, ProverAssumption DEF Shape, TypeOK, Slots, Chunk, Call
<1>3. ASSUME ChunkBad(t)
      PROVE  \E s \in Slots : s <= Batch(t) /\ Raises(buf[b][s])
  <2>1. PICK i \in Chunk(t) : i \in call[t].bad
    BY <1>3 DEF ChunkBad
  <2>2. QED BY <1>1, <1>2, <2>1
<1>4. QED BY <1>1, <1>3 DEF ChunkBad

\* The device executes the next stage of the chunk it was given.
LEMMA GpuExecutes ==
  ASSUME Shape, OneJob, GpuRun, NEW t \in Threads, pc[t] \in {"wait", "flushWait"},
         NEW k \in 0..LastStage, k = queue[1].lo - 1, Executed(t, k)
  PROVE  k + 1 \in 0..LastStage /\ Executed(t, k + 1)'
<1> DEFINE j == Head(queue)
<1>1. /\ UNCHANGED <<call, done, callId>> /\ queue # <<>> /\ j.lo <= j.hi
      /\ j.op = "recover" => RunRecoverStage(j)
      /\ j.op # "recover" => RunProofStage(j)
  BY DEF GpuRun, callerVars
<1>2. cmd = Recorded(t, cmd.lo) /\ cmd \in Cmd /\ done[t] < call[t].n
  BY DEF Shape, CmdShape, CallShape, TypeOK, Busy, Inside, pcs
<1>3. j = [cmd EXCEPT !.lo = queue[1].lo]
  <2>1. queue = <<[cmd EXCEPT !.lo = queue[1].lo]>>
    BY <1>1 DEF OneJob
  <2>2. QED BY <2>1, Singleton
<1>4. j.op = call[t].op /\ j.batch = Batch(t) /\ j.lo = k + 1 /\ k + 1 \in 1..LastStage
  <2>1. j.op = cmd.op /\ j.batch = cmd.batch /\ j.hi = cmd.hi /\ j.lo = queue[1].lo
    BY <1>2, <1>3 DEF Cmd
  <2>2. queue[1].lo \in Int /\ queue[1].lo <= cmd.hi /\ cmd.hi \in 0..LastStage
    BY <1>1, <1>2, <2>1 DEF OneJob, Cmd
  <2>3. cmd.op = call[t].op /\ cmd.batch = Batch(t)
    BY <1>2 DEF Recorded
  <2>4. QED BY <1>1, <2>1, <2>2, <2>3 DEF LastStage
<1>5. Batch(t)' = Batch(t) /\ (ChunkBad(t)' <=> ChunkBad(t))
  BY <1>1 DEF Batch, ChunkBad, Chunk
<1>6. CASE call[t].op # "recover" /\ k = 0
  <2>1. buf' = Run(j, "bufBlob", "bufLagrange") /\ Holds("bufBlob", t) /\ ~bufErr
        /\ bufErr' = (bufErr \/ \E s \in Slots : s <= j.batch /\ Raises(buf["bufBlob"][s]))
    <3>1. RunProofStage(j) /\ j.lo = 1
      <4>1. j.op # "recover"
        BY <1>4, <1>6
      <4>2. RunProofStage(j)
        BY <1>1, <4>1, Zenon
      <4>3. j.lo = 1
        BY <1>4, <1>6
      <4>4. QED BY <4>2, <4>3
    <3>2. Holds("bufBlob", t) /\ ~bufErr
      BY <1>6 DEF Executed, InputBuffer
    <3>3. QED BY <3>1, <3>2 DEF RunProofStage
  <2>2. Holds("bufLagrange", t)'
    BY <1>1, <1>4, <2>1, RunHolds DEF Buffers
  <2>3. bufErr' <=> ChunkBad(t)
    BY <1>2, <1>4, <2>1, RaisedIffBad DEF Buffers
  <2>4. QED BY <1>1, <1>4, <1>5, <1>6, <2>2, <2>3 DEF Executed, MiddleBuffer, LastStage
<1>7. CASE call[t].op # "recover" /\ k = 1
  <2>1. buf' = Run(j, "bufLagrange", "bufProofBytes") /\ Holds("bufLagrange", t)
        /\ bufErr' = bufErr /\ (bufErr <=> ChunkBad(t))
    <3>1. RunProofStage(j) /\ j.lo = 2
      <4>1. j.op # "recover"
        BY <1>4, <1>7
      <4>2. RunProofStage(j)
        BY <1>1, <4>1, Zenon
      <4>3. j.lo = 2
        BY <1>4, <1>7
      <4>4. QED BY <4>2, <4>3
    <3>2. Holds("bufLagrange", t) /\ (bufErr <=> ChunkBad(t))
      BY <1>7 DEF Executed, MiddleBuffer
    <3>3. QED BY <3>1, <3>2 DEF RunProofStage
  <2>2. Holds("bufLagrange", t)' /\ Holds("bufProofBytes", t)'
    BY <1>1, <1>4, <2>1, RunHolds DEF Buffers
  <2>3. QED BY <1>1, <1>4, <1>5, <1>7, <2>1, <2>2
            DEF Executed, MiddleBuffer, ReadbackBuffer, LastStage
<1>8. CASE call[t].op = "recover" /\ k = 0
  <2>1. /\ buf' = Run(j, "bufRecScratch", "bufRecBrp")
        /\ Holds("bufRecScratch", t) /\ Holds("bufRecMissing", t) /\ ~ChunkBad(t)
    BY <1>1, <1>4, <1>8 DEF RunRecoverStage, Executed, InputBuffer
  <2>2. Holds("bufRecBrp", t)' /\ Holds("bufRecMissing", t)'
    BY <1>1, <1>4, <2>1, RunHolds DEF Buffers
  <2>3. QED BY <1>1, <1>4, <1>5, <1>8, <2>1, <2>2 DEF Executed, MiddleBuffer, LastStage
<1>9. CASE call[t].op = "recover" /\ k = 1
  <2>1. /\ buf' = RecoverBuf(j)
        /\ Holds("bufRecBrp", t) /\ Holds("bufRecMissing", t) /\ ~ChunkBad(t)
    <3>1. RunRecoverStage(j) /\ j.lo = 2
      BY <1>1, <1>4, <1>9
    <3>2. Holds("bufRecBrp", t) /\ Holds("bufRecMissing", t) /\ ~ChunkBad(t)
      BY <1>9 DEF Executed, MiddleBuffer
    <3>3. QED BY <3>1, <3>2 DEF RunRecoverStage
  <2>2. /\ buf'["bufRecBrp"] = buf["bufRecBrp"]
        /\ buf'["bufRecMissing"] = buf["bufRecMissing"]
        /\ \A s \in Slots : s <= Batch(t) => buf'["bufRecOut"][s] = Recovered(s)
    BY <1>4, <2>1 DEF RecoverBuf, Shape, TypeOK, Buffers
  <2>3. Holds("bufRecBrp", t)' /\ Holds("bufRecMissing", t)'
    BY <1>1, <1>5, <2>1, <2>2 DEF Holds, MyItem
  <2>4. Holds("bufRecOut", t)'
    BY <1>1, <1>5, <2>1, <2>2 DEF Holds, MyItem, Recovered
  <2>5. QED BY <1>1, <1>4, <1>5, <1>9, <2>1, <2>3, <2>4
            DEF Executed, MiddleBuffer, ReadbackBuffer, LastStage
<1>10. QED BY <1>4, <1>6, <1>7, <1>8, <1>9 DEF LastStage

\* The steps of a thread that owns the mutex: what they do to the others.
LEMMA HolderStep ==
  ASSUME Shape, NEW t \in Threads, mutex = t,
         \A u \in Threads : u # t => pc'[u] = pc[u],
         Follows(t)'
  PROVE  Progress'
<1>1. ASSUME NEW u \in Threads, u # t
      PROVE  Follows(u)'
  <2>1. pc'[u] \notin Busy
    BY <1>1, OthersOutside DEF Busy, Inside
  <2>2. QED BY <2>1 DEF Follows
<1>2. QED BY <1>1 DEF Progress

\* Every step of the host and the device keeps the buffers in step with the
\* stages executed, until the device is lost.
LEMMA ProgressStep ==
  ASSUME Shape, OneJob, Progress, [Next]_vars, "wait" \notin Faults
  PROVE  Progress'
<1>0. Shape' /\ OneJob'
  BY ShapeStep, OneJobStep
<1>1. ASSUME NEW t \in Threads, Reject(t) \/ Enter(t)
      PROVE  Progress'
  <2>1. /\ UNCHANGED <<done, mutex, buf, bufErr, cmd, fence, queue, device>>
        /\ pc'[t] \notin Busy
    BY <1>1 DEF Reject, Enter, Shape, TypeOK, Busy, Inside
  <2>2. ASSUME NEW u \in Threads, u # t
        PROVE  pc'[u] = pc[u] /\ UNCHANGED <<call[u], done[u], callId[u]>>
    BY <1>1, <2>2 DEF Reject, Enter, Shape, TypeOK
  <2>3. ASSUME NEW u \in Threads, pc'[u] \in Busy, Intact(u)'
        PROVE  \E k \in 0..LastStage : k = StagesRun(u)' /\ Executed(u, k)'
    <3>1. u # t
      BY <2>1, <2>3
    <3>2. pc'[u] = pc[u] /\ UNCHANGED <<call[u], done[u], callId[u]>>
      BY <2>2, <3>1
    <3>3. Intact(u) /\ pc[u] \in Busy /\ StagesRun(u)' = StagesRun(u)
      BY <2>1, <2>3, <3>2 DEF Intact, StagesRun
    <3>4. PICK k \in 0..LastStage : k = StagesRun(u) /\ Executed(u, k)
      BY <3>3 DEF Progress, Follows
    <3>5. Executed(u, k)'
      BY <2>1, <3>2, <3>4, ExecutedFrame
    <3>6. QED BY <3>3, <3>4, <3>5
  <2>4. QED BY <2>3 DEF Progress, Follows
<1>2. ASSUME NEW t \in Threads, Lock(t)
      PROVE  Progress'
  <2>1. ASSUME NEW u \in Threads
        PROVE  pc'[u] \notin Busy
    BY <1>2, ProverAssumption
       DEF Lock, LockFree, Shape, MutexHeld, TypeOK, Busy, Inside, pcs
  <2>2. QED BY <2>1 DEF Progress, Follows
<1>3. ASSUME NEW t \in Threads,
             \/ LoopDone(t) \/ RejectCells(t) \/ SubmitFails(t) \/ WaitFails(t)
             \/ InvalidBlob(t) \/ CopyOut(t)
      PROVE  Progress'
  <2>1. /\ pc[t] \in Inside
        /\ pc' = [pc EXCEPT ![t] = "idle"] \/ pc' = [pc EXCEPT ![t] = "loop"]
    BY <1>3 DEF LoopDone, RejectCells, SubmitFails, WaitFails, InvalidBlob, CopyOut,
                Return, Inside, pcs
  <2>2. mutex = t /\ pc'[t] \notin Busy
    BY <2>1 DEF Shape, MutexHeld, TypeOK, Busy, Inside
  <2>3. \A u \in Threads : u # t => pc'[u] = pc[u]
    BY <2>1 DEF Shape, TypeOK
  <2>4. Follows(t)'
    BY <2>2 DEF Follows
  <2>5. QED BY <2>2, <2>3, <2>4, HolderStep
<1>4. ASSUME NEW t \in Threads, StageBlobs(t) \/ StageCells(t)
      PROVE  Progress'
  <2>1. /\ pc[t] = "loop" /\ cmd' = Recorded(t, 1) /\ UNCHANGED queue
        /\ pc'[t] \in {"flush", "submit"}
        /\ \A u \in Threads : u # t => pc'[u] = pc[u]
    BY <1>4 DEF StageBlobs, StageCells, Shape, TypeOK
  <2>2. mutex = t /\ queue = <<>>
    BY <2>1, Quiet DEF Shape, MutexHeld, Inside, pcs
  <2>3. StagesRun(t)' = 0
    BY <2>1, <2>2 DEF StagesRun, Recorded
  <2>4. Executed(t, 0)'
    BY <1>4, StagedExecuted
  <2>5. Follows(t)'
    BY <2>3, <2>4 DEF Follows, LastStage
  <2>6. QED BY <2>1, <2>2, <2>5, HolderStep
<1>5. ASSUME NEW t \in Threads, FlushSubmit(t) \/ Submit(t)
      PROVE  Progress'
  <2>1. /\ pc[t] \in {"flush", "submit"} /\ pc'[t] \in {"wait", "flushWait"}
        /\ fence' = FALSE
        /\ Accepted \/ UNCHANGED queue
        /\ UNCHANGED <<callId, call, done, mutex, buf, bufErr, cmd, device>>
        /\ \A u \in Threads : u # t => pc'[u] = pc[u]
    BY <1>5 DEF FlushSubmit, Submit, ResetFence, Refused, Shape, TypeOK
  <2>2. mutex = t /\ queue = <<>> /\ pc[t] \in Busy
    BY <2>1, Quiet DEF Shape, MutexHeld, Inside, Busy, pcs
  <2>3. ASSUME Intact(t)'
        PROVE  \E k \in 0..LastStage : k = StagesRun(t)' /\ Executed(t, k)'
    <3>1. Intact(t)
      BY <2>1, <2>3 DEF Intact
    <3>2. PICK k \in 0..LastStage : k = StagesRun(t) /\ Executed(t, k)
      BY <2>2, <3>1 DEF Progress, Follows
    <3>3. StagesRun(t) = cmd.lo - 1
      BY <2>1, <2>2 DEF StagesRun
    <3>4. CASE Accepted
      <4>1. queue' = <<cmd>> /\ queue'[1] = cmd /\ queue' # <<>>
        BY <2>2, <3>4, Submitted, Singleton
      <4>2. StagesRun(t)' = cmd.lo - 1
        BY <4>1 DEF StagesRun
      <4>3. Executed(t, k)'
        BY <2>1, <3>2, ExecutedFrame
      <4>4. QED BY <3>2, <3>3, <4>2, <4>3
    <3>5. CASE UNCHANGED queue
      <4>1. StagesRun(t)' = cmd.lo - 1
        BY <2>1, <2>2, <3>5 DEF StagesRun
      <4>2. Executed(t, k)'
        BY <2>1, <3>2, ExecutedFrame
      <4>3. QED BY <3>2, <3>3, <4>1, <4>2
    <3>6. QED BY <2>1, <3>4, <3>5
  <2>4. QED BY <2>1, <2>2, <2>3, HolderStep DEF Follows
<1>6. ASSUME NEW t \in Threads, FlushWait(t) \/ Wait(t)
      PROVE  Progress'
  <2>1. /\ pc[t] \in {"wait", "flushWait"}
        /\ fence \/ device = "lost"
        /\ UNCHANGED <<callId, call, done, mutex, buf, bufErr, fence, queue, device>>
        /\ \A u \in Threads : u # t => pc'[u] = pc[u]
    BY <1>6 DEF FlushWait, Wait, WaitOver, WaitFailed, Shape, TypeOK
  <2>2. mutex = t /\ queue = <<>> /\ pc[t] \in Busy
    BY <2>1, WaitQuiet DEF Shape, MutexHeld, Inside, Busy, pcs
  <2>3. ASSUME Intact(t)'
        PROVE  \E k \in 0..LastStage : k = StagesRun(t)' /\ Executed(t, k)'
    <3>1. Intact(t) /\ fence
      <4>1. CASE FlushWait(t)
        <5>1. pc'[t] \in {"flush", "submit"}
          BY <4>1 DEF FlushWait, Shape, TypeOK
        <5>2. QED BY <2>1, <2>3, <5>1 DEF Intact
      <4>2. CASE Wait(t)
        BY <4>2 DEF Wait, WaitOver, Intact
      <4>3. QED BY <1>6, <4>1, <4>2
    <3>2. StagesRun(t) = cmd.hi
      BY <2>1, <2>2, <3>1 DEF StagesRun
    <3>3. PICK k \in 0..LastStage : k = StagesRun(t) /\ Executed(t, k)
      BY <2>2, <3>1 DEF Progress, Follows
    <3>4. Executed(t, k)'
      BY <2>1, <3>3, ExecutedFrame
    <3>5. StagesRun(t)' = cmd.hi
      <4>1. cmd = Recorded(t, cmd.lo) /\ cmd \in Cmd
        BY <2>2 DEF Shape, CmdShape, TypeOK
      <4>2. CASE FlushWait(t)
        <5>1. call[t].op = "profile" /\ cmd.lo \in 1..LastStage
          BY <4>2 DEF FlushWait, Shape, CmdShape
        <5>2. cmd.hi = cmd.lo
          BY <4>1, <5>1 DEF Recorded
        <5>3. cmd'.lo - 1 = cmd.lo
          BY <4>2, <5>1 DEF FlushWait, Recorded, LastStage
        <5>4. pc'[t] \in {"flush", "submit"}
          BY <4>2 DEF FlushWait, Shape, TypeOK
        <5>5. QED BY <2>1, <2>2, <5>2, <5>3, <5>4 DEF StagesRun
      <4>3. CASE Wait(t)
        <5>1. pc'[t] = "readback" /\ pc[t] = "wait"
          BY <4>3 DEF Wait, Shape, TypeOK
        <5>2. cmd.lo = IF call[t].op = "profile" THEN LastStage + 1 ELSE 1
          BY <5>1 DEF Shape, CmdShape
        <5>3. cmd.hi = LastStage
          BY <4>1, <5>2 DEF Recorded, LastStage
        <5>4. QED BY <2>1, <2>2, <5>1, <5>3 DEF StagesRun
      <4>4. QED BY <1>6, <4>2, <4>3
    <3>6. QED BY <3>2, <3>3, <3>4, <3>5
  <2>4. QED BY <2>2, <2>1, <2>3, HolderStep DEF Follows
<1>7. ASSUME GpuRun
      PROVE  Progress'
  <2>1. UNCHANGED <<pc, mutex, cmd, fence, device>>
    BY <1>7 DEF GpuRun, callerVars
  <2>2. queue # <<>> /\ queue' # <<>> /\ queue'[1].lo = queue[1].lo + 1
    BY <1>7, QueueStep
  <2>3. ASSUME NEW t \in Threads, pc[t] \in Busy, Intact(t)'
        PROVE  \E k \in 0..LastStage : k = StagesRun(t)' /\ Executed(t, k)'
    <3>1. pc[t] \in {"wait", "flushWait"}
      BY <2>2, <2>3 DEF OneJob, Shape, MutexHeld, Busy
    <3>2. PICK k \in 0..LastStage : k = StagesRun(t) /\ Executed(t, k)
      BY <2>1, <2>3 DEF Progress, Follows, Intact
    <3>3. k = queue[1].lo - 1
      BY <2>2, <3>2 DEF StagesRun
    <3>4. k + 1 \in 0..LastStage /\ Executed(t, k + 1)'
      BY <1>7, <3>1, <3>2, <3>3, GpuExecutes
    <3>5. StagesRun(t)' = k + 1
      <4>1. queue[1].lo \in Int
        BY <2>2 DEF OneJob
      <4>2. QED BY <2>2, <3>3, <4>1 DEF StagesRun
    <3>6. QED BY <3>4, <3>5
  <2>4. QED BY <2>1, <2>3 DEF Progress, Follows
<1>8. ASSUME GpuComplete
      PROVE  Progress'
  <2>1. /\ UNCHANGED <<pc, callId, call, done, mutex, buf, bufErr, cmd, device>>
        /\ fence'
    BY <1>8 DEF GpuComplete, callerVars
  <2>2. queue # <<>> /\ queue' = <<>> /\ queue[1].lo = cmd.hi + 1
    BY <1>8, QueueStep
  <2>3. ASSUME NEW t \in Threads, pc[t] \in Busy
        PROVE  \E k \in 0..LastStage : k = StagesRun(t)' /\ Executed(t, k)'
    <3>1. pc[t] \in {"wait", "flushWait"} /\ device = "ok"
      BY <2>2, <2>3 DEF OneJob, Shape, MutexHeld, Busy
    <3>2. PICK k \in 0..LastStage : k = StagesRun(t) /\ Executed(t, k)
      BY <2>3, <3>1 DEF Progress, Follows, Intact
    <3>3. k = cmd.hi
      <4>1. cmd.hi \in Int
        BY DEF Shape, TypeOK, Cmd
      <4>2. QED BY <2>2, <3>2, <4>1 DEF StagesRun
    <3>4. Executed(t, k)'
      BY <2>1, <3>2, ExecutedFrame
    <3>5. StagesRun(t)' = cmd.hi
      BY <2>1, <2>2, <3>1 DEF StagesRun
    <3>6. QED BY <3>3, <3>4, <3>5
  <2>4. QED BY <2>1, <2>3 DEF Progress, Follows
<1>9. ASSUME DeviceLost
      PROVE  Progress'
  <2>1. /\ UNCHANGED <<pc, callId, call, done, mutex, buf, bufErr, cmd, fence>>
        /\ device = "ok" /\ device' = "lost" /\ queue' = <<>>
    BY <1>9 DEF DeviceLost, callerVars
  <2>2. ASSUME NEW t \in Threads, pc[t] \in Busy, Intact(t)'
        PROVE  \E k \in 0..LastStage : k = StagesRun(t)' /\ Executed(t, k)'
    <3>1. Intact(t) /\ (pc[t] = "readback" \/ (pc[t] = "wait" /\ fence))
      <4>1. device' # "ok" /\ pc'[t] = pc[t] /\ fence' = fence
        BY <2>1
      <4>2. pc[t] = "readback" \/ (pc[t] = "wait" /\ fence)
        BY <2>2, <4>1 DEF Intact
      <4>3. QED BY <4>2 DEF Intact
    <3>2. queue = <<>>
      BY <3>1, <2>2, Quiet, WaitQuiet DEF Busy
    <3>3. PICK k \in 0..LastStage : k = StagesRun(t) /\ Executed(t, k)
      BY <2>2, <3>1 DEF Progress, Follows
    <3>4. StagesRun(t)' = StagesRun(t)
      BY <2>1, <3>2 DEF StagesRun
    <3>5. Executed(t, k)'
      BY <2>1, <3>3, ExecutedFrame
    <3>6. QED BY <3>3, <3>4, <3>5
  <2>3. QED BY <2>1, <2>2 DEF Progress, Follows
<1>10. CASE UNCHANGED vars
  <2>1. ASSUME NEW t \in Threads
        PROVE  Follows(t)'
    <3>1. /\ UNCHANGED <<pc, device, fence, queue, cmd, buf, bufErr, call, done, callId>>
      BY <1>10 DEF vars
    <3>2. SUFFICES ASSUME pc[t] \in Busy, Intact(t)
                   PROVE  \E k \in 0..LastStage : k = StagesRun(t)' /\ Executed(t, k)'
      BY <3>1 DEF Follows, Intact
    <3>3. PICK k \in 0..LastStage : k = StagesRun(t) /\ Executed(t, k)
      BY <3>2 DEF Progress, Follows
    <3>4. Executed(t, k)'
      BY <3>1, <3>3, ExecutedFrame
    <3>5. QED BY <3>1, <3>3, <3>4 DEF StagesRun
  <2>2. QED BY <2>1 DEF Progress
<1>11. QED
  BY <1>1, <1>2, <1>3, <1>4, <1>5, <1>6, <1>7, <1>8, <1>9, <1>10 DEF Next, Serve, Gpu

-----------------------------------------------------------------------------
(* What callers see *)

\* Once its pass has been read back, the error flag and the readback buffer are
\* those of the thread's own chunk.
LEMMA AtReadback ==
  ASSUME Shape, OneJob, Progress, NEW t \in Threads, pc[t] = "readback"
  PROVE  Executed(t, LastStage)
<1>1. queue = <<>> /\ pc[t] \in Busy /\ Intact(t)
  BY Quiet DEF Inside, Busy, pcs, Intact
<1>2. StagesRun(t) = LastStage
  BY <1>1 DEF StagesRun
<1>3. QED BY <1>1, <1>2 DEF Progress, Follows

\* The copy to the caller writes the chunk's own results, all of valid inputs.
LEMMA CopyOutOwn ==
  ASSUME IInv, NEW t \in Threads, CopyOut(t)
  PROVE  \A i \in Positions :
           IF i <= done'[t] THEN out'[t][i] = MyItem(t, i)' /\ i \notin call'[t].bad
           ELSE out'[t][i] = Untouched
<1> USE DEF IInv
<1>1. /\ UNCHANGED <<call, callId>> /\ pc[t] = "readback" /\ pc[t] \in Busy
      /\ call[t].op = "recover" \/ ~bufErr
  BY DEF CopyOut, Busy, Inside, pcs
<1>2. out'[t] = OutAfter(t) /\ done'[t] = done[t] + Batch(t)
  BY DEF CopyOut, Shape, TypeOK
<1>3. Holds(ReadbackBuffer(t), t) /\ ~ChunkBad(t)
  <2>1. Executed(t, LastStage)
    BY <1>1, AtReadback
  <2>2. QED BY <1>1, <2>1 DEF Executed, LastStage
<1>4. done[t] \in Nat /\ Batch(t) \in 1..MaxBatch /\ MaxBatch \in Nat /\ MaxItems \in Nat
  BY <1>1, BatchBounds, ProverAssumption DEF Shape, CallShape, TypeOK
<1>5. ASSUME NEW i \in Positions
      PROVE  IF i <= done'[t] THEN out'[t][i] = MyItem(t, i)' /\ i \notin call'[t].bad
             ELSE out'[t][i] = Untouched
  <2>1. MyItem(t, i)' = MyItem(t, i) /\ call' = call /\ i \in Nat \ {0}
    BY <1>1, <1>4 DEF MyItem, Positions
  <2>2. CASE i \in Chunk(t)
    <3>1. i - done[t] \in Slots /\ i - done[t] <= Batch(t) /\ done[t] + (i - done[t]) = i
          /\ i <= done[t] + Batch(t)
      BY <1>4, <2>1, <2>2 DEF Chunk, Slots
    <3>2. out'[t][i] = buf[ReadbackBuffer(t)][i - done[t]]
      BY <1>2, <2>2 DEF OutAfter
    <3>3. buf[ReadbackBuffer(t)][i - done[t]] = MyItem(t, i)
      BY <1>3, <3>1 DEF Holds
    <3>4. i \notin call[t].bad
      BY <1>3, <2>2 DEF ChunkBad
    <3>5. QED BY <1>2, <2>1, <3>1, <3>2, <3>3, <3>4
  <2>3. CASE i \notin Chunk(t)
    <3>1. out'[t][i] = out[t][i]
      BY <1>2, <2>3 DEF OutAfter
    <3>2. i <= done[t] <=> i <= done[t] + Batch(t)
      BY <1>4, <2>1, <2>3 DEF Chunk
    <3>3. QED BY <1>2, <2>1, <3>1, <3>2 DEF OwnResults
  <2>4. QED BY <2>2, <2>3
<1>6. QED BY <1>5

\* No step puts anything else in a caller's array.
LEMMA OwnResultsStep ==
  ASSUME IInv, [Next]_vars
  PROVE  OwnResults'
<1> USE DEF IInv
<1>1. ASSUME NEW t \in Threads, Return(t, rc'[t]), UNCHANGED callId
      PROVE  OwnResults'
  <2>1. ASSUME NEW u \in Threads, u # t
        PROVE  done'[u] = done[u] /\ out'[u] = out[u] /\ call'[u] = call[u]
    BY <1>1, <2>1 DEF Return, Shape, TypeOK
  <2>2. done'[t] = 0 /\ out'[t] = FreshOut
    BY <1>1 DEF Return, Shape, TypeOK
  <2>3. ASSUME NEW i \in Positions
        PROVE  ~(i <= done'[t]) /\ out'[t][i] = Untouched
    BY <2>2, <2>3, ProverAssumption DEF FreshOut, Positions
  <2>4. QED BY <1>1, <2>1, <2>3 DEF OwnResults, MyItem
<1>2. ASSUME NEW t \in Threads,
             \/ LoopDone(t) \/ RejectCells(t) \/ SubmitFails(t) \/ WaitFails(t)
             \/ InvalidBlob(t)
      PROVE  OwnResults'
  <2>1. UNCHANGED callId /\ \E code \in Codes : Return(t, code)
    BY <1>2 DEF LoopDone, RejectCells, SubmitFails, WaitFails, InvalidBlob, Codes
  <2>2. Return(t, rc'[t])
    BY <2>1 DEF Return, Shape, TypeOK
  <2>3. QED BY <1>1, <2>1, <2>2
<1>3. ASSUME NEW t \in Threads, Enter(t)
      PROVE  OwnResults'
  <2>1. UNCHANGED <<done, out>> /\ pc[t] = "idle"
    BY <1>3 DEF Enter
  <2>2. ASSUME NEW u \in Threads, u # t
        PROVE  call'[u] = call[u] /\ callId'[u] = callId[u]
    BY <1>3, <2>2 DEF Enter, Shape, TypeOK
  <2>3. done[t] = 0
    BY <2>1 DEF Shape, CallShape
  <2>4. ASSUME NEW i \in Positions
        PROVE  ~(i <= done'[t]) /\ out'[t][i] = Untouched
    BY <2>1, <2>3, ProverAssumption DEF OwnResults, Positions
  <2>5. QED BY <2>1, <2>2, <2>4 DEF OwnResults, MyItem
<1>4. ASSUME NEW t \in Threads, CopyOut(t)
      PROVE  OwnResults'
  <2>1. UNCHANGED <<call, callId>>
    BY <1>4 DEF CopyOut
  <2>2. ASSUME NEW u \in Threads, u # t
        PROVE  done'[u] = done[u] /\ out'[u] = out[u]
    BY <1>4, <2>2 DEF CopyOut, Shape, TypeOK
  <2>3. QED BY <1>4, <2>1, <2>2, CopyOutOwn DEF OwnResults, MyItem
<1>5. ASSUME UNCHANGED <<call, callId, done, out>>
      PROVE  OwnResults'
  BY <1>5 DEF OwnResults, MyItem
<1>6. ASSUME NEW t \in Threads,
             \/ Reject(t) \/ Lock(t) \/ StageBlobs(t) \/ StageCells(t)
             \/ FlushSubmit(t) \/ FlushWait(t) \/ Submit(t) \/ Wait(t)
      PROVE  UNCHANGED <<call, callId, done, out>>
  BY <1>6 DEF Reject, Lock, StageBlobs, StageCells, FlushSubmit, FlushWait, Submit, Wait
<1>7. ASSUME GpuRun \/ GpuComplete \/ DeviceLost \/ UNCHANGED vars
      PROVE  UNCHANGED <<call, callId, done, out>>
  BY <1>7 DEF GpuRun, GpuComplete, DeviceLost, callerVars, vars
<1>8. QED
  BY <1>2, <1>3, <1>4, <1>5, <1>6, <1>7 DEF Next, Serve, Gpu

\* The invariant starts true and every step keeps it.
LEMMA Inductive ==
  ASSUME "wait" \notin Faults
  PROVE  (Init => IInv) /\ (IInv /\ [Next]_vars => IInv')
<1>1. Init => Shape /\ OneJob
  BY ShapeInit DEF Init, OneJob
<1>2. Init => Progress
  BY DEF Init, Progress, Follows, Busy, Inside
<1>3. Init => OwnResults
  BY ProverAssumption DEF Init, OwnResults, FreshOut, Positions
<1>4. IInv /\ [Next]_vars => IInv'
  BY ShapeStep, OneJobStep, ProgressStep, OwnResultsStep DEF IInv
<1>5. QED BY <1>1, <1>2, <1>3, <1>4 DEF IInv

\* When waits do not fail spuriously, a caller's array only ever holds the results
\* of the caller's own valid inputs, in order, whatever other threads, failed
\* calls, refused submissions or the loss of the device do meanwhile.
THEOREM ResultsAreTheCallers ==
  ASSUME "wait" \notin Faults
  PROVE  Spec => []OwnResults
<1>1. IInv => OwnResults
  BY DEF IInv
<1>2. QED BY <1>1, Inductive, PTL DEF Spec

\* What a call returns tells which of its inputs were valid.
LEMMA MeaningStep ==
  ASSUME IInv, [Next]_vars
  PROVE  ReturnMeaning
<1> USE DEF IInv
<1> SUFFICES ASSUME NEW t \in Threads, Returns(t)
             PROVE  /\ rc'[t] = "OK" => done[t] = call[t].n /\ call[t].bad = {}
                    /\ rc'[t] \in {"INVALID_BLOB", "BADARGS"} =>
                         /\ ChunkBad(t)
                         /\ (1..done[t]) \cap call[t].bad = {}
                         /\ (rc'[t] = "BADARGS") <=> (call[t].op = "recover")
  BY DEF ReturnMeaning
<1>1. (1..done[t]) \cap call[t].bad = {}
  <2>1. \A i \in 1..done[t] : i \in Positions /\ i <= done[t]
    BY ProverAssumption DEF Shape, TypeOK, Positions
  <2>2. QED BY <2>1 DEF OwnResults
<1>2. \/ LoopDone(t) \/ RejectCells(t) \/ SubmitFails(t) \/ WaitFails(t)
      \/ InvalidBlob(t)
  <2>1. ASSUME NEW u \in Threads, Reject(u) \/ Enter(u) \/ Lock(u) \/ Serve(u)
        PROVE  u = t
    <3>1. UNCHANGED pc \/ \E p \in pcs : pc' = [pc EXCEPT ![u] = p]
      BY <2>1 DEF Reject, Enter, Lock, Serve, LoopDone, StageBlobs, RejectCells,
                  StageCells, FlushSubmit, FlushWait, Submit, SubmitFails, Wait,
                  WaitFails, InvalidBlob, CopyOut, Return, pcs
    <3>2. QED BY <3>1 DEF Returns, Shape, TypeOK
  <2>2. ~UNCHANGED pc
    BY DEF Returns
  <2>3. Reject(t) \/ Enter(t) \/ Lock(t) \/ Serve(t)
    BY <2>1, <2>2 DEF Next, Gpu, GpuRun, GpuComplete, DeviceLost, callerVars, vars
  <2>4. pc'[t] = "idle" /\ pc[t] # "idle"
    BY DEF Returns
  <2>5. ~Reject(t) /\ ~Enter(t)
    BY <2>4 DEF Reject, Enter
  <2>6. ASSUME \/ Lock(t) \/ StageBlobs(t) \/ StageCells(t) \/ FlushSubmit(t)
               \/ FlushWait(t) \/ Submit(t) \/ Wait(t) \/ CopyOut(t)
        PROVE  pc'[t] # "idle"
    BY <2>6 DEF Lock, StageBlobs, StageCells, FlushSubmit, FlushWait, Submit, Wait,
                CopyOut, Shape, TypeOK
  <2>7. QED BY <2>3, <2>4, <2>5, <2>6 DEF Serve
<1>3. CASE LoopDone(t)
  <2>1. rc'[t] = "OK" /\ done[t] = call[t].n
    BY <1>3 DEF LoopDone, Return, Shape, TypeOK
  <2>2. call[t].bad = {}
    BY <1>1, <2>1 DEF Shape, CallShape
  <2>3. QED BY <2>1, <2>2
<1>4. CASE RejectCells(t)
  <2>1. rc'[t] = "BADARGS" /\ call[t].op = "recover" /\ ChunkBad(t)
    BY <1>4 DEF RejectCells, TooManyMissing, Return, Shape, TypeOK
  <2>2. QED BY <1>1, <2>1
<1>5. CASE SubmitFails(t) \/ WaitFails(t)
  BY <1>5 DEF SubmitFails, WaitFails, Return, Shape, TypeOK
<1>6. CASE InvalidBlob(t)
  <2>1. /\ rc'[t] = "INVALID_BLOB" /\ call[t].op # "recover" /\ bufErr
        /\ pc[t] = "readback"
    BY <1>6 DEF InvalidBlob, Return, Shape, TypeOK
  <2>2. Executed(t, LastStage)
    BY <2>1, AtReadback
  <2>3. ChunkBad(t)
    BY <2>1, <2>2 DEF Executed, LastStage
  <2>4. QED BY <1>1, <2>1, <2>3
<1>7. QED BY <1>2, <1>3, <1>4, <1>5, <1>6

\* When waits do not fail spuriously, a call that returns VKZG_OK delivered every
\* blob and every blob was valid, and an input error names the first bad chunk.
THEOREM CodesAreTruthful ==
  ASSUME "wait" \notin Faults
  PROVE  Spec => ReturnsMeanWhatTheySay
<1>1. IInv /\ [Next]_vars => [ReturnMeaning]_vars
  BY MeaningStep
<1>2. QED BY <1>1, Inductive, PTL DEF Spec, ReturnsMeanWhatTheySay

-----------------------------------------------------------------------------
(* The profiler's times *)

\* From the moment t has staged its chunk until it returns, the stage times are
\* its own; a call in progress has at least one item, so that it stages one.
TimesOf(t) ==
  /\ pc[t] # "idle" => call[t].n # 0
  /\ call[t].op = "profile" /\ (pc[t] \in Busy \/ (pc[t] = "loop" /\ done[t] = call[t].n))
       => lastStage = <<t, callId[t]>>

Timed == \A t \in Threads : TimesOf(t)

\* A step of one thread leaves what another knows of its own call alone.
LEMMA OthersUnmoved ==
  ASSUME Shape, NEW u \in Threads, Reject(u) \/ Enter(u) \/ Lock(u) \/ Serve(u),
         NEW t \in Threads, t # u
  PROVE  pc'[t] = pc[t] /\ call'[t] = call[t] /\ done'[t] = done[t]
           /\ callId'[t] = callId[t]
<1> USE DEF Shape, TypeOK
<1>1. CASE Reject(u) \/ Enter(u) \/ Lock(u)
  BY <1>1 DEF Reject, Enter, Lock
<1>2. CASE Serve(u)
  BY <1>2 DEF Serve, LoopDone, StageBlobs, RejectCells, StageCells, FlushSubmit,
     FlushWait, Submit, SubmitFails, Wait, WaitFails, InvalidBlob, CopyOut, Return
<1>3. QED BY <1>1, <1>2

\* Only the thread that holds the mutex starts a new account of stage times.
LEMMA TimedStep == Shape /\ Timed /\ [Next]_vars => Timed'
<1> SUFFICES ASSUME Shape, Timed, [Next]_vars, NEW t \in Threads
             PROVE  TimesOf(t)'
  BY DEF Timed
<1> TimesOf(t)
  BY DEF Timed
<1>1. ASSUME NEW u \in Threads, Reject(u) \/ Enter(u) \/ Lock(u) \/ Serve(u), u # t
      PROVE  TimesOf(t)'
  <2>1. /\ pc'[t] = pc[t] /\ call'[t] = call[t] /\ done'[t] = done[t]
        /\ callId'[t] = callId[t]
    BY <1>1, OthersUnmoved
  <2>2. CASE StageBlobs(u)
    <3>1. mutex = u
      BY <2>2 DEF StageBlobs, Shape, MutexHeld, Inside, pcs
    <3>2. pc[t] \in {"idle", "locking"}
      BY <3>1, <1>1, OthersOutside
    <3>3. QED BY <2>1, <3>2 DEF TimesOf, Busy, Inside, pcs
  <2>3. CASE ~StageBlobs(u)
    <3>1. UNCHANGED lastStage
      BY <1>1, <2>3 DEF Reject, Enter, Lock, Serve, LoopDone, RejectCells, StageCells,
         FlushSubmit, FlushWait, Submit, SubmitFails, Wait, WaitFails, InvalidBlob,
         CopyOut
    <3>2. QED BY <2>1, <3>1 DEF TimesOf
  <2>4. QED BY <2>2, <2>3
<1>2. CASE Reject(t)
  BY <1>2 DEF Reject, TimesOf
<1>3. CASE Enter(t)
  <2>1. pc'[t] = "locking"
    BY <1>3 DEF Enter, Shape, TypeOK
  <2>2. call'[t].n # 0
    <3>1. PICK op \in Ops, m \in Sizes : \E bad \in SUBSET (1..m) :
            call' = [call EXCEPT ![t] = [op |-> op, n |-> m, bad |-> bad]]
      BY <1>3 DEF Enter
    <3>2. PICK bad \in SUBSET (1..m) :
            call' = [call EXCEPT ![t] = [op |-> op, n |-> m, bad |-> bad]]
      BY <3>1
    <3>3. m # 0
      BY ProverAssumption
    <3>4. QED BY <3>2, <3>3 DEF Shape, TypeOK
  <2>3. QED BY <2>1, <2>2 DEF TimesOf, Busy, Inside, pcs
<1>4. CASE Lock(t)
  <2>1. pc'[t] = "loop" /\ call' = call /\ done' = done /\ pc[t] = "locking"
    BY <1>4 DEF Lock, Shape, TypeOK
  <2>2. done[t] = 0 /\ call[t].n # 0
    BY <2>1 DEF TimesOf, Shape, CallShape
  <2>3. QED BY <2>1, <2>2 DEF TimesOf, Busy, Inside, pcs
<1>5. CASE StageBlobs(t)
  <2>1. lastStage' = <<t, callId'[t]>> /\ call' = call /\ pc[t] = "loop"
    BY <1>5 DEF StageBlobs, ResetTimes
  <2>2. QED BY <2>1 DEF TimesOf
<1>6. CASE LoopDone(t) \/ RejectCells(t) \/ SubmitFails(t) \/ WaitFails(t) \/ InvalidBlob(t)
  <2>1. pc'[t] = "idle"
    BY <1>6 DEF LoopDone, RejectCells, SubmitFails, WaitFails, InvalidBlob, Return,
       Shape, TypeOK
  <2>2. QED BY <2>1 DEF TimesOf, Busy, Inside, pcs
<1>7. CASE StageCells(t)
  <2>1. call' = call /\ call[t].op = "recover" /\ pc[t] = "loop"
    BY <1>7 DEF StageCells
  <2>2. QED BY <2>1 DEF TimesOf
<1>8. CASE FlushSubmit(t) \/ FlushWait(t) \/ Submit(t) \/ Wait(t) \/ CopyOut(t)
  <2>1. /\ call' = call /\ callId' = callId /\ lastStage' = lastStage
        /\ pc[t] \in Busy
    BY <1>8 DEF FlushSubmit, FlushWait, Submit, Wait, CopyOut, Busy, Inside, pcs
  <2>2. pc[t] # "idle"
    BY <2>1 DEF Busy, Inside
  <2>3. call'[t].n # 0 /\ (call'[t].op = "profile" => lastStage = <<t, callId[t]>>)
    BY <2>1, <2>2 DEF TimesOf
  <2>4. QED BY <2>1, <2>3 DEF TimesOf
<1>9. CASE Gpu \/ DeviceLost \/ UNCHANGED vars
  <2>1. UNCHANGED <<pc, call, done, callId, lastStage>>
    BY <1>9 DEF Gpu, GpuRun, GpuComplete, DeviceLost, callerVars, vars
  <2>2. QED BY <2>1 DEF TimesOf
<1>10. QED
  BY <1>1, <1>2, <1>3, <1>4, <1>5, <1>6, <1>7, <1>8, <1>9 DEF Next, Serve

\* profile_batch reports the times of its own pass (vkzg.cpp:1229), whatever the
\* driver does and however many threads share the prover.
THEOREM ProfileIsItsOwn == Spec => ProfileReportsItself
<1>1. Init => Shape /\ Timed
  <2>1. Init => Timed
    BY DEF Init, Timed, TimesOf, NoCall, Busy, Inside, pcs
  <2>2. QED BY <2>1, ShapeInit
<1>2. Shape /\ Timed /\ [Next]_vars => (Shape /\ Timed)'
  BY ShapeStep, TimedStep
<1>3. Shape /\ Timed /\ [Next]_vars => [OwnTimes]_vars
  <2> SUFFICES ASSUME Shape, Timed, [Next]_vars, NEW t \in Threads, Returns(t),
                      call[t].op = "profile"
               PROVE  lastStage = <<t, callId[t]>>
    BY DEF OwnTimes
  <2>1. TimesOf(t)
    BY DEF Timed
  <2>2. ASSUME NEW u \in Threads, Reject(u) \/ Enter(u) \/ Lock(u) \/ Serve(u), u # t
        PROVE  FALSE
    BY <2>2, OthersUnmoved DEF Returns
  <2>3. CASE Reject(t) \/ Enter(t) \/ Lock(t) \/ StageBlobs(t) \/ StageCells(t)
             \/ RejectCells(t)
    BY <2>3 DEF Reject, Enter, Lock, StageBlobs, StageCells, RejectCells, Returns,
       Shape, TypeOK
  <2>4. CASE LoopDone(t)
    BY <2>4, <2>1 DEF LoopDone, TimesOf
  <2>5. CASE FlushSubmit(t) \/ FlushWait(t) \/ Submit(t) \/ SubmitFails(t) \/ Wait(t)
             \/ WaitFails(t) \/ InvalidBlob(t) \/ CopyOut(t)
    <3>1. pc[t] \in Busy
      BY <2>5 DEF FlushSubmit, FlushWait, Submit, SubmitFails, Wait, WaitFails,
         InvalidBlob, CopyOut, Busy, Inside, pcs
    <3>2. call[t].op = "profile" => lastStage = <<t, callId[t]>>
      BY <3>1, <2>1 DEF TimesOf
    <3>3. QED BY <3>2
  <2>6. CASE Gpu \/ DeviceLost \/ UNCHANGED vars
    <3>1. UNCHANGED pc
      BY <2>6 DEF Gpu, GpuRun, GpuComplete, DeviceLost, callerVars, vars
    <3>2. QED BY <3>1 DEF Returns
  <2>7. QED
    BY <2>2, <2>3, <2>4, <2>5, <2>6 DEF Next, Serve
<1>4. QED BY <1>1, <1>2, <1>3, PTL DEF Spec, ProfileReportsItself

-----------------------------------------------------------------------------
(* Prover implements ProverApi *)

\* The refinement mapping's phase.
PhaseOf == [t \in Threads |-> Phase(pc[t])]

\* What ProverApi sees of the state.
Seen == <<PhaseOf, callId, call, done, out, rc, mutex>>

-----------------------------------------------------------------------------

\* ProverApi's Cardinality is that of Prover.
LEMMA SameCardinality == ASSUME NEW S PROVE Api!Cardinality(S) = Cardinality(S)
  BY DEF Cardinality, Api!Cardinality

\* Moving one thread moves its phase.
LEMMA PhaseMoves ==
  ASSUME Shape, NEW t \in Threads, NEW p \in pcs, pc' = [pc EXCEPT ![t] = p]
  PROVE  PhaseOf' = [PhaseOf EXCEPT ![t] = Phase(p)]
  BY DEF PhaseOf, Shape, TypeOK

\* A step within the library shows only in what it delivers.
LEMMA PhaseStays ==
  ASSUME Shape, NEW t \in Threads, NEW p \in Inside, pc[t] \in Inside,
         pc' = [pc EXCEPT ![t] = p]
  PROVE  PhaseOf' = PhaseOf
<1>1. Phase(p) = "served" /\ Phase(pc[t]) = "served" /\ p \in pcs
  BY DEF Phase, Inside, pcs
<1>2. PhaseOf' = [PhaseOf EXCEPT ![t] = "served"]
  BY <1>1, PhaseMoves
<1>3. PhaseOf[t] = "served"
  BY <1>1 DEF PhaseOf
<1> QED BY <1>2, <1>3 DEF PhaseOf

\* The next chunk is one ProverApi may deliver or find fault with.
LEMMA ChunkIsNext ==
  ASSUME Shape, NEW t \in Threads, done[t] < call[t].n
  PROVE  Batch(t) \in 1..MaxBatch /\ done[t] + Batch(t) <= call[t].n
  BY BatchBounds DEF Shape, TypeOK, Call

\* A call with a bad argument returns its error in one step of the contract.
LEMMA BadIsNext ==
  ASSUME Shape, NEW t \in Threads, done[t] < call[t].n, ChunkBad(t)
  PROVE  Api!NextIsBad(t)
  BY ChunkIsNext DEF Api!NextIsBad, ChunkBad, Chunk

-----------------------------------------------------------------------------
(* The steps *)

\* Entering a call is the step of the contract that takes it, or hidden.
LEMMA EntrySteps ==
  ASSUME Shape, NEW t \in Threads
  PROVE  /\ Reject(t) => Api!Reject(t)
         /\ Enter(t) => Api!Enter(t)
         /\ Lock(t) => Api!Start(t)
<1>1. ASSUME Reject(t) PROVE Api!Reject(t)
  <2>1. PhaseOf[t] = "idle"
    BY <1>1 DEF Reject, PhaseOf, Phase
  <2>2. UNCHANGED <<PhaseOf, callId, call, done, out, mutex>>
    BY <1>1 DEF Reject, PhaseOf
  <2>3. \E code \in {"OK", "BADARGS"} : rc' = [rc EXCEPT ![t] = code]
    BY <1>1 DEF Reject
  <2> QED BY <2>1, <2>2, <2>3 DEF Api!Reject, PhaseOf
<1>2. ASSUME Enter(t) PROVE Api!Enter(t)
  <2>1. PhaseOf[t] = "idle"
    BY <1>2 DEF Enter, PhaseOf, Phase
  <2>2. PhaseOf' = [PhaseOf EXCEPT ![t] = "waiting"]
    <3>1. pc' = [pc EXCEPT ![t] = "locking"] /\ "locking" \in pcs
      BY <1>2 DEF Enter, pcs
    <3> QED BY <3>1, PhaseMoves DEF Phase
  <2>3. \E op \in Ops, n \in Sizes : \E bad \in SUBSET (1..n) :
          /\ Cardinality(bad) <= MaxBad
          /\ call' = [call EXCEPT ![t] = [op |-> op, n |-> n, bad |-> bad]]
    BY <1>2 DEF Enter
  <2>4. /\ callId' = [callId EXCEPT ![t] = (@ + 1) % CallIds]
        /\ rc' = [rc EXCEPT ![t] = "none"]
        /\ UNCHANGED <<done, out, mutex>>
    BY <1>2 DEF Enter
  <2> QED BY <2>1, <2>2, <2>3, <2>4, SameCardinality DEF Api!Enter, PhaseOf
<1>3. ASSUME Lock(t) PROVE Api!Start(t)
  <2>1. PhaseOf[t] = "waiting"
    BY <1>3 DEF Lock, PhaseOf, Phase
  <2>2. PhaseOf' = [PhaseOf EXCEPT ![t] = "served"]
    <3>1. pc' = [pc EXCEPT ![t] = "loop"] /\ "loop" \in pcs
      BY <1>3 DEF Lock, pcs
    <3> QED BY <3>1, PhaseMoves DEF Phase
  <2> QED BY <1>3, <2>1, <2>2 DEF Lock, LockFree, Api!Start, PhaseOf
<1> QED BY <1>1, <1>2, <1>3

\* Staging, recording, submitting and waiting do not show.
LEMMA HiddenSteps ==
  ASSUME Shape, NEW t \in Threads,
         \/ StageBlobs(t) \/ StageCells(t) \/ FlushSubmit(t) \/ FlushWait(t)
         \/ Submit(t) \/ Wait(t)
  PROVE  UNCHANGED Seen
<1>1. UNCHANGED <<callId, call, done, out, rc, mutex>>
  BY DEF StageBlobs, StageCells, FlushSubmit, FlushWait, Submit, Wait
<1>2. pc[t] \in Inside
  BY DEF StageBlobs, StageCells, FlushSubmit, FlushWait, Submit, Wait, Inside, pcs
<1>3. \E p \in Inside : pc' = [pc EXCEPT ![t] = p]
  BY DEF StageBlobs, StageCells, FlushSubmit, FlushWait, Submit, Wait, Inside, pcs
<1> QED BY <1>1, <1>2, <1>3, PhaseStays DEF Seen

\* Whatever ends a call ends it with a code ProverApi allows there.
LEMMA ReturnFinishes ==
  ASSUME Shape, NEW t \in Threads, pc[t] \in Inside, UNCHANGED callId,
         NEW code \in Codes, Return(t, code),
         code = "OK" => done[t] = call[t].n,
         code = "BADARGS" => call[t].op = "recover" /\ Api!NextIsBad(t),
         code = "INVALID_BLOB" => call[t].op # "recover" /\ Api!NextIsBad(t)
  PROVE  Api!Finish(t)
<1>1. PhaseOf[t] = "served"
  BY DEF PhaseOf, Phase, Inside, pcs
<1>2. PhaseOf' = [PhaseOf EXCEPT ![t] = "idle"]
  <2>1. pc' = [pc EXCEPT ![t] = "idle"] /\ "idle" \in pcs
    BY DEF Return, pcs
  <2> QED BY <2>1, PhaseMoves DEF Phase
<1>3. /\ rc' = [rc EXCEPT ![t] = code] /\ mutex' = NoThread
      /\ call' = [call EXCEPT ![t] = Api!NoCall]
      /\ done' = [done EXCEPT ![t] = 0]
      /\ out' = [out EXCEPT ![t] = Api!FreshOut]
  BY DEF Return, Api!NoCall, NoCall, Api!FreshOut, FreshOut, Api!Positions, Positions
<1> QED BY <1>1, <1>2, <1>3 DEF Api!Finish, Codes, PhaseOf

\* Leaving a call is the step of the contract that ends it.
LEMMA ReturnSteps ==
  ASSUME IInv, NEW t \in Threads,
         \/ LoopDone(t) \/ RejectCells(t) \/ SubmitFails(t) \/ WaitFails(t)
         \/ InvalidBlob(t)
  PROVE  Api!Finish(t)
<1> USE DEF IInv
<1>1. CASE LoopDone(t)
  BY <1>1, ReturnFinishes DEF LoopDone, Inside, pcs, Codes
<1>2. CASE RejectCells(t)
  BY <1>2, ReturnFinishes, BadIsNext DEF RejectCells, TooManyMissing, Inside, pcs, Codes
<1>3. CASE SubmitFails(t) \/ WaitFails(t)
  BY <1>3, ReturnFinishes DEF SubmitFails, WaitFails, Inside, pcs, Codes
<1>4. CASE InvalidBlob(t)
  <2>1. /\ pc[t] = "readback" /\ call[t].op # "recover" /\ bufErr
        /\ Return(t, "INVALID_BLOB") /\ UNCHANGED callId
    BY <1>4 DEF InvalidBlob
  <2>2. ChunkBad(t)
    BY <2>1, AtReadback DEF Executed, LastStage
  <2>3. done[t] < call[t].n
    BY <2>1 DEF Shape, CallShape, Busy, Inside, pcs
  <2> QED BY <2>1, <2>2, <2>3, BadIsNext, ReturnFinishes DEF Inside, pcs, Codes
<1> QED BY <1>1, <1>2, <1>3, <1>4

\* A readback delivers the results of the next chunk.
LEMMA CopyOutDelivers ==
  ASSUME IInv, NEW t \in Threads, CopyOut(t)
  PROVE  Api!Deliver(t)
<1> USE DEF IInv
<1>1. /\ pc[t] = "readback" /\ (call[t].op = "recover" \/ ~bufErr)
      /\ out' = [out EXCEPT ![t] = OutAfter(t)]
      /\ done' = [done EXCEPT ![t] = @ + Batch(t)]
      /\ pc' = [pc EXCEPT ![t] = "loop"]
      /\ UNCHANGED <<callId, call, rc, mutex>>
  BY DEF CopyOut
<1>2. PhaseOf[t] = "served" /\ UNCHANGED PhaseOf
  BY <1>1, PhaseStays DEF PhaseOf, Phase, Inside, pcs
<1>3. done[t] < call[t].n
  BY <1>1 DEF Shape, CallShape, Busy, Inside, pcs
<1>4. Batch(t) \in 1..MaxBatch /\ done[t] + Batch(t) <= call[t].n
  BY <1>3, ChunkIsNext
<1>5. Executed(t, LastStage)
  BY <1>1, AtReadback
<1>6. Chunk(t) \cap call[t].bad = {} /\ Holds(ReadbackBuffer(t), t)
  BY <1>1, <1>5 DEF Executed, LastStage, ChunkBad
<1>7. OutAfter(t) = [i \in Positions |-> IF i \in Chunk(t) THEN MyItem(t, i) ELSE out[t][i]]
  <2>1. ASSUME NEW i \in Positions, i \in Chunk(t)
        PROVE  buf[ReadbackBuffer(t)][i - done[t]] = MyItem(t, i)
    <3>1. /\ done[t] \in Nat /\ Batch(t) \in Nat /\ MaxBatch \in Nat /\ Batch(t) <= MaxBatch
          /\ i \in Int
      BY <1>4, <2>1, ProverAssumption DEF Shape, TypeOK, Positions
    <3>2. i - done[t] \in Slots /\ i - done[t] <= Batch(t) /\ done[t] + (i - done[t]) = i
      BY <2>1, <3>1 DEF Chunk, Slots
    <3> QED BY <1>6, <3>2 DEF Holds
  <2> QED BY <2>1 DEF OutAfter
<1>8. ASSUME NEW i \in Positions PROVE Api!MyItem(t, i) = MyItem(t, i)
  BY DEF Api!MyItem, MyItem
<1>9. OutAfter(t) = [i \in Api!Positions |->
        IF i \in (done[t] + 1)..(done[t] + Batch(t)) THEN Api!MyItem(t, i) ELSE out[t][i]]
  BY <1>7, <1>8 DEF Chunk, Api!Positions, Positions
<1> QED
  BY <1>1, <1>2, <1>4, <1>6, <1>9 DEF Api!Deliver, Chunk, PhaseOf

-----------------------------------------------------------------------------

\* Every step is one of ProverApi, or does not show.
LEMMA ApiStep ==
  ASSUME IInv, [Next]_vars
  PROVE  [Api!Next]_(Api!vars)
<1> USE DEF IInv
<1>1. ASSUME NEW t \in Threads, Reject(t) \/ Enter(t) \/ Lock(t)
      PROVE  Api!Next
  BY <1>1, EntrySteps DEF Api!Next
<1>2. ASSUME NEW t \in Threads, Serve(t)
      PROVE  Api!Next \/ UNCHANGED Seen
  BY <1>2, HiddenSteps, ReturnSteps, CopyOutDelivers DEF Serve, Api!Next
<1>3. ASSUME Gpu \/ DeviceLost \/ UNCHANGED vars PROVE UNCHANGED Seen
  BY <1>3 DEF Gpu, GpuRun, GpuComplete, DeviceLost, callerVars, vars, Seen, PhaseOf
<1>4. Api!Next \/ UNCHANGED Seen
  BY <1>1, <1>2, <1>3 DEF Next
<1> QED BY <1>4 DEF Api!vars, Seen, PhaseOf

\* With no call under way the contract has not begun either.
LEMMA ApiStart == Init => Api!Init
<1> SUFFICES ASSUME Init PROVE Api!Init
  OBVIOUS
<1>1. PhaseOf = [t \in Threads |-> "idle"]
  BY DEF Init, PhaseOf, Phase
<1> QED
  BY <1>1 DEF Init, Api!Init, PhaseOf, Api!NoCall, NoCall, Api!FreshOut, FreshOut,
              Api!Positions, Positions

\* When waits do not fail spuriously, the prover keeps what vkzg.h promises of it: one
\* call is served at a time, a caller gets its own results a chunk at a time and in
\* place, and the code it gets is one those results and its inputs allow.
THEOREM ApiImplemented ==
  ASSUME "wait" \notin Faults
  PROVE  Spec => ApiSpec
<1>1. (Init => IInv) /\ (IInv /\ [Next]_vars => IInv')
  BY Inductive
<1>2. IInv /\ [Next]_vars => [Api!Next]_(Api!vars)
  BY ApiStep
<1> QED BY <1>1, <1>2, ApiStart, PTL DEF Spec, ApiSpec, Api!Spec
=============================================================================
