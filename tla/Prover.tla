------------------------------- MODULE Prover -------------------------------
(***************************************************************************)
(* The host layer of one vkzg_prover shared by several threads             *)
(* (src/vkzg.cpp): vkzg_compute_proofs_batch, vkzg_recover_cells_batch and *)
(* the development-only profile_batch, the mutex that serialises them, the *)
(* chunk loop, the staging buffers, the one command buffer and the one     *)
(* fence, and the queue of the device that executes the recorded kernels   *)
(* while the host waits.                                                   *)
(*                                                                         *)
(* A blob (or a blob's cells) is an Item that remembers which call passed  *)
(* it, at which position, and whether it is valid; a result is the Item it *)
(* was computed from, so "the right proof" is "my Item, at its position".  *)
(* The 15 dispatches of a compute pass, and the 22 of a recovery, are      *)
(* grouped in two stages: the kernel that reads the staging buffer, and    *)
(* the work that ends in the readback buffer.                              *)
(***************************************************************************)
EXTENDS Integers, Sequences, FiniteSets

CONSTANTS
  Threads,      \* threads that share the prover
  NoThread,     \* owner of the free mutex
  MaxBatch,     \* p->maxBatch, the slots of every staging buffer
  MaxItems,     \* bound on num_blobs
  Sizes,        \* the num_blobs callers pass, other than 0
  MaxBad,       \* bound on the invalid items of a call
  CallIds,      \* call numbers are 0..CallIds-1, reused in turn
  Ops,          \* entry points in use, a subset of AllOps
  Faults,       \* what the driver may do, a subset of AllFaults
  Junk,         \* buffer content that is no caller's data
  Untouched     \* an output entry the library has not written

AllOps == {"compute", "recover", "profile"}

(***************************************************************************)
(* "submit": vkQueueSubmit fails at the end of a batch (lines 1029, 1171); *)
(* "flush": it fails in flushAndTime (line 886); "wait": vkWaitForFences   *)
(* fails although the device goes on executing (VK_ERROR_OUT_OF_*_MEMORY); *)
(* "lost": the device is lost.                                             *)
(***************************************************************************)
AllFaults == {"submit", "flush", "wait", "lost"}

Positions == 1..MaxItems
Ids == 0..(CallIds - 1)
Item == [by : Threads, id : Ids, pos : Positions, ok : BOOLEAN]

ASSUME ProverAssumption ==
  /\ NoThread \notin Threads
  /\ MaxBatch \in Nat \ {0}
  /\ MaxItems \in Nat
  /\ Sizes \subseteq 1..MaxItems
  /\ MaxBad \in Nat
  /\ CallIds \in Nat \ {0}
  /\ Ops \subseteq AllOps
  /\ Faults \subseteq AllFaults
  /\ Junk \notin Item

\* A definition whose name ends in _word is a variant of the one that follows
\* it, with a bug the code could have had; the specification never uses it.

VARIABLES
  pc,         \* where each thread is
  callId,     \* number of the thread's latest call
  call,       \* its arguments, NoCall between calls
  done,       \* `done` of the chunk loop, in items
  out,        \* the caller's output array, forgotten between calls
  rc,         \* what the latest call returned
  mutex,      \* p->mutex
  buf,        \* p->buf...: what each slot of each buffer holds
  bufErr,     \* *p->bufErr.mapped # 0
  lastStage,  \* the call p->lastStage describes
  cmd,        \* what p->cmdBuf holds: stages lo..hi of an operation
  fence,      \* p->fence is signalled
  queue,      \* submissions the device has not completed
  device      \* "ok" or "lost"

callerVars == <<pc, callId, call, done, out, rc>>
vars == <<pc, callId, call, done, out, rc, mutex,
          buf, bufErr, lastStage, cmd, fence, queue, device>>

-----------------------------------------------------------------------------
(* Data *)

Slots == 1..MaxBatch
Codes == {"OK", "BADARGS", "GPU", "INVALID_BLOB"}
Codes0 == Codes \cup {"none"}

Call == [op : AllOps, n : 0..MaxItems, bad : SUBSET Positions]
NoCall == [op |-> "compute", n |-> 0, bad |-> {}]
FreshOut == [i \in Positions |-> Untouched]
Tag == Threads \X Ids
NoTag == <<>>

Buffers == {"bufBlob", "bufLagrange", "bufProofBytes",
            "bufRecScratch", "bufRecMissing", "bufRecBrp", "bufRecOut"}

LastStage == 2
Cmd == [op : AllOps, batch : 0..MaxBatch,
        lo : 1..(LastStage + 1), hi : 0..LastStage]

\* Item i of t's current call.
MyItem(t, i) == [by |-> t, id |-> callId[t], pos |-> i,
                 ok |-> i \notin call[t].bad]

\* Size of the next chunk; profile_batch makes one chunk of all it is given.
Batch_unclamped(t) == call[t].n - done[t]
Batch(t) == IF call[t].op = "profile" THEN call[t].n
            ELSE IF call[t].n - done[t] < MaxBatch THEN call[t].n - done[t]
            ELSE MaxBatch

Chunk(t) == (done[t] + 1)..(done[t] + Batch(t))
ChunkBad(t) == Chunk(t) \cap call[t].bad # {}

-----------------------------------------------------------------------------
(* Entry points *)

pcs == {"idle", "locking", "loop", "flush", "flushWait",
        "submit", "wait", "readback"}

Init ==
  /\ pc = [t \in Threads |-> "idle"]
  /\ callId = [t \in Threads |-> 0]
  /\ call = [t \in Threads |-> NoCall]
  /\ done = [t \in Threads |-> 0]
  /\ out = [t \in Threads |-> FreshOut]
  /\ rc = [t \in Threads |-> "none"]
  /\ mutex = NoThread
  /\ buf = [b \in Buffers |-> [s \in Slots |-> Junk]]
  /\ bufErr = FALSE
  /\ lastStage = NoTag
  /\ cmd = [op |-> "compute", batch |-> 0, lo |-> 1, hi |-> 0]
  /\ fence = FALSE
  /\ queue = <<>>
  /\ device = "ok"

\* A null argument, or no blob at all: returns before taking the mutex.
Reject(t) ==
  /\ pc[t] = "idle"
  /\ rc' = [rc EXCEPT ![t] = "BADARGS"] \/ rc' = [rc EXCEPT ![t] = "OK"]
  /\ UNCHANGED <<pc, callId, call, done, out, mutex, buf, bufErr, lastStage, cmd,
                 fence, queue, device>>

\* profile_batch relies on its only caller, bench/profile.cpp, to pass exactly
\* the batch size the prover was made for; no more than it is enough.
Enter(t) ==
  /\ pc[t] = "idle"
  /\ \E op \in Ops, n \in Sizes : \E bad \in SUBSET (1..n) :
       /\ op = "profile" => n <= MaxBatch
       /\ Cardinality(bad) <= MaxBad
       /\ call' = [call EXCEPT ![t] = [op |-> op, n |-> n, bad |-> bad]]
  /\ callId' = [callId EXCEPT ![t] = (@ + 1) % CallIds]
  /\ rc' = [rc EXCEPT ![t] = "none"]
  /\ pc' = [pc EXCEPT ![t] = "locking"]
  /\ UNCHANGED <<done, out, mutex, buf, bufErr, lastStage, cmd, fence, queue, device>>

LockFree_unlocked == TRUE
LockFree == mutex = NoThread

Lock(t) ==
  /\ pc[t] = "locking"
  /\ LockFree
  /\ mutex' = t
  /\ pc' = [pc EXCEPT ![t] = "loop"]
  /\ UNCHANGED <<callId, call, done, out, rc, buf, bufErr, lastStage,
                 cmd, fence, queue, device>>

Return_keepsLock(t, code) ==
  /\ rc' = [rc EXCEPT ![t] = code]
  /\ mutex' = IF code = "OK" THEN NoThread ELSE mutex
  /\ pc' = [pc EXCEPT ![t] = "idle"]
  /\ call' = [call EXCEPT ![t] = NoCall]
  /\ done' = [done EXCEPT ![t] = 0]
  /\ out' = [out EXCEPT ![t] = FreshOut]

\* The lock_guard goes out of scope and the arrays are the caller's again.
Return(t, code) ==
  /\ rc' = [rc EXCEPT ![t] = code]
  /\ mutex' = NoThread
  /\ pc' = [pc EXCEPT ![t] = "idle"]
  /\ call' = [call EXCEPT ![t] = NoCall]
  /\ done' = [done EXCEPT ![t] = 0]
  /\ out' = [out EXCEPT ![t] = FreshOut]

LoopDone(t) ==
  /\ pc[t] = "loop"
  /\ done[t] = call[t].n
  /\ Return(t, "OK")
  /\ UNCHANGED <<callId, buf, bufErr, lastStage, cmd, fence,
                 queue, device>>

-----------------------------------------------------------------------------
(* Filling the staging buffers and recording *)

\* memcpy of the chunk's items into the first Batch(t) slots of buffer b.
Filled(b, t) == [s \in Slots |-> IF s <= Batch(t) THEN MyItem(t, done[t] + s)
                                 ELSE buf[b][s]]

\* Without profiling the whole pass is recorded; with it, up to a flush.
Recorded(t, first) ==
  [op |-> call[t].op, batch |-> Batch(t), lo |-> first,
   hi |-> IF call[t].op # "profile" THEN LastStage
          ELSE IF first <= LastStage THEN first ELSE LastStage]

ClearErr_dropped == UNCHANGED bufErr
ClearErr == bufErr' = FALSE

ResetTimes_dropped(t) == UNCHANGED lastStage
ResetTimes(t) == lastStage' = <<t, callId[t]>>

StageBlobs(t) ==
  /\ pc[t] = "loop"
  /\ done[t] < call[t].n
  /\ call[t].op \in {"compute", "profile"}
  /\ buf' = [buf EXCEPT !["bufBlob"] = Filled("bufBlob", t)]
  /\ ClearErr
  /\ ResetTimes(t)
  /\ cmd' = Recorded(t, 1)
  /\ pc' = [pc EXCEPT ![t] = IF call[t].op = "profile" THEN "flush" ELSE "submit"]
  /\ UNCHANGED <<callId, call, done, out, rc, mutex, fence, queue, device>>

\* Some blob of the chunk misses more than half of its cells (1094-1104).
TooManyMissing(t) == ChunkBad(t)

\* The cells are copied before the presence flags are looked at.
RejectCells(t) ==
  /\ pc[t] = "loop"
  /\ done[t] < call[t].n
  /\ call[t].op = "recover"
  /\ TooManyMissing(t)
  /\ buf' = [buf EXCEPT !["bufRecScratch"] = Filled("bufRecScratch", t)]
  /\ Return(t, "BADARGS")
  /\ UNCHANGED <<callId, bufErr, lastStage, cmd, fence,
                 queue, device>>

FilledMissing_stale(t) == buf["bufRecMissing"]
FilledMissing(t) == Filled("bufRecMissing", t)

StageCells(t) ==
  /\ pc[t] = "loop"
  /\ done[t] < call[t].n
  /\ call[t].op = "recover"
  /\ ~TooManyMissing(t)
  /\ buf' = [buf EXCEPT !["bufRecScratch"] = Filled("bufRecScratch", t),
                        !["bufRecMissing"] = FilledMissing(t)]
  /\ ClearErr
  /\ cmd' = Recorded(t, 1)
  /\ pc' = [pc EXCEPT ![t] = "submit"]
  /\ UNCHANGED <<callId, call, done, out, rc, mutex, lastStage, fence,
                 queue, device>>

-----------------------------------------------------------------------------
(* Submitting and waiting *)

ResetFence == fence' = FALSE

Accepted == device = "ok" /\ queue' = Append(queue, cmd)
Refused(kind) == (device = "lost" \/ kind \in Faults) /\ UNCHANGED queue

\* flushAndTime: what vkQueueSubmit returns is not looked at.
FlushSubmit(t) ==
  /\ pc[t] = "flush"
  /\ ResetFence
  /\ Accepted \/ Refused("flush")
  /\ pc' = [pc EXCEPT ![t] = "flushWait"]
  /\ UNCHANGED <<callId, call, done, out, rc, mutex, buf, bufErr,
                 lastStage, cmd, device>>

WaitOver_skipped == TRUE
WaitOver == fence
WaitFailed == device = "lost" \/ "wait" \in Faults

\* Nor is what vkWaitForFences returns; the next stage is recorded.
FlushWait(t) ==
  /\ pc[t] = "flushWait"
  /\ WaitOver \/ WaitFailed
  /\ cmd' = Recorded(t, cmd.lo + 1)
  /\ pc' = [pc EXCEPT ![t] = IF cmd.lo < LastStage THEN "flush" ELSE "submit"]
  /\ UNCHANGED <<callId, call, done, out, rc, mutex, buf, bufErr,
                 lastStage, fence, queue, device>>

Submit(t) ==
  /\ pc[t] = "submit"
  /\ ResetFence
  /\ Accepted
  /\ pc' = [pc EXCEPT ![t] = "wait"]
  /\ UNCHANGED <<callId, call, done, out, rc, mutex, buf, bufErr,
                 lastStage, cmd, device>>

SubmitFails(t) ==
  /\ pc[t] = "submit"
  /\ ResetFence
  /\ Refused("submit")
  /\ Return(t, "GPU")
  /\ UNCHANGED <<callId, buf, bufErr, lastStage, cmd, device>>

Wait(t) ==
  /\ pc[t] = "wait"
  /\ WaitOver
  /\ pc' = [pc EXCEPT ![t] = "readback"]
  /\ UNCHANGED <<callId, call, done, out, rc, mutex, buf, bufErr,
                 lastStage, cmd, fence, queue, device>>

WaitFails(t) ==
  /\ pc[t] = "wait"
  /\ WaitFailed
  /\ Return(t, "GPU")
  /\ UNCHANGED <<callId, buf, bufErr, lastStage, cmd, fence,
                 queue, device>>

InvalidBlob(t) ==
  /\ pc[t] = "readback"
  /\ call[t].op # "recover"
  /\ bufErr
  /\ Return(t, "INVALID_BLOB")
  /\ UNCHANGED <<callId, buf, bufErr, lastStage, cmd, fence,
                 queue, device>>

ReadbackBuffer(t) == IF call[t].op = "recover" THEN "bufRecOut" ELSE "bufProofBytes"

\* Copied to where the chunk starts in the caller's array.
OutAfter_noOffset(t) == [i \in Positions |-> IF i <= Batch(t)
                                             THEN buf[ReadbackBuffer(t)][i]
                                             ELSE out[t][i]]
OutAfter(t) == [i \in Positions |-> IF i \in Chunk(t)
                                    THEN buf[ReadbackBuffer(t)][i - done[t]]
                                    ELSE out[t][i]]

CopyOut(t) ==
  /\ pc[t] = "readback"
  /\ call[t].op = "recover" \/ ~bufErr
  /\ out' = [out EXCEPT ![t] = OutAfter(t)]
  /\ done' = [done EXCEPT ![t] = @ + Batch(t)]
  /\ pc' = [pc EXCEPT ![t] = "loop"]
  /\ UNCHANGED <<callId, call, rc, mutex, buf, bufErr, lastStage, cmd,
                 fence, queue, device>>

-----------------------------------------------------------------------------
(* The device *)

\* k_blob_to_fr raises bufErr when a field element is not canonical.
Raises(x) == x # Junk /\ ~x.ok

\* One kernel over the job's batch, reading buffer i and writing buffer o.
Run(j, i, o) == [buf EXCEPT ![o] =
  [s \in Slots |-> IF s <= j.batch THEN buf[i][s] ELSE buf[o][s]]]

RunProofStage(j) ==
  \/ /\ j.lo = 1
     /\ buf' = Run(j, "bufBlob", "bufLagrange")
     /\ bufErr' = (bufErr \/ \E s \in Slots :
                     s <= j.batch /\ Raises(buf["bufBlob"][s]))
  \/ /\ j.lo = 2
     /\ buf' = Run(j, "bufLagrange", "bufProofBytes")
     /\ UNCHANGED bufErr

\* Z vanishes on the cells bufRecMissing lists, so a slot comes out right only
\* if the list is that of the cells in bufRecBrp; bufRecScratch, which the cells
\* came in by, is the hand-off buffer of every transform on the way.
Recovered(s) == IF buf["bufRecBrp"][s] = buf["bufRecMissing"][s]
                THEN buf["bufRecBrp"][s] ELSE Junk

RecoverBuf(j) == [buf EXCEPT
  !["bufRecScratch"] = [s \in Slots |-> IF s <= j.batch THEN Junk ELSE @[s]],
  !["bufRecOut"] = [s \in Slots |-> IF s <= j.batch THEN Recovered(s) ELSE @[s]]]

RunRecoverStage(j) ==
  /\ \/ j.lo = 1 /\ buf' = Run(j, "bufRecScratch", "bufRecBrp")
     \/ j.lo = 2 /\ buf' = RecoverBuf(j)
  /\ UNCHANGED bufErr

GpuRun ==
  /\ device = "ok"
  /\ queue # <<>>
  /\ LET j == Head(queue) IN
       /\ j.lo <= j.hi
       /\ IF j.op = "recover" THEN RunRecoverStage(j) ELSE RunProofStage(j)
  /\ queue' = <<[Head(queue) EXCEPT !.lo = @ + 1]>> \o Tail(queue)
  /\ UNCHANGED <<callerVars, mutex, lastStage, cmd, fence, device>>

GpuComplete ==
  /\ device = "ok"
  /\ queue # <<>>
  /\ Head(queue).lo > Head(queue).hi
  /\ queue' = Tail(queue)
  /\ fence' = TRUE
  /\ UNCHANGED <<callerVars, mutex, buf, bufErr, lastStage, cmd, device>>

DeviceLost ==
  /\ "lost" \in Faults
  /\ device = "ok"
  /\ device' = "lost"
  /\ queue' = <<>>
  /\ UNCHANGED <<callerVars, mutex, buf, bufErr, lastStage, cmd, fence>>

-----------------------------------------------------------------------------

Serve(t) ==
  \/ LoopDone(t)
  \/ StageBlobs(t)
  \/ RejectCells(t)
  \/ StageCells(t)
  \/ FlushSubmit(t)
  \/ FlushWait(t)
  \/ Submit(t)
  \/ SubmitFails(t)
  \/ Wait(t)
  \/ WaitFails(t)
  \/ InvalidBlob(t)
  \/ CopyOut(t)

Gpu == GpuRun \/ GpuComplete

Next ==
  \/ \E t \in Threads : Reject(t) \/ Enter(t) \/ Lock(t) \/ Serve(t)
  \/ Gpu
  \/ DeviceLost

Spec == Init /\ [][Next]_vars

\* A thread inside the library keeps running and the device keeps executing.
\* Nothing is assumed of callers, of who gets the mutex, or of faults.
Fairness == WF_vars(Gpu) /\ \A t \in Threads : WF_vars(Serve(t))

FairSpec == Spec /\ Fairness

-----------------------------------------------------------------------------
(* Properties *)

TypeOK ==
  /\ pc \in [Threads -> pcs]
  /\ callId \in [Threads -> Ids]
  /\ call \in [Threads -> Call]
  /\ done \in [Threads -> 0..MaxItems]
  /\ out \in [Threads -> [Positions -> Item \cup {Junk, Untouched}]]
  /\ rc \in [Threads -> Codes0]
  /\ mutex \in Threads \cup {NoThread}
  /\ buf \in [Buffers -> [Slots -> Item \cup {Junk}]]
  /\ bufErr \in BOOLEAN
  /\ lastStage \in Tag \cup {NoTag}
  /\ cmd \in Cmd
  /\ fence \in BOOLEAN
  /\ queue \in Seq(Cmd)
  /\ device \in {"ok", "lost"}

\* The caller's array holds, at every position, either the result of the input
\* passed at that position of that call, a valid one, or what it held before;
\* never another thread's result, an earlier call's, or scratch data. It is
\* filled without gaps (the memcpy's of CopyOut, the chunk loop, the buffers).
OwnResults ==
  \A t \in Threads, i \in Positions :
    IF i <= done[t] THEN out[t][i] = MyItem(t, i) /\ i \notin call[t].bad
    ELSE out[t][i] = Untouched

Returns(t) == pc[t] # "idle" /\ pc'[t] = "idle"

\* What a returned code says of the whole call (vkzg.h:42-50): OK, that every
\* blob was delivered and was valid; an input error, that the chunk the call
\* stopped at holds an invalid input, one only recover or only the kernels of
\* compute can find, and that no chunk before it does.
ReturnMeaning ==
  \A t \in Threads : Returns(t) =>
    /\ rc'[t] = "OK" => done[t] = call[t].n /\ call[t].bad = {}
    /\ rc'[t] \in {"INVALID_BLOB", "BADARGS"} =>
         /\ ChunkBad(t)
         /\ (1..done[t]) \cap call[t].bad = {}
         /\ (rc'[t] = "BADARGS") <=> (call[t].op = "recover")

ReturnsMeanWhatTheySay == [][ReturnMeaning]_vars

\* "concurrent calls are serialised internally per GPU queue" (vkzg.h:12): while
\* the device executes a submission, the one thread that made it holds the mutex
\* and waits; so no host write, reset or readback touches a buffer in use.
Serialised ==
  queue # <<>> => /\ mutex # NoThread
                  /\ pc[mutex] \in {"wait", "flushWait"}
                  /\ queue = <<[cmd EXCEPT !.lo = queue[1].lo]>>

\* The stage times profile_batch copies before it unlocks (line 1229) are those
\* of its own pass, not what another thread's call left in p->lastStage.
OwnTimes ==
  \A t \in Threads :
    Returns(t) /\ call[t].op = "profile" => lastStage = <<t, callId[t]>>

ProfileReportsItself == [][OwnTimes]_vars

Phase(p) == CASE p = "idle" -> "idle"
              [] p = "locking" -> "waiting"
              [] OTHER -> "served"

Api == INSTANCE ProverApi WITH
         phase <- [t \in Threads |-> Phase(pc[t])], serving <- mutex

\* The prover implements what vkzg.h promises of it.
ApiSpec == Api!Spec

\* Whoever holds the mutex lets it go: no call keeps the prover forever, so
\* that the callers queued behind it get their turn at trying the lock.
HolderReleases == \A t \in Threads : mutex = t ~> mutex # t
=============================================================================
