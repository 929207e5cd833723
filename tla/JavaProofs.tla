----------------------------- MODULE JavaProofs -----------------------------
(***************************************************************************)
(* Proofs about JavaBinding, and the Lifecycle in it, for any number of    *)
(* threads, kernels, buffers, table files and devices.                     *)
(*                                                                         *)
(* Life says where the library can be, Monitor that the thread inside has  *)
(* the monitor, and Agreement what handle, prover and pc have to do with   *)
(* each other, for each method a thread can be in. Of the objects Created  *)
(* says what a creation that has come to pc has made, Deleted what a       *)
(* deletion that has come to pc has left, and Held that a member of the    *)
(* prover refers to whatever exists: between them they say, at every       *)
(* failure, what the deletion that follows finds.                          *)
(***************************************************************************)
EXTENDS JavaBinding, Arithmetic

Inside == {"entered", "native", "leaving"}
Failures == {"IO", "SETUP", "GPU", "MALLOC", "thrown"}

\* There is a prover when, and only when, its creation has come to its end.
Life ==
  /\ pc \in pcs
  /\ out \in BOOLEAN
  /\ out <=> pc = "ready"
  /\ pc = "ready" => rc = "OK"

JavaTypes ==
  /\ handle \in BOOLEAN
  /\ method \in [Threads -> Methods]
  /\ stage \in [Threads -> Stages]

Monitor ==
  /\ monitor \in Threads \cup {NoThread}
  /\ \A t \in Threads : stage[t] \in Inside <=> monitor = t

\* Nobody is in the library.
Quiet == \A t \in Threads : stage[t] # "native"

Agreement ==
  /\ Quiet => pc \in {"idle", "ready"} /\ (handle <=> out)
  /\ \A t \in Threads : stage[t] = "native" =>
       /\ method[t] = "init" => ~handle /\ (rc = "OK" => pc = "ready")
       /\ method[t] = "deinit" => /\ handle /\ rc = "OK"
                                  /\ pc \in deleting \cup {"idle"}
       /\ method[t] \in {"batch", "get"} => handle /\ pc = "ready"

JInv == Life /\ JavaTypes /\ Monitor /\ Agreement

-----------------------------------------------------------------------------
(* What the library's steps do, as far as JInv is concerned *)

CreatingStep ==
  /\ pc \in creating
  /\ \/ pc' \in creating \cup deleting \cup {"idle"} /\ out' = out
        /\ (rc' = rc \/ rc' \in Failures)
     \/ pc' = "ready" /\ out' = TRUE /\ rc' = "OK"

DeletingStep ==
  /\ pc \in deleting
  /\ pc' \in deleting \cup {"idle"}
  /\ out' = out /\ rc' = rc

\* Deleting a prover takes the thread to a wait for the device, or to the end.
LEMMA DeleteGoes == ASSUME Delete PROVE pc' \in {"waitIdle", "idle"}
  BY DEF Delete

\* A failed creation deletes the prover and has a code for it.
LEMMA FailsGoes ==
  ASSUME NEW code \in {"GPU"}, Fails(code)
  PROVE  pc' \in {"waitIdle", "idle"} /\ out' = out /\ rc' \in Failures
  BY DeleteGoes DEF Fails, Failures

\* A step that makes one object goes on or fails.
LEMMA StepGoes ==
  ASSUME NEW here \in creating, NEW kind, NEW next \in creating, Step(here, kind, next)
  PROVE  CreatingStep
  <1>1. pc = here
    BY DEF Step
  <1>2. CASE Made(Own(kind), next)
    BY <1>1, <1>2 DEF Made, CreatingStep
  <1>3. CASE Fails("GPU")
    BY <1>1, <1>3, FailsGoes DEF CreatingStep, deleting
  <1> QED BY <1>2, <1>3 DEF Step

\* A loop over buffers goes on, or deletes the prover.
LEMMA BuffersDoneGoes ==
  ASSUME NEW here \in creating, NEW list, NEW next \in creating, BuffersDone(here, list, next)
  PROVE  CreatingStep
  BY DEF BuffersDone, CreatingStep, deleting, Failures

\* What Progress does: a creation goes on, fails or ends, or a deletion goes on.
LEMMA ProgressGoes == ASSUME Progress PROVE CreatingStep \/ DeletingStep
  <1> USE DEF creating, deleting, Failures
  <1>1. CASE Load
    BY <1>1 DEF Load, CreatingStep
  <1>2. CASE LoadThrows
    BY <1>2 DEF LoadThrows, CreatingStep
  <1>3. CASE PickDevice
    <2>1. CASE Fails("GPU")
      BY <1>3, <2>1, FailsGoes DEF PickDevice, CreatingStep
    <2>2. CASE pc' = "device" /\ UNCHANGED <<at, ok, live, member, orphans, out, rc, busy, unwaited>>
      BY <1>3, <2>2 DEF PickDevice, CreatingStep
    <2> QED BY <1>3, <2>1, <2>2 DEF PickDevice
  <1>4. CASE ObjectStep
    <2>1. CASE Loaded
      BY <2>1 DEF Loaded, CreatingStep
    <2>2. CASE CreateInstance
      BY <2>2, StepGoes DEF CreateInstance
    <2>3. CASE CreateDevice
      BY <2>3, StepGoes DEF CreateDevice
    <2>4. CASE CreateCommandPool
      BY <2>4, StepGoes DEF CreateCommandPool
    <2>5. CASE AllocateCommandBuffer
      BY <2>5, FailsGoes DEF AllocateCommandBuffer, CreatingStep
    <2>6. CASE CreateFence
      BY <2>6, StepGoes DEF CreateFence
    <2>7. CASE CreateLayout
      BY <2>7, StepGoes DEF CreateLayout
    <2>8. CASE CreateModule
      BY <2>8, FailsGoes DEF CreateModule, CreatingStep
    <2>9. CASE PipelineFails
      BY <2>9 DEF PipelineFails, CreatingStep
    <2>10. CASE CreatePipeline
      BY <2>10 DEF CreatePipeline, CreatingStep
    <2>11. CASE CreateReducePipelines
      BY <2>11 DEF CreateReducePipelines, CreatingStep
    <2>12. CASE CreateTableBuffer
      BY <2>12 DEF CreateTableBuffer, CreateBuffer, CreatingStep
    <2>13. CASE CreateWorkBuffer
      BY <2>13 DEF CreateWorkBuffer, CreateBuffer, CreatingStep
    <2>14. CASE TableBuffersDone
      BY <2>14, BuffersDoneGoes DEF TableBuffersDone
    <2>15. CASE WorkingSetDone
      BY <2>15, BuffersDoneGoes DEF WorkingSetDone
    <2>16. CASE SubmitCoset
      BY <2>16, FailsGoes DEF SubmitCoset, CreatingStep
    <2>17. CASE CosetDone
      BY <2>17 DEF CosetDone, CreatingStep
    <2>18. CASE CosetFails
      BY <2>18, FailsGoes DEF CosetFails, CreatingStep
    <2>19. CASE WaitIdle
      BY <2>19 DEF WaitIdle, DeletingStep
    <2>20. CASE DestroyBuffers \/ DestroyPipelines \/ DestroyLayout
      BY <2>20 DEF DestroyBuffers, DestroyPipelines, DestroyLayout, Destroy, DeletingStep
    <2>21. CASE DestroyFence \/ DestroyPool \/ DestroyDevice \/ DestroyInstance
      BY <2>21 DEF DestroyFence, DestroyPool, DestroyDevice, DestroyInstance, Destroy, DeletingStep
    <2> QED
      BY <1>4, <2>1, <2>2, <2>3, <2>4, <2>5, <2>6, <2>7, <2>8, <2>9, <2>10, <2>11, <2>12,
         <2>13, <2>14, <2>15, <2>16, <2>17, <2>18, <2>19, <2>20, <2>21 DEF ObjectStep
  <1> QED BY <1>1, <1>2, <1>3, <1>4 DEF Progress

-----------------------------------------------------------------------------
(* JInv is inductive *)

\* Before the first method no thread is inside and there is no prover.
LEMMA JInvInit == JavaInit => JInv
  BY JavaAssumption
  DEF JavaInit, Init, JInv, Life, JavaTypes, Monitor, Agreement, Quiet, Inside, Methods,
      Stages, pcs

\* The library's own steps leave the threads where they are.
LEMMA LibraryKeeps == ASSUME JInv, LibraryStep PROVE JInv'
  <1>1. CASE GpuProgress
    BY <1>1 DEF JInv, LibraryStep, GpuProgress, GpuComplete, Life, JavaTypes, Monitor,
       Agreement, Quiet, javaVars
  <1>2. CASE Progress
    <2>1. CreatingStep \/ DeletingStep
      BY <1>2, ProgressGoes
    <2>2. UNCHANGED javaVars
      BY DEF LibraryStep
    <2>3. PICK t \in Threads : stage[t] = "native"
      BY <2>1 DEF JInv, Agreement, Quiet, CreatingStep, DeletingStep, creating, deleting
    <2>4. method[t] \in {"init", "deinit"}
      BY <2>1, <2>3 DEF JInv, Agreement, CreatingStep, DeletingStep, creating, deleting,
         JavaTypes, Methods
    <2>5. \A u \in Threads : stage[u] = "native" => u = t
      BY <2>3 DEF JInv, Monitor, Inside
    <2>6. Life'
      <3>1. pc # "ready" /\ out = FALSE
        BY <2>1 DEF JInv, Life, CreatingStep, DeletingStep, creating, deleting
      <3>2. \/ pc' \in pcs \ {"ready"} /\ out' = out
            \/ pc' = "ready" /\ out' = TRUE /\ rc' = "OK"
        BY <2>1 DEF CreatingStep, DeletingStep, creating, deleting, pcs
      <3>3. CASE pc' \in pcs \ {"ready"} /\ out' = out
        BY <3>1, <3>3 DEF Life
      <3>4. CASE pc' = "ready" /\ out' = TRUE /\ rc' = "OK"
        BY <3>4 DEF Life, pcs
      <3> QED BY <3>2, <3>3, <3>4
    <2>7. JavaTypes' /\ Monitor'
      BY <2>2 DEF JInv, JavaTypes, Monitor, javaVars
    <2>8. Agreement'
      <3>1. ~Quiet'
        BY <2>2, <2>3 DEF Quiet, javaVars
      <3>2. CASE method[t] = "init"
        <4>1. ~handle /\ (rc = "OK" => pc = "ready")
          BY <2>3, <3>2 DEF JInv, Agreement
        <4>2. (rc = "OK" => pc = "ready")'
          BY <2>1, <4>1 DEF CreatingStep, DeletingStep, creating, deleting, Failures
        <4> QED BY <2>2, <2>5, <3>1, <3>2, <4>1, <4>2 DEF Agreement, javaVars
      <3>3. CASE method[t] = "deinit"
        <4>1. handle /\ rc = "OK" /\ pc \in deleting \cup {"idle"}
          BY <2>3, <3>3 DEF JInv, Agreement
        <4>2. rc' = "OK" /\ pc' \in deleting \cup {"idle"}
          BY <2>1, <4>1 DEF CreatingStep, DeletingStep, creating, deleting
        <4> QED BY <2>2, <2>5, <3>1, <3>3, <4>1, <4>2 DEF Agreement, javaVars
      <3> QED BY <2>4, <3>2, <3>3
    <2> QED BY <2>6, <2>7, <2>8 DEF JInv
  <1> QED BY <1>1, <1>2 DEF LibraryStep

\* The process that ends had not handed a prover out.
LEMMA ProcessEndKeeps == ASSUME JInv, ProcessEnds PROVE JInv'
  <1>1. ~out /\ pc = "idle" /\ rc = "thrown"
    BY DEF JInv, Life, ProcessEnds
  <1>2. ~handle
    <2>1. CASE Quiet
      BY <1>1, <2>1 DEF JInv, Agreement
    <2>2. CASE ~Quiet
      <3>1. PICK t \in Threads : stage[t] = "native"
        BY <2>2 DEF Quiet
      <3> QED BY <1>1, <3>1 DEF JInv, Agreement, JavaTypes, Methods
    <2> QED BY <2>1, <2>2
  <1> QED BY <1>1, <1>2, JavaAssumption
    DEF JInv, Life, JavaTypes, Monitor, Agreement, Quiet, ProcessEnds, Inside, Stages, pcs

\* A thread that goes somewhere leaves the others where they are.
LEMMA GoesFact ==
  ASSUME JavaTypes, NEW t \in Threads, NEW to \in Stages, Goes(t, to)
  PROVE  /\ stage' \in [Threads -> Stages]
         /\ stage'[t] = to
         /\ \A u \in Threads : u # t => stage'[u] = stage[u]
  BY DEF Goes, JavaTypes

\* The thread in the library is the one in the monitor.
LEMMA OneInside ==
  ASSUME Monitor, NEW t \in Threads, stage[t] \in Inside
  PROVE  monitor = t /\ \A u \in Threads : u # t => stage[u] \notin Inside
  BY DEF Monitor

\* Calling a method, and getting the monitor for it.
LEMMA EntryKeeps ==
  ASSUME JInv, NEW t \in Threads, Invoke(t) \/ Enter(t) PROVE JInv'
  <1>1. CASE Invoke(t)
    <2>1. /\ stage' \in [Threads -> Stages] /\ stage'[t] = "waiting"
          /\ \A u \in Threads : u # t => stage'[u] = stage[u]
      BY <1>1, GoesFact DEF Invoke, JInv, Stages
    <2>2. /\ method' \in [Threads -> Methods]
          /\ \A u \in Threads : u # t => method'[u] = method[u]
      BY <1>1 DEF Invoke, JInv, JavaTypes
    <2>3. UNCHANGED <<pc, out, rc, handle, monitor>> /\ stage[t] = "outside"
      BY <1>1 DEF Invoke, vars
    <2>4. Quiet' <=> Quiet
      BY <2>1, <2>3 DEF Quiet
    <2>5. Life' /\ JavaTypes'
      BY <2>1, <2>2, <2>3 DEF JInv, Life, JavaTypes
    <2>6. Monitor'
      BY <2>1, <2>3 DEF JInv, Monitor, Inside
    <2>7. Agreement'
      BY <2>1, <2>2, <2>3, <2>4 DEF JInv, Agreement
    <2> QED BY <2>5, <2>6, <2>7 DEF JInv
  <1>2. CASE Enter(t)
    <2>1. /\ stage' \in [Threads -> Stages] /\ stage'[t] = "entered"
          /\ \A u \in Threads : u # t => stage'[u] = stage[u]
      BY <1>2, GoesFact DEF Enter, JInv, Stages
    <2>2. UNCHANGED <<pc, out, rc, handle, method>> /\ stage[t] = "waiting" /\ monitor' = t
      BY <1>2 DEF Enter, vars
    <2>3. monitor = NoThread
      BY <1>2 DEF Enter, MonitorFree, JInv, Monitor, Inside
    <2>4. Monitor'
      BY <2>1, <2>2, <2>3, JavaAssumption DEF JInv, Monitor, Inside
    <2>5. Quiet' <=> Quiet
      BY <2>1, <2>2 DEF Quiet
    <2>6. Life' /\ JavaTypes'
      BY <2>1, <2>2 DEF JInv, Life, JavaTypes
    <2>7. Agreement'
      BY <2>1, <2>2, <2>5 DEF JInv, Agreement
    <2> QED BY <2>4, <2>6, <2>7 DEF JInv
  <1> QED BY <1>1, <1>2

\* Going from a stage inside the monitor to another keeps what is known of the monitor.
LEMMA StaysInside ==
  ASSUME JavaTypes, Monitor, NEW t \in Threads, stage[t] \in Inside,
         NEW to \in Inside, Goes(t, to), UNCHANGED monitor
  PROVE  /\ stage' \in [Threads -> Stages]
         /\ stage'[t] = to
         /\ \A u \in Threads : u # t => stage[u] \notin Inside /\ stage'[u] \notin Inside
         /\ Monitor'
  <1>1. /\ stage' \in [Threads -> Stages] /\ stage'[t] = to
        /\ \A u \in Threads : u # t => stage'[u] = stage[u]
    BY GoesFact DEF Inside, Stages
  <1>2. \A u \in Threads : u # t => stage[u] \notin Inside
    BY OneInside
  <1> QED BY <1>1, <1>2 DEF Monitor

\* A thread that does not call the library, and one that leaves.
LEMMA ReturnsKeep ==
  ASSUME JInv, NEW t \in Threads, Rejects(t) \/ Exit(t) PROVE JInv'
  <1>1. UNCHANGED <<pc, out, rc, handle, method>>
    BY DEF Rejects, Exit, vars
  <1>2. \A u \in Threads : u # t => stage[u] \notin Inside
    BY OneInside DEF JInv, Rejects, Exit, Inside
  <1>3. Quiet
    BY <1>2 DEF Quiet, Rejects, Exit, Inside
  <1>4. CASE Rejects(t)
    <2>1. /\ stage' \in [Threads -> Stages] /\ stage'[t] = "leaving" /\ Monitor'
          /\ \A u \in Threads : u # t => stage'[u] \notin Inside
      BY <1>4, StaysInside DEF Rejects, JInv, Inside
    <2>2. Quiet'
      BY <2>1 DEF Quiet, Inside
    <2>3. Agreement'
      BY <1>1, <1>3, <2>2 DEF JInv, Agreement, Quiet
    <2> QED BY <1>1, <2>1, <2>3 DEF JInv, Life, JavaTypes
  <1>5. CASE Exit(t)
    <2>1. /\ stage' \in [Threads -> Stages] /\ stage'[t] = "outside"
          /\ \A u \in Threads : u # t => stage'[u] = stage[u]
      BY <1>5, GoesFact DEF Exit, JInv, Stages
    <2>2. monitor' = NoThread
      BY <1>5 DEF Exit, Left
    <2>3. \A u \in Threads : stage'[u] \notin Inside
      BY <1>2, <2>1 DEF Inside
    <2>4. Monitor'
      BY <2>2, <2>3, JavaAssumption DEF Monitor
    <2>5. Quiet'
      BY <2>3 DEF Quiet, Inside
    <2>6. Agreement'
      BY <1>1, <1>3, <2>5 DEF JInv, Agreement, Quiet
    <2> QED BY <1>1, <2>1, <2>4, <2>6 DEF JInv, Life, JavaTypes
  <1> QED BY <1>4, <1>5

\* The library is called when nobody else is in it.
LEMMA CallsKeep ==
  ASSUME JInv, NEW t \in Threads, InitCalls(t) \/ DeinitCalls(t) \/ UseCalls(t)
  PROVE  JInv'
  <1>1. stage[t] = "entered" /\ Goes(t, "native") /\ UNCHANGED <<handle, monitor, method>>
    BY DEF InitCalls, DeinitCalls, UseCalls, Calls
  <1>2. /\ stage' \in [Threads -> Stages] /\ stage'[t] = "native" /\ Monitor'
        /\ \A u \in Threads : u # t => stage[u] \notin Inside /\ stage'[u] \notin Inside
    BY <1>1, StaysInside DEF JInv, Inside
  <1>3. Quiet
    BY <1>1, <1>2 DEF Quiet, Inside
  <1>4. pc \in {"idle", "ready"} /\ (handle <=> out)
    BY <1>3 DEF JInv, Agreement
  <1>5. JavaTypes'
    BY <1>1, <1>2 DEF JInv, JavaTypes
  <1>6. CASE InitCalls(t)
    <2>1. method[t] = "init" /\ ~handle /\ out = FALSE /\ pc' = "load" /\ rc' = "none"
          /\ out' = out
      BY <1>6, <1>4 DEF InitCalls, Calls, New, JInv, Life
    <2>2. Life'
      BY <2>1 DEF Life, pcs, creating
    <2>3. Agreement'
      BY <1>1, <1>2, <1>5, <2>1 DEF Agreement, Quiet, Inside
    <2> QED BY <1>2, <1>5, <2>2, <2>3 DEF JInv
  <1>7. CASE DeinitCalls(t)
    <2>1. method[t] = "deinit" /\ handle /\ pc = "ready" /\ rc = "OK" /\ rc' = rc
          /\ out' = FALSE
      BY <1>7 DEF DeinitCalls, Calls, Free, JInv, Life
    <2>2. pc' \in {"waitIdle", "idle"}
      BY <1>7, DeleteGoes DEF DeinitCalls, Free
    <2>3. Life'
      BY <2>1, <2>2 DEF Life, pcs, deleting
    <2>4. Agreement'
      BY <1>1, <1>2, <1>5, <2>1, <2>2 DEF Agreement, Quiet, Inside, deleting
    <2> QED BY <1>2, <1>5, <2>3, <2>4 DEF JInv
  <1>8. CASE UseCalls(t)
    <2>1. method[t] \in {"batch", "get"} /\ handle /\ UNCHANGED <<pc, out, rc>>
      BY <1>8 DEF UseCalls, Calls, vars
    <2>2. pc = "ready"
      BY <1>4, <2>1 DEF JInv, Life
    <2>3. Life'
      BY <2>1 DEF JInv, Life
    <2>4. Agreement'
      BY <1>1, <1>2, <1>5, <2>1, <2>2 DEF Agreement, Quiet, Inside
    <2> QED BY <1>2, <1>5, <2>3, <2>4 DEF JInv
  <1> QED BY <1>6, <1>7, <1>8

\* The library returns, and the handle follows what it did.
LEMMA LibraryReturnsKeep ==
  ASSUME JInv, NEW t \in Threads, InitReturns(t) \/ DeinitReturns(t) \/ UseReturns(t)
  PROVE  JInv'
  <1>1. stage[t] = "native" /\ Goes(t, "leaving") /\ UNCHANGED <<monitor, method>>
    BY DEF InitReturns, DeinitReturns, UseReturns, Returns
  <1>2. /\ stage' \in [Threads -> Stages] /\ stage'[t] = "leaving" /\ Monitor'
        /\ \A u \in Threads : u # t => stage'[u] \notin Inside
    BY <1>1, StaysInside DEF JInv, Inside
  <1>3. Quiet'
    BY <1>2 DEF Quiet, Inside
  <1>4. UNCHANGED <<pc, out, rc>>
    BY DEF InitReturns, DeinitReturns, UseReturns, Use, vars
  <1>5. Life'
    BY <1>4 DEF JInv, Life
  <1>6. /\ handle' \in BOOLEAN /\ pc \in {"idle", "ready"}
        /\ handle' <=> out
    <2>1. CASE InitReturns(t)
      <3>1. method[t] = "init" /\ pc \in {"idle", "ready"} /\ handle' = (rc = "OK")
        BY <2>1 DEF InitReturns, Returns
      <3>2. rc = "OK" <=> pc = "ready"
        BY <1>1, <3>1 DEF JInv, Agreement, Life
      <3> QED BY <3>1, <3>2 DEF JInv, Life
    <2>2. CASE DeinitReturns(t)
      BY <2>2 DEF DeinitReturns, Returns, HandleAfterFree, JInv, Life
    <2>3. CASE UseReturns(t)
      <3>1. method[t] \in {"batch", "get"} /\ handle' = handle
        BY <2>3 DEF UseReturns, Returns
      <3>2. handle /\ pc = "ready"
        BY <1>1, <3>1 DEF JInv, Agreement
      <3> QED BY <3>1, <3>2 DEF JInv, Life
    <2> QED BY <2>1, <2>2, <2>3
  <1>7. Agreement'
    BY <1>3, <1>4, <1>6 DEF Agreement, Quiet
  <1>8. JavaTypes'
    BY <1>1, <1>2, <1>6 DEF JInv, JavaTypes
  <1> QED BY <1>2, <1>5, <1>7, <1>8 DEF JInv

\* Every step of every thread, of the library and of the device keeps JInv.
LEMMA JInvNext == JInv /\ [JavaNext]_allVars => JInv'
  <1> SUFFICES ASSUME JInv, [JavaNext]_allVars PROVE JInv'
    OBVIOUS
  <1>1. CASE LibraryStep
    BY <1>1, LibraryKeeps
  <1>2. CASE ProcessEnds
    BY <1>2, ProcessEndKeeps
  <1>3. ASSUME NEW t \in Threads, Invoke(t) \/ Enter(t) \/ InMonitor(t) PROVE JInv'
    BY <1>3, EntryKeeps, ReturnsKeep, CallsKeep, LibraryReturnsKeep DEF InMonitor
  <1>4. CASE UNCHANGED allVars
    BY <1>4 DEF allVars, vars, javaVars, JInv, Life, JavaTypes, Monitor, Agreement, Quiet
  <1> QED BY <1>1, <1>2, <1>3, <1>4 DEF JavaNext

\* The invariant holds throughout.
LEMMA JInvAlways == JavaSpec => []JInv
  BY JInvInit, JInvNext, PTL DEF JavaSpec

-----------------------------------------------------------------------------
(* Handle and prover *)

\* Between methods the handle is that of the prover there is, whatever was called,
\* failed or ended before (init and deinit of Vkzg.java).
THEOREM HandleFollowsProver == JavaSpec => []HandleIsProver
  <1>1. JInv => HandleIsProver
    <2> SUFFICES ASSUME JInv, monitor = NoThread
                 PROVE  (handle <=> out) /\ pc \in {"idle", "ready"}
      BY DEF HandleIsProver
    <2>1. Quiet
      BY JavaAssumption DEF JInv, Monitor, Quiet, Inside
    <2> QED BY <2>1 DEF JInv, Agreement
  <1> QED BY <1>1, JInvAlways, PTL

\* A prover is not freed, nor another made, while a thread is in a method that uses it
\* (the synchronized methods of Vkzg.java).
THEOREM UsedOnlyWhileAlive == JavaSpec => []UsedWhileAlive
  <1>1. JInv => UsedWhileAlive
    BY DEF JInv, Agreement, Life, UsedWhileAlive
  <1> QED BY <1>1, JInvAlways, PTL

-----------------------------------------------------------------------------
(* What the device executes on *)

\* The device executes only where the thread waits for it, or has a prover, or is past
\* a wait that failed; and from its creation on it is a member of the prover, until it
\* is deleted.
withDevice == (creating \ {"load", "instance", "pick", "device"}) \cup {"ready"}
Flying ==
  /\ busy => pc \in {"cosetWait", "ready", "waitIdle"} \/ (unwaited /\ pc # "freeInstance")
  /\ unwaited => pc \in deleting \ {"waitIdle"}
  /\ pc \in withDevice => Own("device") \in member

Kept == Flying' /\ (busy /\ ~unwaited => live \subseteq live')

\* A prover with a device that is deleted loses nothing before the wait for it.
LEMMA DeleteKeeps ==
  ASSUME Flying, Delete, UNCHANGED <<busy, unwaited>>,
         pc \in withDevice \/ (pc \in creating /\ ~busy)
  PROVE  Kept
  <1>1. CASE Own("device") \in member
    BY <1>1 DEF Delete, Flying, Kept, withDevice, creating, deleting
  <1>2. CASE Own("device") \notin member
    BY <1>2 DEF Delete, Flying, Kept, withDevice, creating, deleting
  <1> QED BY <1>1, <1>2

\* A creation that fails destroys nothing the device executes with.
LEMMA FailsKeeps ==
  ASSUME Flying, pc \in creating, NEW code \in {"GPU"}, Fails(code) PROVE Kept
  BY DeleteKeeps DEF Fails, Flying, withDevice, creating, deleting

\* Making an object other than a device.
LEMMA StepKeeps ==
  ASSUME Flying, NEW here \in creating \ {"cosetWait"}, NEW kind,
         NEW next \in creating, Step(here, kind, next),
         next \in withDevice => here \in withDevice \/ kind = "device"
  PROVE  Kept
  <1>1. pc = here /\ ~busy /\ ~unwaited
    BY DEF Step, Flying, creating, deleting
  <1>2. CASE Made(Own(kind), next)
    BY <1>1, <1>2 DEF Made, Flying, Kept
  <1>3. CASE Fails("GPU")
    BY <1>1, <1>3, FailsKeeps
  <1> QED BY <1>2, <1>3 DEF Step

\* The library's steps destroy nothing while the device executes.
LEMMA ProgressKeeps == ASSUME Flying, Progress PROVE Kept
  <1> USE DEF creating, deleting, withDevice
  <1>1. CASE Load \/ LoadThrows
    BY <1>1 DEF Load, LoadThrows, Flying, Kept
  <1>2. CASE PickDevice
    <2>1. CASE Fails("GPU")
      BY <1>2, <2>1, FailsKeeps DEF PickDevice
    <2>2. CASE pc' = "device" /\ UNCHANGED <<at, ok, live, member, orphans, out, rc, busy, unwaited>>
      BY <1>2, <2>2 DEF PickDevice, Flying, Kept
    <2> QED BY <1>2, <2>1, <2>2 DEF PickDevice
  <1>3. CASE ObjectStep
    <2>1. CASE Loaded
      BY <2>1 DEF Loaded, Flying, Kept
    <2>2. CASE CreateInstance
      BY <2>2, StepKeeps DEF CreateInstance
    <2>3. CASE CreateDevice
      BY <2>3, StepKeeps DEF CreateDevice
    <2>4. CASE CreateCommandPool
      BY <2>4, StepKeeps DEF CreateCommandPool
    <2>5. CASE AllocateCommandBuffer
      BY <2>5, FailsKeeps DEF AllocateCommandBuffer, Flying, Kept
    <2>6. CASE CreateFence
      BY <2>6, StepKeeps DEF CreateFence
    <2>7. CASE CreateLayout
      BY <2>7, StepKeeps DEF CreateLayout
    <2>8. CASE CreateModule
      BY <2>8, FailsKeeps DEF CreateModule, Flying, Kept
    <2>9. CASE PipelineFails
      BY <2>9 DEF PipelineFails, Flying, Kept
    <2>10. CASE CreatePipeline
      BY <2>10 DEF CreatePipeline, Flying, Kept
    <2>11. CASE CreateReducePipelines
      BY <2>11 DEF CreateReducePipelines, Flying, Kept
    <2>12. CASE CreateTableBuffer \/ CreateWorkBuffer
      BY <2>12 DEF CreateTableBuffer, CreateWorkBuffer, CreateBuffer, Flying, Kept
    <2>13. CASE TableBuffersDone \/ WorkingSetDone
      BY <2>13 DEF TableBuffersDone, WorkingSetDone, BuffersDone, Flying, Kept
    <2>14. CASE SubmitCoset
      BY <2>14, FailsKeeps DEF SubmitCoset, Flying, Kept
    <2>15. CASE CosetDone
      BY <2>15 DEF CosetDone, Flying, Kept
    <2>16. CASE CosetFails
      BY <2>16, FailsKeeps DEF CosetFails
    <2>17. CASE WaitIdle
      BY <2>17 DEF WaitIdle, WaitsFor, Flying, Kept
    <2>18. CASE DestroyBuffers \/ DestroyPipelines \/ DestroyLayout
      BY <2>18 DEF DestroyBuffers, DestroyPipelines, DestroyLayout, Destroy, Flying, Kept
    <2>19. CASE DestroyFence \/ DestroyPool \/ DestroyDevice \/ DestroyInstance
      BY <2>19 DEF DestroyFence, DestroyPool, DestroyDevice, DestroyInstance, Destroy, Flying, Kept
    <2> QED
      BY <1>3, <2>1, <2>2, <2>3, <2>4, <2>5, <2>6, <2>7, <2>8, <2>9, <2>10, <2>11, <2>12,
         <2>13, <2>14, <2>15, <2>16, <2>17, <2>18, <2>19 DEF ObjectStep
  <1> QED BY <1>1, <1>2, <1>3 DEF Progress

\* A method destroys nothing itself; deinit has the prover deleted.
LEMMA MethodKeeps ==
  ASSUME Flying, NEW t \in Threads, Invoke(t) \/ Enter(t) \/ InMonitor(t) PROVE Kept
  <1>1. CASE UNCHANGED vars
    BY <1>1 DEF vars, Flying, Kept
  <1>2. CASE InitCalls(t)
    BY <1>2 DEF InitCalls, New, Flying, Kept, withDevice, creating, deleting
  <1>3. CASE DeinitCalls(t)
    BY <1>3, DeleteKeeps DEF DeinitCalls, Free, withDevice
  <1>4. CASE UseReturns(t)
    BY <1>4 DEF UseReturns, Use, vars, Flying, Kept
  <1> QED BY <1>1, <1>2, <1>3, <1>4
    DEF Invoke, Enter, InMonitor, Rejects, Exit, InitReturns, DeinitReturns, UseCalls

\* No step at all destroys what the device executes with, but after such a wait.
LEMMA FlyingNext == Flying /\ [JavaNext]_allVars => Kept
  <1> SUFFICES ASSUME Flying, [JavaNext]_allVars PROVE Kept
    OBVIOUS
  <1>1. CASE LibraryStep
    <2>1. CASE GpuProgress
      BY <2>1 DEF GpuProgress, GpuComplete, Flying, Kept
    <2> QED BY <1>1, <2>1, ProgressKeeps DEF LibraryStep
  <1>2. CASE ProcessEnds
    BY <1>2 DEF ProcessEnds, Flying, Kept, withDevice, creating, deleting
  <1>3. CASE UNCHANGED allVars
    BY <1>3 DEF allVars, vars, Flying, Kept
  <1> QED BY <1>1, <1>2, <1>3, MethodKeeps DEF JavaNext

\* BusyKeepsObjects: nothing is destroyed while the device executes with it, unless the
\* destructor's wait for the device has failed: not by a failed creation, whose own wait
\* for the coset tables may have failed (populateCosetShiftTables), nor by a deinit after
\* a batch that did not wait. The exception is needed, because the destructor does not
\* look at what vkDeviceWaitIdle returns.
THEOREM NothingDestroyedInUse == JavaSpec => BusyKeepsObjects
  <1>1. JavaInit => Flying
    BY DEF JavaInit, Init, Flying, withDevice, creating
  <1>2. Flying /\ [JavaNext]_allVars => Flying' /\ [busy /\ ~unwaited => live \subseteq live']_vars
    BY FlyingNext DEF Kept
  <1> QED BY <1>1, <1>2, PTL DEF JavaSpec, BusyKeepsObjects

-----------------------------------------------------------------------------
(* The objects of a prover *)

Instance == Own("instance")
Device1 == Own("device")
Module == Own("module")

\* Where the thread is once it has made the object: hasPool has the pool, and so on.
hasPool == withDevice \ {"cmdPool"}
hasFence == hasPool \ {"cmdBuf", "fence"}
hasLayout == hasFence \ {"layout"}
hasKernels == hasLayout \ {"module", "pipeline"}
hasReduce == hasKernels \ {"reduceModule", "reduce"}
hasBuffers == {"cosetSubmit", "cosetWait", "ready"}

WholeBuffer(b) == \A part \in Parts : <<part, b>> \in member

\* But for pipelines whose handles are lost, the shader module is the one object no
\* member refers to, and only while its pipeline is made. A buffer that is mapped has its
\* memory.
Known == live \ {Dropped}
Held ==
  /\ Known = member \cup (IF pc \in {"pipeline", "reduce"} THEN {Module} ELSE {})
  /\ live \subseteq Objects
  /\ member \subseteq Objects \ {Module, Dropped}
  /\ \A b : <<"map", b>> \in member => <<"mem", b>> \in member

Created ==
  /\ pc \in {"idle", "load", "instance"} => member = {}
  /\ pc \in {"pick", "device"} => member = {Instance}
  /\ pc \in withDevice => Instance \in member /\ Device1 \in member
  /\ pc \in hasPool => Own("cmdPool") \in member
  /\ pc \in hasFence => Own("fence") \in member
  /\ pc \in hasLayout => Own("layout") \in member
  /\ pc \in hasKernels => \A i \in 1..Len(Kernels) : Pso(Kernels[i]) \in member
  /\ pc \in hasReduce => Pso("throughput") \in member /\ Pso("latency") \in member
  /\ pc \in hasBuffers \cup {"work"} /\ ok =>
       \A i \in 1..Len(TableBuffers) : WholeBuffer(TableBuffers[i])
  /\ pc \in hasBuffers => ok /\ \A i \in 1..Len(WorkBuffers) : WholeBuffer(WorkBuffers[i])

\* How far the loops are; each begins at 1.
InLoops ==
  /\ at \in Nat
  /\ pc \in creating \ {"module", "pipeline", "table", "work"} => at = 1
  /\ pc \in {"module", "pipeline"} =>
       at \in 1..Len(Kernels) /\ \A i \in 1..(at - 1) : Pso(Kernels[i]) \in member
  /\ pc = "table" => /\ at \in 1..(Len(TableBuffers) + 1)
                     /\ ok => \A i \in 1..(at - 1) : WholeBuffer(TableBuffers[i])
  /\ pc = "work" => /\ at \in 1..(Len(WorkBuffers) + 1)
                    /\ ok => \A i \in 1..(at - 1) : WholeBuffer(WorkBuffers[i])

\* What deletion has not come to yet.
Deleted ==
  /\ pc \in deleting \ {"freeInstance"} => Instance \in member /\ Device1 \in member
  /\ pc = "psos" => member \cap BufObjects = {}
  /\ pc = "freeLayout" =>
       member \subseteq {Own(k) : k \in {"instance", "device", "cmdPool", "fence", "layout"}}
  /\ pc = "freeFence" =>
       member \subseteq {Own(k) : k \in {"instance", "device", "cmdPool", "fence"}}
  /\ pc = "freePool" => member \subseteq {Own(k) : k \in {"instance", "device", "cmdPool"}}
  /\ pc = "freeDevice" => member = {Instance, Device1}
  /\ pc = "freeInstance" => member = {Instance}

Objs == pc \in pcs /\ ok \in BOOLEAN /\ Held /\ Created /\ InLoops /\ Deleted

-----------------------------------------------------------------------------
(* What holds of the objects wherever the thread is *)

\* The components of a pair.
LEMMA Pair ==
  ASSUME NEW o, NEW a, NEW b, o = <<a, b>> PROVE o[1] = a /\ o[2] = b
  OBVIOUS

\* What a product consists of.
LEMMA PairIn ==
  ASSUME NEW S, NEW T, NEW o \in S \X T PROVE \E a \in S : \E b \in T : o = <<a, b>>
  OBVIOUS

\* An object is one of the prover's own, a pipeline or a part of a buffer.
LEMMA KindsOfObjects ==
  ASSUME NEW o \in Objects
  PROVE  \/ o[1] \in {"instance", "device", "cmdPool", "fence", "layout", "module", "dropped"}
            /\ o = Own(o[1])
         \/ o[1] = "pso" /\ o \in PsoObjects
         \/ o[1] \in Parts /\ o[2] \in Range(Buffers) /\ o \in BufObjects /\ o = <<o[1], o[2]>>
  <1>1. CASE \E kind \in {"instance", "device", "cmdPool", "fence", "layout", "module", "dropped"} :
              o = Own(kind)
    BY <1>1, Pair DEF Own
  <1>2. CASE o \in PsoObjects
    BY <1>2, Pair DEF PsoObjects, Pso
  <1>3. CASE o \in BufObjects
    <2>1. PICK part \in Parts, b \in Range(Buffers) : o = <<part, b>>
      BY <1>3, PairIn DEF BufObjects
    <2> QED BY <1>3, <2>1, Pair
  <1> QED BY <1>1, <1>2, <1>3 DEF Objects

\* Whatever exists and is known of, what it was made from does.
LEMMA ParentsThere == Objs => ParentsOutliveChildren
  <1> SUFFICES ASSUME Objs, NEW o \in Known PROVE Parent(o) \in Known
    BY DEF ParentsOutliveChildren, Known
  <1> USE DEF Objs, creating, deleting, pcs, withDevice
  <1>1. o \in Objects /\ (o \in member \/ (o = Module /\ pc \in {"pipeline", "reduce"}))
    BY DEF Held, Objects, Own, Module
  <1>2. Instance \in Known
    BY <1>1 DEF Held, Created, Deleted
  <1>3. CASE o[1] \in {"instance", "device"}
    BY <1>2, <1>3 DEF Parent, Instance, Own
  <1>4. CASE o[1] = "map"
    <2>1. PICK b : o = <<"map", b>>
      BY <1>1, <1>4, KindsOfObjects DEF Parts
    <2>2. o \in member /\ Parent(o) = <<"mem", b>>
      BY <1>1, <2>1, Pair DEF Module, Own, Parent
    <2> QED BY <2>1, <2>2 DEF Held
  <1>5. CASE o[1] \notin {"instance", "device", "map"}
    <2>1. o # Instance
      BY <1>5, Pair DEF Instance, Own
    <2>2. Device1 \in Known
      <3>1. CASE pc \in {"pipeline", "reduce"}
        BY <3>1 DEF Held, Created
      <3>2. CASE o \in member
        BY <2>1, <3>2 DEF Held, Created, Deleted
      <3> QED BY <1>1, <3>1, <3>2
    <2> QED BY <1>5, <2>2 DEF Parent, Device1
  <1> QED BY <1>3, <1>4, <1>5

-----------------------------------------------------------------------------
(* The steps of a creation *)

\* Giving up before there is a device deletes the instance; after, the wait comes first.
LEMMA FailsObjs ==
  ASSUME Objs, pc \in (creating \cup {"ready"}) \ {"pipeline", "reduce"}, Delete,
         UNCHANGED <<at, ok>>
  PROVE  Objs'
  <1> USE DEF Objs, creating, deleting, pcs, withDevice
  <1>1. CASE Device1 \in member
    <2>1. pc' = "waitIdle" /\ UNCHANGED <<member, live>>
      BY <1>1 DEF Delete, Device1
    <2>2. Instance \in member
      BY <1>1 DEF Created, Instance, Device1, Own
    <2>3. Held'
      BY <2>1 DEF Held, Known
    <2> QED BY <1>1, <2>1, <2>2, <2>3 DEF Created, InLoops, Deleted,
               hasPool, hasFence, hasLayout, hasKernels, hasReduce, hasBuffers
  <1>2. CASE Device1 \notin member
    <2>1. pc' = "idle" /\ member' = {} /\ live' = live \ {Instance}
      BY <1>2 DEF Delete, Instance, Device1
    <2>2. Known = {} \/ Known = {Instance}
      BY <1>2 DEF Held, Created
    <2>4. Known' = {}
      BY <2>1, <2>2 DEF Known
    <2>3. Held'
      BY <2>1, <2>4 DEF Held
    <2> QED BY <2>1, <2>3 DEF Created, InLoops, Deleted,
               hasPool, hasFence, hasLayout, hasKernels, hasReduce, hasBuffers
  <1> QED BY <1>1, <1>2

\* The objects of the prover's own are different, and no parts of buffers.
LEMMA OwnIsOwn ==
  ASSUME NEW kind, NEW other, NEW b
  PROVE  /\ Own(kind) = Own(other) => kind = other
         /\ kind \notin {"mem", "map"} => Own(kind) # <<"map", b>> /\ Own(kind) # <<"mem", b>>
  BY Pair DEF Own

\* An object of the prover's own is made, and a member refers to it.
LEMMA MadeHeld ==
  ASSUME Objs, NEW kind \in {"instance", "device", "cmdPool", "fence", "layout"},
         NEW here, NEW next, pc = here, Made(Own(kind), next),
         {here, next} \cap {"pipeline", "reduce"} = {}
  PROVE  /\ pc' = next /\ UNCHANGED <<at, ok>>
         /\ live' = live \cup {Own(kind)} /\ member' = member \cup {Own(kind)}
         /\ Held'
  <1>1. /\ pc' = next /\ UNCHANGED <<at, ok>>
        /\ live' = live \cup {Own(kind)} /\ member' = member \cup {Own(kind)}
    BY DEF Made
  <1>2. Own(kind) \in Objects \ {Module, Dropped}
    BY OwnIsOwn DEF Objects, Module, Dropped
  <1>3. \A b : <<"map", b>> \in member' => <<"mem", b>> \in member'
    BY <1>1, OwnIsOwn DEF Objs, Held
  <1>4. Known' = member' /\ live' \subseteq Objects /\ member' \subseteq Objects \ {Module, Dropped}
    BY <1>1, <1>2 DEF Objs, Held, Known
  <1> QED BY <1>1, <1>3, <1>4 DEF Held

\* One object after the other, up to the pipelines.
LEMMA StepObjs ==
  ASSUME Objs, \/ CreateInstance \/ CreateDevice \/ CreateCommandPool
               \/ AllocateCommandBuffer \/ CreateFence \/ CreateLayout
  PROVE  Objs'
  <1> USE DEF creating, deleting, pcs, withDevice, hasPool, hasFence, hasLayout,
              hasKernels, hasReduce, hasBuffers
  <1>1. CASE Fails("GPU")
    BY <1>1, FailsObjs DEF Fails, CreateInstance, CreateDevice, CreateCommandPool,
       AllocateCommandBuffer, CreateFence, CreateLayout, Step
  <1>2. CASE pc = "instance" /\ Made(Instance, "pick")
    <2>1. pc' = "pick" /\ UNCHANGED <<at, ok>> /\ member' = member \cup {Instance} /\ Held'
      BY <1>2, MadeHeld DEF Instance
    <2> QED BY <1>2, <2>1 DEF Objs, Created, InLoops, Deleted
  <1>3. CASE pc = "device" /\ Made(Device1, "cmdPool")
    <2>1. pc' = "cmdPool" /\ UNCHANGED <<at, ok>> /\ member' = member \cup {Device1} /\ Held'
      BY <1>3, MadeHeld DEF Device1
    <2> QED BY <1>3, <2>1 DEF Objs, Created, InLoops, Deleted
  <1>4. CASE pc = "cmdPool" /\ Made(Own("cmdPool"), "cmdBuf")
    <2>1. /\ pc' = "cmdBuf" /\ UNCHANGED <<at, ok>>
          /\ member' = member \cup {Own("cmdPool")} /\ Held'
      BY <1>4, MadeHeld
    <2> QED BY <1>4, <2>1 DEF Objs, Created, InLoops, Deleted
  <1>5. CASE pc = "cmdBuf" /\ pc' = "fence" /\ UNCHANGED <<at, ok, live, member>>
    BY <1>5 DEF Objs, Held, Known, Created, InLoops, Deleted
  <1>6. CASE pc = "fence" /\ Made(Own("fence"), "layout")
    <2>1. /\ pc' = "layout" /\ UNCHANGED <<at, ok>>
          /\ member' = member \cup {Own("fence")} /\ Held'
      BY <1>6, MadeHeld
    <2> QED BY <1>6, <2>1 DEF Objs, Created, InLoops, Deleted
  <1>7. CASE pc = "layout" /\ Made(Own("layout"), "module")
    <2>1. /\ pc' = "module" /\ UNCHANGED <<at, ok>>
          /\ member' = member \cup {Own("layout")} /\ Held'
      BY <1>7, MadeHeld
    <2>2. at' = 1 /\ 1 \in 1..Len(Kernels)
      BY <1>7, <2>1, LifecycleAssumption DEF Objs, InLoops
    <2> QED BY <1>7, <2>1, <2>2 DEF Objs, Created, InLoops, Deleted
  <1> QED
    BY <1>1, <1>2, <1>3, <1>4, <1>5, <1>6, <1>7
    DEF CreateInstance, CreateDevice, CreateCommandPool, AllocateCommandBuffer, CreateFence,
        CreateLayout, Step, Instance, Device1

\* The shader module goes whether or not its pipelines are made.
LEMMA PipelineObjs ==
  ASSUME Objs, CreateModule \/ PipelineFails \/ CreatePipeline \/ CreateReducePipelines
  PROVE  Objs'
  <1> USE DEF creating, deleting, pcs, withDevice, hasPool, hasFence, hasLayout,
              hasKernels, hasReduce, hasBuffers
  <1>1. CASE CreateModule
    <2>1. CASE Fails("GPU")
      BY <1>1, <2>1, FailsObjs DEF Fails, CreateModule
    <2>2. CASE /\ live' = live \cup {Module} /\ UNCHANGED <<at, ok, member>>
               /\ pc' = IF pc = "module" THEN "pipeline" ELSE "reduce"
      <3>1. Module \in Objects /\ Module # Dropped
        BY OwnIsOwn DEF Objects, Module, Dropped
      <3>2. Known' = Known \cup {Module} /\ live' \subseteq Objects
        BY <2>2, <3>1 DEF Objs, Held, Known
      <3> QED BY <1>1, <2>2, <3>2 DEF CreateModule, Objs, Held, Known, Created, InLoops, Deleted
    <2> QED BY <1>1, <2>1, <2>2 DEF CreateModule, Module
  <1>2. ASSUME pc \in {"pipeline", "reduce"}
        PROVE  /\ ModuleFreed(live) \ {Dropped} = member
               /\ ModuleFreed(live) \subseteq Objects
    BY <1>2 DEF ModuleFreed, Objs, Held, Known, Module
  <1>3. CASE PipelineFails
    <2>1. /\ pc \in {"pipeline", "reduce"} /\ pc' = "waitIdle" /\ UNCHANGED <<at, ok, member>>
          /\ live' \subseteq ModuleFreed(live) \cup {Dropped} /\ ModuleFreed(live) \subseteq live'
      BY <1>3 DEF PipelineFails, MadeInVain
    <2>2. Dropped \in Objects
      BY DEF Dropped, Objects
    <2>3. Known' = member' /\ live' \subseteq Objects
      BY <1>2, <2>1, <2>2 DEF Known
    <2> QED BY <2>1, <2>3 DEF Objs, Held, Known, Created, InLoops, Deleted
  <1>4. ASSUME NEW k, Pso(k) \in PsoObjects
        PROVE  /\ Pso(k) \in Objects \ {Module, Dropped}
               /\ \A b : Pso(k) # <<"map", b>> /\ Pso(k) # <<"mem", b>>
    BY <1>4, Pair DEF Objects, Module, Dropped, Own, Pso
  <1>5. CASE CreatePipeline
    <2>1. /\ pc = "pipeline" /\ at \in 1..Len(Kernels) /\ ok' = ok
          /\ live' = ModuleFreed(live) \cup {Pso(Kernels[at])}
          /\ member' = member \cup {Pso(Kernels[at])}
      BY <1>5 DEF CreatePipeline, Objs, InLoops
    <2>2. Pso(Kernels[at]) \in PsoObjects
      BY <2>1, LifecycleAssumption DEF PsoObjects, Range
    <2>3. /\ Known' = member' /\ live' \subseteq Objects /\ member' \subseteq Objects \ {Module, Dropped}
          /\ pc' \notin {"pipeline", "reduce"}
      BY <1>2, <1>4, <1>5, <2>1, <2>2 DEF Objs, Held, Known, CreatePipeline
    <2>4. \A b : <<"map", b>> \in member' => <<"mem", b>> \in member'
      BY <1>4, <2>1, <2>2 DEF Objs, Held
    <2>5. \A i \in 1..at : Pso(Kernels[i]) \in member'
      BY <2>1 DEF Objs, InLoops
    <2>6. CASE at < Len(Kernels) /\ at' = at + 1 /\ pc' = "module"
      BY <2>1, <2>3, <2>4, <2>5, <2>6 DEF Objs, Held, Known, Created, InLoops, Deleted
    <2>7. CASE at >= Len(Kernels) /\ at' = 1 /\ pc' = "reduceModule"
      <3>1. \A i \in 1..Len(Kernels) : Pso(Kernels[i]) \in member'
        BY <2>1, <2>5, <2>7
      <3> QED BY <2>1, <2>3, <2>4, <2>7, <3>1 DEF Objs, Held, Known, Created, InLoops, Deleted
    <2> QED BY <1>5, <2>1, <2>6, <2>7, LifecycleAssumption DEF CreatePipeline
  <1>6. CASE CreateReducePipelines
    <2>1. /\ pc = "reduce" /\ UNCHANGED <<at, ok>> /\ pc' = "table" /\ at = 1
          /\ live' = ModuleFreed(live) \cup {Pso("throughput"), Pso("latency")}
          /\ member' = member \cup {Pso("throughput"), Pso("latency")}
      BY <1>6 DEF CreateReducePipelines, Objs, InLoops
    <2>2. Pso("throughput") \in PsoObjects /\ Pso("latency") \in PsoObjects
      BY DEF PsoObjects
    <2>3. Known' = member' /\ live' \subseteq Objects /\ member' \subseteq Objects \ {Module, Dropped}
      BY <1>2, <1>4, <2>1, <2>2 DEF Objs, Held, Known
    <2>4. \A b : <<"map", b>> \in member' => <<"mem", b>> \in member'
      BY <1>4, <2>1, <2>2 DEF Objs, Held
    <2>5. 1 \in 1..(Len(TableBuffers) + 1)
      BY LifecycleAssumption
    <2> QED BY <2>1, <2>3, <2>4, <2>5 DEF Objs, Held, Known, Created, InLoops, Deleted
  <1> QED BY <1>1, <1>3, <1>5, <1>6

\* What createBuffer has made of one buffer, whole or not, is members of the prover.
LEMMA BufferHeld ==
  ASSUME Objs, NEW b \in Range(Buffers), NEW parts \in Outcomes,
         pc \in {"table", "work"}, pc' = pc,
         live' = live \cup (parts \X {b}), member' = member \cup (parts \X {b})
  PROVE  /\ Held'
         /\ \A c : WholeBuffer(c) => WholeBuffer(c)'
         /\ parts = Parts => WholeBuffer(b)'
  <1>1. \A part \in parts : part \in Parts
    BY DEF Outcomes, Parts
  <1>2. parts \X {b} \subseteq BufObjects
    BY <1>1 DEF BufObjects
  <1>3. Module \notin BufObjects /\ Dropped \notin BufObjects
    <2>1. \A o \in BufObjects : o[1] \in Parts
      BY DEF BufObjects
    <2>2. Module[1] = "module" /\ Dropped[1] = "dropped"
      BY Pair DEF Module, Dropped, Own
    <2> QED BY <2>1, <2>2 DEF Parts
  <1>4. \A c : <<"map", c>> \in member' => <<"mem", c>> \in member'
    <2> SUFFICES ASSUME NEW c, <<"map", c>> \in parts \X {b} PROVE <<"mem", c>> \in parts \X {b}
      BY DEF Objs, Held
    <2>1. "map" \in parts /\ c = b
      OBVIOUS
    <2>2. "mem" \in parts
      BY <2>1 DEF Outcomes, Parts
    <2> QED BY <2>1, <2>2
  <1>7. Known' = member' /\ live' \subseteq Objects /\ member' \subseteq Objects \ {Module, Dropped}
    BY <1>2, <1>3 DEF Objs, Held, Known, Objects
  <1>5. Held'
    BY <1>4, <1>7 DEF Held
  <1>6. parts = Parts => WholeBuffer(b)'
    BY DEF WholeBuffer
  <1> QED BY <1>5, <1>6 DEF WholeBuffer

\* The buffers of the two lists are those there are.
LEMMA BuffersInLists ==
  /\ \A i \in 1..Len(TableBuffers) : TableBuffers[i] \in Range(Buffers)
  /\ \A i \in 1..Len(WorkBuffers) : WorkBuffers[i] \in Range(Buffers)
  /\ \A b \in Range(Buffers) : \/ \E i \in 1..Len(TableBuffers) : b = TableBuffers[i]
                              \/ \E i \in 1..Len(WorkBuffers) : b = WorkBuffers[i]
  <1> USE LifecycleAssumption
  <1>1. /\ Len(Buffers) = Len(TableBuffers) + Len(WorkBuffers)
        /\ DOMAIN Buffers = 1..(Len(TableBuffers) + Len(WorkBuffers))
        /\ \A i \in 1..Len(TableBuffers) : Buffers[i] = TableBuffers[i]
        /\ \A i \in 1..Len(WorkBuffers) : Buffers[Len(TableBuffers) + i] = WorkBuffers[i]
    BY DEF Buffers
  <1>2. ASSUME NEW i \in 1..Len(TableBuffers) PROVE TableBuffers[i] \in Range(Buffers)
    <2>1. i \in DOMAIN Buffers
      BY <1>1
    <2> QED BY <1>1, <2>1 DEF Range
  <1>3. ASSUME NEW i \in 1..Len(WorkBuffers) PROVE WorkBuffers[i] \in Range(Buffers)
    <2>1. Len(TableBuffers) + i \in DOMAIN Buffers
      BY <1>1
    <2> QED BY <1>1, <2>1 DEF Range
  <1>4. ASSUME NEW b \in Range(Buffers)
        PROVE  \/ \E i \in 1..Len(TableBuffers) : b = TableBuffers[i]
               \/ \E i \in 1..Len(WorkBuffers) : b = WorkBuffers[i]
    <2>1. PICK j \in 1..(Len(TableBuffers) + Len(WorkBuffers)) : b = Buffers[j]
      BY <1>1 DEF Range
    <2>2. CASE j <= Len(TableBuffers)
      BY <1>1, <2>1, <2>2, SMTT(30)
    <2>3. CASE j > Len(TableBuffers)
      <3>1. j - Len(TableBuffers) \in 1..Len(WorkBuffers)
        BY <2>3
      <3>2. b = WorkBuffers[j - Len(TableBuffers)]
        BY <1>1, <2>1, <3>1
      <3> QED BY <3>1, <3>2
    <2> QED BY <2>2, <2>3
  <1> QED BY <1>2, <1>3, <1>4

\* The buffer loops go on past a failure, and remember it.
LEMMA BufferLoopObjs ==
  ASSUME Objs, CreateTableBuffer \/ CreateWorkBuffer \/ TableBuffersDone \/ WorkingSetDone
  PROVE  Objs'
  <1> USE DEF creating, deleting, pcs, withDevice, hasPool, hasFence, hasLayout,
              hasKernels, hasReduce, hasBuffers
  <1>1. CASE CreateTableBuffer
    <2>1. /\ pc = "table" /\ pc' = pc /\ at \in 1..Len(TableBuffers) /\ at' = at + 1
      BY <1>1 DEF CreateTableBuffer, CreateBuffer, Objs, InLoops
    <2>0. PICK b \in Range(Buffers) : b = TableBuffers[at]
      BY <2>1, BuffersInLists
    <2>2. PICK parts \in Outcomes :
            /\ live' = live \cup (parts \X {b}) /\ member' = member \cup (parts \X {b})
            /\ ok' = (ok /\ parts = Parts)
      BY <2>0, <1>1 DEF CreateTableBuffer, CreateBuffer, AndOk
    <2>3. /\ Held' /\ \A c : WholeBuffer(c) => WholeBuffer(c)'
          /\ ok' => ok /\ WholeBuffer(b)'
      BY <2>1, <2>2, BufferHeld
    <2>4. ok' => \A i \in 1..at : WholeBuffer(TableBuffers[i])'
      BY <2>0, <2>1, <2>3 DEF Objs, InLoops
    <2> QED BY <2>1, <2>2, <2>3, <2>4, LifecycleAssumption DEF Objs, Created, InLoops, Deleted
  <1>2. CASE CreateWorkBuffer
    <2>1. /\ pc = "work" /\ pc' = pc /\ at \in 1..Len(WorkBuffers) /\ at' = at + 1
      BY <1>2 DEF CreateWorkBuffer, CreateBuffer, Objs, InLoops
    <2>0. PICK b \in Range(Buffers) : b = WorkBuffers[at]
      BY <2>1, BuffersInLists
    <2>2. PICK parts \in Outcomes :
            /\ live' = live \cup (parts \X {b}) /\ member' = member \cup (parts \X {b})
            /\ ok' = (ok /\ parts = Parts)
      BY <2>0, <1>2 DEF CreateWorkBuffer, CreateBuffer, AndOk
    <2>3. /\ Held' /\ \A c : WholeBuffer(c) => WholeBuffer(c)'
          /\ ok' => ok /\ WholeBuffer(b)'
      BY <2>1, <2>2, BufferHeld
    <2>4. ok' => \A i \in 1..at : WholeBuffer(WorkBuffers[i])'
      BY <2>0, <2>1, <2>3 DEF Objs, InLoops
    <2> QED BY <2>1, <2>2, <2>3, <2>4, LifecycleAssumption DEF Objs, Created, InLoops, Deleted
  <1>3. CASE TableBuffersDone
    <2>1. /\ pc = "table" /\ at = Len(TableBuffers) + 1 /\ at' = 1 /\ UNCHANGED <<ok, live, member>>
          /\ (ok /\ pc' = "work") \/ pc' = "waitIdle"
      BY <1>3, LifecycleAssumption DEF TableBuffersDone, BuffersDone, Objs, InLoops
    <2>2. 1 \in 1..(Len(WorkBuffers) + 1)
      BY LifecycleAssumption
    <2>3. ok => \A i \in 1..Len(TableBuffers) : WholeBuffer(TableBuffers[i])
      BY <2>1, LifecycleAssumption DEF Objs, InLoops
    <2> QED BY <2>1, <2>2, <2>3 DEF Objs, Held, Known, Created, InLoops, Deleted, WholeBuffer
  <1>4. CASE WorkingSetDone
    <2>1. /\ pc = "work" /\ at = Len(WorkBuffers) + 1 /\ at' = 1 /\ UNCHANGED <<ok, live, member>>
          /\ (ok /\ pc' = "cosetSubmit") \/ pc' = "waitIdle"
      BY <1>4, LifecycleAssumption DEF WorkingSetDone, BuffersDone, Objs, InLoops
    <2>2. ok => \A i \in 1..Len(WorkBuffers) : WholeBuffer(WorkBuffers[i])
      BY <2>1, LifecycleAssumption DEF Objs, InLoops
    <2> QED BY <2>1, <2>2 DEF Objs, Held, Known, Created, InLoops, Deleted, WholeBuffer
  <1> QED BY <1>1, <1>2, <1>3, <1>4

\* Filling the tables of the coset makes no objects.
LEMMA CosetObjs == ASSUME Objs, SubmitCoset \/ CosetDone \/ CosetFails PROVE Objs'
  <1> USE DEF creating, deleting, pcs, withDevice, hasPool, hasFence, hasLayout,
              hasKernels, hasReduce, hasBuffers
  <1>1. CASE Fails("GPU")
    BY <1>1, FailsObjs DEF Fails, SubmitCoset, CosetDone, CosetFails
  <1>2. CASE /\ \/ pc = "cosetSubmit" /\ pc' = "cosetWait"
                \/ pc = "cosetWait" /\ pc' = "ready"
             /\ UNCHANGED <<at, ok, live, member>>
    BY <1>2 DEF Objs, Held, Known, Created, InLoops, Deleted, WholeBuffer
  <1> QED BY <1>1, <1>2 DEF SubmitCoset, CosetDone, CosetFails

-----------------------------------------------------------------------------
(* The steps of a deletion *)

\* What is destroyed is no member any more, and memory goes with its mapping.
LEMMA DestroyHeld ==
  ASSUME Objs, pc \in deleting, NEW objects, NEW next \in deleting \cup {"idle"},
         Destroy(objects, next), \A b : <<"mem", b>> \in objects => <<"map", b>> \in objects
  PROVE  /\ pc' = next /\ UNCHANGED <<at, ok>>
         /\ member' = member \ objects
         /\ Held'
  <1>1. pc' = next /\ UNCHANGED <<at, ok>> /\ member' = member \ objects
    BY DEF Destroy, Forgotten
  <1>2. Known = member /\ Dropped \notin member /\ live' = live \ (objects \cap member)
    BY DEF Destroy, Objs, Held, deleting
  <1>3. Known' = member' /\ live' \subseteq Objects
    BY <1>1, <1>2 DEF Objs, Held, Known
  <1> QED BY <1>1, <1>3 DEF Objs, Held, deleting

\* Each destroyer leaves what comes after it.
LEMMA DestroyObjs ==
  ASSUME Objs, \/ DestroyBuffers \/ DestroyPipelines \/ DestroyLayout \/ DestroyFence
               \/ DestroyPool \/ DestroyDevice \/ DestroyInstance
  PROVE  Objs'
  <1> USE DEF creating, deleting, pcs, withDevice, hasPool, hasFence, hasLayout,
              hasKernels, hasReduce, hasBuffers
  <1>1. ASSUME NEW k \in {"instance", "device", "cmdPool", "fence", "layout"}
        PROVE  Own(k) \notin PsoObjects \cup BufObjects
    <2>1. Own(k)[1] = k
      BY Pair DEF Own
    <2>2. \A o \in PsoObjects : o[1] = "pso"
      BY Pair DEF PsoObjects, Pso
    <2>3. \A o \in BufObjects : o[1] \in Parts
      BY DEF BufObjects
    <2> QED BY <2>1, <2>2, <2>3 DEF Parts
  <1>2. \A k, j : Own(k) = Own(j) => k = j
    BY OwnIsOwn
  <1>3. ASSUME NEW k \in {"instance", "device", "cmdPool", "fence", "layout"}, NEW b
        PROVE  <<"mem", b>> \notin {Own(k)}
    BY <1>3, OwnIsOwn
  <1>4. CASE DestroyBuffers
    <2>1. \A b : <<"mem", b>> \in BufObjects => <<"map", b>> \in BufObjects
      BY DEF BufObjects, Parts
    <2>2. pc = "buffers" /\ Destroy(BufObjects, "psos")
      BY <1>4 DEF DestroyBuffers, DestroyedBuffers
    <2>3. pc' = "psos" /\ UNCHANGED <<at, ok>> /\ member' = member \ BufObjects /\ Held'
      BY <2>1, <2>2, DestroyHeld
    <2>4. Instance \in member' /\ Device1 \in member'
      BY <1>1, <2>2, <2>3 DEF Objs, Deleted, Instance, Device1
    <2> QED BY <2>2, <2>3, <2>4 DEF Objs, Created, InLoops, Deleted
  <1>5. CASE DestroyPipelines
    <2>1. \A b : <<"mem", b>> \notin PsoObjects
      BY Pair DEF PsoObjects, Pso
    <2>2. pc = "psos" /\ Destroy(PsoObjects, "freeLayout")
      BY <1>5 DEF DestroyPipelines
    <2>3. pc' = "freeLayout" /\ UNCHANGED <<at, ok>> /\ member' = member \ PsoObjects /\ Held'
      BY <2>1, <2>2, DestroyHeld
    <2>4. Instance \in member' /\ Device1 \in member'
      BY <1>1, <2>2, <2>3 DEF Objs, Deleted, Instance, Device1
    <2>5. member' \subseteq {Own(k) : k \in {"instance", "device", "cmdPool", "fence", "layout"}}
      <3> SUFFICES ASSUME NEW o \in member'
                   PROVE  \E k \in {"instance", "device", "cmdPool", "fence", "layout"} : o = Own(k)
        OBVIOUS
      <3>1. o \in Objects \ {Module, Dropped} /\ o \notin PsoObjects /\ o \notin BufObjects
        BY <2>2, <2>3 DEF Objs, Held, Deleted
      <3> QED BY <3>1, KindsOfObjects DEF Module, Dropped
    <2> QED BY <2>2, <2>3, <2>4, <2>5 DEF Objs, Created, InLoops, Deleted
  <1>6. CASE DestroyLayout
    <2>1. pc = "freeLayout" /\ Destroy({Own("layout")}, "freeFence")
      BY <1>6 DEF DestroyLayout
    <2>2. pc' = "freeFence" /\ UNCHANGED <<at, ok>> /\ member' = member \ {Own("layout")} /\ Held'
      BY <1>3, <2>1, DestroyHeld
    <2> QED BY <1>2, <2>1, <2>2 DEF Objs, Created, InLoops, Deleted, Instance, Device1
  <1>7. CASE DestroyFence
    <2>1. pc = "freeFence" /\ Destroy({Own("fence")}, "freePool")
      BY <1>7 DEF DestroyFence
    <2>2. pc' = "freePool" /\ UNCHANGED <<at, ok>> /\ member' = member \ {Own("fence")} /\ Held'
      BY <1>3, <2>1, DestroyHeld
    <2> QED BY <1>2, <2>1, <2>2 DEF Objs, Created, InLoops, Deleted, Instance, Device1
  <1>8. CASE DestroyPool
    <2>1. pc = "freePool" /\ Destroy({Own("cmdPool")}, "freeDevice")
      BY <1>8 DEF DestroyPool
    <2>2. pc' = "freeDevice" /\ UNCHANGED <<at, ok>> /\ member' = member \ {Own("cmdPool")} /\ Held'
      BY <1>3, <2>1, DestroyHeld
    <2>3. member' = {Instance, Device1}
      BY <1>2, <2>1, <2>2 DEF Objs, Deleted, Instance, Device1
    <2> QED BY <2>1, <2>2, <2>3 DEF Objs, Created, InLoops, Deleted
  <1>9. CASE DestroyDevice
    <2>1. pc = "freeDevice" /\ Destroy({Device1}, "freeInstance")
      BY <1>9 DEF DestroyDevice, Device1
    <2>2. pc' = "freeInstance" /\ UNCHANGED <<at, ok>> /\ member' = member \ {Device1} /\ Held'
      BY <1>3, <2>1, DestroyHeld DEF Device1
    <2>3. member' = {Instance}
      BY <1>2, <2>1, <2>2 DEF Objs, Deleted, Instance, Device1
    <2> QED BY <2>1, <2>2, <2>3 DEF Objs, Created, InLoops, Deleted
  <1>10. CASE DestroyInstance
    <2>1. pc = "freeInstance" /\ Destroy({Instance}, "idle")
      BY <1>10 DEF DestroyInstance, Instance
    <2>2. pc' = "idle" /\ UNCHANGED <<at, ok>> /\ member' = member \ {Instance} /\ Held'
      BY <1>3, <2>1, DestroyHeld DEF Instance
    <2>3. member' = {}
      BY <2>1, <2>2 DEF Objs, Deleted
    <2> QED BY <2>1, <2>2, <2>3 DEF Objs, Created, InLoops, Deleted
  <1> QED BY <1>4, <1>5, <1>6, <1>7, <1>8, <1>9, <1>10

-----------------------------------------------------------------------------
(* The tables *)

\* While a file is read, the tables before the one it is at are that file's, whole; so
\* all are when its end is come to. It is open only while the search goes on.
Filled ==
  /\ TablesTypeOK
  /\ found # "none" => file = NotOpen
  /\ Searching /\ file = NotOpen => reading = 0
  /\ Searching /\ file # NotOpen =>
       \A n \in 1..(reading - 1) : tables[n] = [from |-> path, whole |-> TRUE]
  /\ TablesOfOneFile

\* The vectors are as many as the names.
LEMMA NamesAre == DOMAIN Names = 1..Len(Names) /\ DOMAIN Paths = 1..Len(Paths) /\ Len(Names) \in Nat
  BY TablesAssumption

\* load_from returns a failure, which leaves the tables for the next file to fill.
LEMMA LoadReturnsFilled ==
  ASSUME Filled, Searching, NEW code \in {"IO", "SETUP"}, LoadReturns(code),
         tables' \in [DOMAIN Names -> [from : {0} \cup DOMAIN Paths, whole : BOOLEAN]]
  PROVE  Filled'
  <1>1. file' = NotOpen /\ reading' = 0 /\ path' \in DOMAIN Paths
    BY NamesAre DEF LoadReturns, Filled, TablesTypeOK
  <1>2. CASE found' = "none"
    BY <1>1, <1>2, NamesAre DEF Filled, TablesTypeOK, Searching, TablesOfOneFile
  <1>3. CASE found' = code
    BY <1>1, <1>3, NamesAre DEF Filled, TablesTypeOK, Searching, TablesOfOneFile
  <1> QED BY <1>2, <1>3 DEF LoadReturns, Searching

\* Every step of the search keeps what is known of the tables.
LEMMA LoadFilled == ASSUME Filled, LoadNext PROVE Filled'
  <1> USE NamesAre
  <1>1. CASE Open
    <2>1. CASE LoadReturns("IO")
      BY <1>1, <2>1, LoadReturnsFilled DEF Open, Filled, TablesTypeOK
    <2>2. CASE file' \in Files /\ UNCHANGED <<path, reading, found, tables>>
      BY <1>1, <2>2 DEF Open, Filled, TablesTypeOK, Searching, TablesOfOneFile
    <2> QED BY <1>1, <2>1, <2>2 DEF Open
  <1>2. CASE ReadHeader
    <2>1. CASE LoadReturns("SETUP")
      BY <1>2, <2>1, LoadReturnsFilled DEF ReadHeader, Filled, TablesTypeOK
    <2>2. CASE reading' = 1 /\ UNCHANGED <<path, file, found, tables>>
      BY <1>2, <2>2 DEF ReadHeader, Filled, TablesTypeOK, Searching, TablesOfOneFile
    <2> QED BY <1>2, <2>1, <2>2 DEF ReadHeader
  <1>3. CASE ReadTable
    <2> DEFINE entry == [from |-> path, whole |-> reading <= file.whole]
    <2>1. /\ Searching /\ file # NotOpen /\ reading \in 1..Len(Names)
          /\ tables' = [tables EXCEPT ![reading] = entry]
      BY <1>3 DEF ReadTable
    <2>2. file.whole \in Int
      <3>1. file \in Files
        BY <2>1 DEF Filled, TablesTypeOK
      <3> QED BY <3>1 DEF Files
    <2>3. entry \in [from : {0} \cup DOMAIN Paths, whole : BOOLEAN]
      BY <2>1, <2>2 DEF Filled, TablesTypeOK
    <2>4. tables' \in [DOMAIN Names -> [from : {0} \cup DOMAIN Paths, whole : BOOLEAN]]
      BY <2>1, <2>3 DEF Filled, TablesTypeOK
    <2>5. CASE LoadReturns("SETUP")
      BY <2>1, <2>4, <2>5, LoadReturnsFilled
    <2>6. CASE ReadExact(reading) /\ reading' = reading + 1 /\ UNCHANGED <<path, file, found>>
      <3>1. entry = [from |-> path, whole |-> TRUE]
        BY <2>1, <2>6, <2>2 DEF ReadExact
      <3>2. /\ tables'[reading] = entry
            /\ \A n \in 1..Len(Names) : n # reading => tables'[n] = tables[n]
        BY <2>1 DEF Filled, TablesTypeOK
      <3>3. \A n \in 1..(reading' - 1) : tables'[n] = [from |-> path', whole |-> TRUE]
        <4>1. reading' - 1 = reading /\ path' = path
          BY <2>1, <2>6
        <4> SUFFICES ASSUME NEW n \in 1..reading
                     PROVE  tables'[n] = [from |-> path, whole |-> TRUE]
          BY <4>1, Zenon
        <4>2. CASE n = reading
          BY <3>1, <3>2, <4>2, Zenon
        <4>3. CASE n # reading
          <5>1. n \in 1..(reading - 1) /\ n \in 1..Len(Names)
            BY <2>1, <4>3
          <5> QED BY <2>1, <3>2, <4>3, <5>1, Zenon DEF Filled
        <4> QED BY <4>2, <4>3
      <3>4. /\ UNCHANGED <<path, file, found>> /\ found = "none" /\ file # NotOpen
            /\ reading' \in 0..(Len(Names) + 1)
        BY <2>1, <2>6 DEF Searching
      <3> HIDE DEF entry
      <3> QED BY <2>4, <3>3, <3>4 DEF Filled, TablesTypeOK, Searching, TablesOfOneFile
    <2> QED BY <1>3, <2>5, <2>6 DEF ReadTable
  <1>4. CASE ReadAll
    <2>1. /\ Searching /\ file # NotOpen /\ reading = Len(Names) + 1
          /\ file' = NotOpen /\ reading' = 0 /\ found' = "OK" /\ UNCHANGED <<path, tables>>
      BY <1>4 DEF ReadAll, LoadReturns, Filled, TablesTypeOK
    <2> QED BY <2>1 DEF Filled, TablesTypeOK, Searching, TablesOfOneFile
  <1> QED BY <1>1, <1>2, <1>3, <1>4 DEF LoadNext

\* A search begins with tables of no file, as does one that an exception ends.
LEMMA SearchFilled ==
  ASSUME path' \in DOMAIN Paths, file' = NotOpen, reading' = 0, tables' = NoTables, found' = "none"
  PROVE  Filled'
  BY NamesAre DEF Filled, TablesTypeOK, Searching, TablesOfOneFile, NoTables

\* An exception ends the search; whatever the tables are, nobody is handed them.
LEMMA ThrowFilled == ASSUME Filled, ResizeThrows PROVE Filled'
  BY DEF Filled, ResizeThrows, TablesTypeOK, Searching, TablesOfOneFile

-----------------------------------------------------------------------------
(* All of it is inductive *)

\* No file is open but while the thread loads.
Closed == pc # "load" => file = NotOpen

OtherTypes ==
  /\ orphans \in BOOLEAN
  /\ busy \in BOOLEAN
  /\ unwaited \in BOOLEAN
  /\ rc \in {"none", "OK", "IO", "SETUP", "GPU", "MALLOC", "thrown"}
  /\ listing \in Listings \cup {<<>>}
  /\ chosen = Picked(listing)

LInv == JInv /\ Objs /\ Filled /\ Closed /\ OtherTypes

\* At first there is nothing at all.
LEMMA LInvInit == JavaInit => LInv
  <1> SUFFICES ASSUME JavaInit PROVE LInv
    OBVIOUS
  <1>1. JInv
    BY JInvInit
  <1>2. Objs
    BY DEF JavaInit, Init, Objs, Held, Known, Created, InLoops, Deleted, pcs, creating, deleting,
       withDevice, hasPool, hasFence, hasLayout, hasKernels, hasReduce, hasBuffers
  <1>3. Filled /\ Closed
    BY NamesAre, TablesAssumption
    DEF JavaInit, Init, TablesInit, Filled, Closed, TablesTypeOK, Searching,
       TablesOfOneFile, NoTables
  <1>4. OtherTypes
    BY DEF JavaInit, Init, OtherTypes
  <1> QED BY <1>1, <1>2, <1>3, <1>4 DEF LInv

\* Everything the library does by itself keeps what is known of the objects.
LEMMA ProgressObjs == ASSUME Objs, Progress PROVE Objs'
  <1> USE DEF creating, deleting, pcs, withDevice, hasPool, hasFence, hasLayout,
              hasKernels, hasReduce, hasBuffers
  <1>1. CASE Load
    BY <1>1 DEF Load, Objs, Held, Known, Created, InLoops, Deleted, WholeBuffer
  <1>2. CASE LoadThrows \/ Loaded
    BY <1>2 DEF LoadThrows, Loaded, Objs, Held, Known, Created, InLoops, Deleted
  <1>3. CASE PickDevice
    <2>1. CASE Fails("GPU")
      BY <1>3, <2>1, FailsObjs DEF Fails, PickDevice
    <2>2. CASE pc' = "device" /\ UNCHANGED <<at, ok, live, member>>
      BY <1>3, <2>2 DEF PickDevice, Objs, Held, Known, Created, InLoops, Deleted
    <2> QED BY <1>3, <2>1, <2>2 DEF PickDevice
  <1>4. CASE WaitIdle
    BY <1>4 DEF WaitIdle, Objs, Held, Known, Created, InLoops, Deleted
  <1> QED BY <1>1, <1>2, <1>3, <1>4, StepObjs, PipelineObjs, BufferLoopObjs, CosetObjs, DestroyObjs
          DEF Progress, ObjectStep

\* So does what the threads have it do.
LEMMA ObjsNext == ASSUME LInv, [JavaNext]_allVars PROVE Objs'
  <1> USE DEF LInv
  <1>1. CASE UNCHANGED <<pc, at, ok, live, member>>
    BY <1>1 DEF Objs, Held, Known, Created, InLoops, Deleted, WholeBuffer
  <1>2. CASE Progress
    BY <1>2, ProgressObjs
  <1>3. CASE New
    BY <1>3 DEF New, Objs, Held, Known, Created, InLoops, Deleted, creating, deleting, pcs,
       withDevice, hasPool, hasFence, hasLayout, hasKernels, hasReduce, hasBuffers
  <1>4. CASE Free
    BY <1>4, FailsObjs DEF Free
  <1>5. CASE ProcessEnds
    <2>1. pc = "idle" /\ live' = {} /\ UNCHANGED <<pc, at, ok, member>>
      BY <1>5, Zenon DEF ProcessEnds
    <2>2. member = {}
      BY <2>1 DEF Objs, Created
    <2>3. Held'
      BY <2>1, <2>2 DEF Held, Known
    <2> QED BY <2>1, <2>3 DEF Objs, Created, InLoops, Deleted, WholeBuffer
  <1> QED BY <1>1, <1>2, <1>3, <1>4, <1>5
    DEF JavaNext, LibraryStep, GpuProgress, GpuComplete, Invoke, Enter, InMonitor,
        Rejects, Exit, InitCalls, InitReturns, DeinitCalls, DeinitReturns, UseCalls, UseReturns,
        Use, vars, allVars

\* Only New and the search itself change the tables, and an exception.
LEMMA FilledNext == ASSUME LInv, [JavaNext]_allVars PROVE Filled'
  <1> USE DEF LInv
  <1>1. CASE UNCHANGED tableVars
    BY <1>1 DEF tableVars, Filled, TablesTypeOK, Searching, TablesOfOneFile
  <1>2. CASE LoadNext
    BY <1>2, LoadFilled
  <1>3. CASE ResizeThrows
    BY <1>3, ThrowFilled
  <1>4. CASE New
    BY <1>4, SearchFilled, NamesAre, TablesAssumption DEF New, Search
  <1>5. CASE ProcessEnds
    BY <1>5, SearchFilled, NamesAre, TablesAssumption DEF ProcessEnds, Closed
  <1> QED BY <1>1, <1>2, <1>3, <1>4, <1>5
    DEF JavaNext, LibraryStep, Progress, Load, LoadThrows, PickDevice, GpuProgress, setupVars,
        Invoke, Enter, InMonitor, Rejects, Exit, InitCalls, InitReturns, DeinitCalls,
        DeinitReturns, UseCalls, UseReturns, vars, allVars

\* Every step but one of the search leaves its file closed.
LEMMA ClosedNext == ASSUME LInv, [JavaNext]_allVars PROVE Closed'
  <1> USE DEF LInv, creating, deleting
  <1>1. CASE Load
    BY <1>1 DEF Load, Closed
  <1>2. CASE LoadThrows
    BY <1>2 DEF LoadThrows, ResizeThrows, Closed
  <1>3. CASE PickDevice
    <2>1. pc = "pick" /\ UNCHANGED file
      BY <1>3 DEF PickDevice, tableVars
    <2> QED BY <2>1 DEF Closed
  <1>4. CASE Progress /\ UNCHANGED setupVars
    <2>1. CASE Loaded
      BY <1>4, <2>1 DEF Loaded, setupVars, tableVars, Closed, Filled
    <2>2. CASE pc # "load"
      BY <1>4, <2>2 DEF Closed, setupVars, tableVars
    <2>3. ObjectStep /\ ~Loaded => pc # "load"
      BY DEF ObjectStep, CreateInstance, CreateDevice, CreateCommandPool, AllocateCommandBuffer,
         CreateFence, CreateLayout, Step, CreateModule, PipelineFails, CreatePipeline,
         CreateReducePipelines, CreateTableBuffer, CreateWorkBuffer, CreateBuffer,
         TableBuffersDone, WorkingSetDone, BuffersDone, SubmitCoset, CosetDone, CosetFails,
         WaitIdle, DestroyBuffers, DestroyPipelines, DestroyLayout, DestroyFence, DestroyPool,
         DestroyDevice, DestroyInstance
    <2> QED BY <1>1, <1>2, <1>3, <1>4, <2>1, <2>2, <2>3 DEF Progress
  <1>5. CASE New
    BY <1>5 DEF New, Search, Closed
  <1>6. CASE Free /\ UNCHANGED setupVars
    BY <1>6 DEF Free, setupVars, tableVars, Closed
  <1>7. CASE UNCHANGED <<file, pc>>
    BY <1>7 DEF Closed
  <1>8. LibraryStep => Closed'
    BY <1>1, <1>2, <1>3, <1>4, <1>7
    DEF LibraryStep, Progress, GpuProgress, GpuComplete, setupVars, tableVars
  <1>9. ASSUME NEW t \in Threads, Invoke(t) \/ Enter(t) \/ InMonitor(t) PROVE Closed'
    BY <1>5, <1>6, <1>7, <1>9
    DEF Invoke, Enter, InMonitor, Rejects, Exit, InitCalls, InitReturns, DeinitCalls,
        DeinitReturns, UseCalls, UseReturns, Use, vars, setupVars, tableVars
  <1> QED BY <1>7, <1>8, <1>9 DEF JavaNext, ProcessEnds, allVars, vars, setupVars, tableVars

\* The codes are those of vkzg.h; the device goes with the devices listed.
LEMMA OtherTypesNext == ASSUME LInv, [JavaNext]_allVars PROVE OtherTypes'
  <1> USE DEF LInv
  <1>1. CASE Progress
    <2>1. orphans' \in BOOLEAN /\ busy' \in BOOLEAN /\ unwaited' \in BOOLEAN
      BY <1>1 DEF OtherTypes, Progress, Load, LoadThrows, PickDevice, Fails, Delete, ObjectStep,
         Loaded, CreateInstance, CreateDevice, CreateCommandPool, AllocateCommandBuffer,
         CreateFence, CreateLayout, Step, Made, CreateModule, PipelineFails, CreatePipeline,
         CreateReducePipelines, CreateTableBuffer, CreateWorkBuffer, CreateBuffer,
         TableBuffersDone, WorkingSetDone, BuffersDone, SubmitCoset, CosetDone, CosetFails,
         WaitIdle, DestroyBuffers, DestroyPipelines, DestroyLayout, DestroyFence, DestroyPool,
         DestroyDevice, DestroyInstance, Destroy
    <2>2. rc' = rc \/ rc' \in Failures \cup {"OK"}
      BY <1>1, ProgressGoes DEF CreatingStep, DeletingStep
    <2>3. listing' \in Listings \cup {<<>>} /\ chosen' = Picked(listing')
      BY <1>1 DEF OtherTypes, Progress, Load, LoadThrows, PickDevice, setupVars
    <2> QED BY <2>1, <2>2, <2>3 DEF OtherTypes, Failures
  <1>2. CASE New
    BY <1>2 DEF New, OtherTypes
  <1>3. CASE (Free \/ Use \/ GpuComplete) /\ UNCHANGED setupVars
    BY <1>3 DEF Free, Delete, Use, GpuComplete, setupVars, OtherTypes
  <1>4. CASE ProcessEnds
    BY <1>4 DEF ProcessEnds, OtherTypes
  <1>5. CASE UNCHANGED vars
    BY <1>5 DEF vars, setupVars, OtherTypes
  <1> QED BY <1>1, <1>2, <1>3, <1>4, <1>5
    DEF JavaNext, LibraryStep, GpuProgress, Invoke, Enter, InMonitor, Rejects, Exit, InitCalls,
        InitReturns, DeinitCalls, DeinitReturns, UseCalls, UseReturns, allVars

\* The invariant holds throughout.
LEMMA LInvAlways == JavaSpec => []LInv
  <1>1. LInv /\ [JavaNext]_allVars => LInv'
    BY JInvNext, ObjsNext, FilledNext, ClosedNext, OtherTypesNext DEF LInv
  <1> QED BY <1>1, LInvInit, PTL DEF JavaSpec

-----------------------------------------------------------------------------
(* The device *)

Pick == [dev : Device \cup {NoDevice}, score : -1..3, family : Nat]

\* The first compute family of a device that has one.
LEMMA FirstFamily ==
  ASSUME NEW dev \in Device, ComputeFamilies(dev) # {}
  PROVE  Min(ComputeFamilies(dev)) \in ComputeFamilies(dev) \cap Nat
  <1> DEFINE C == ComputeFamilies(dev)
  <1>1. C \subseteq Nat
    <2>1. dev.compute \in Seq(BOOLEAN)
      BY DEF Device
    <2>2. DOMAIN dev.compute = 1..Len(dev.compute) /\ Len(dev.compute) \in Nat
      BY <2>1
    <2> QED BY <2>2 DEF ComputeFamilies
  <1>2. \E m \in C : \A n \in C : m <= n
    <2>1. C # {}
      OBVIOUS
    <2> HIDE DEF C
    <2> QED BY <1>1, <2>1, Least
  <1>3. Min(C) \in C
    <2> HIDE DEF C
    <2> QED BY <1>2 DEF Min
  <1> QED BY <1>1, <1>3

\* A turn of the loop leaves a device, or none.
LEMMA ConsideredIs ==
  ASSUME NEW b \in Pick, NEW dev \in Device
  PROVE  Considered(b, dev) \in Pick
  <1>1. Score(dev) \in 0..3
    BY DEF Score, Device
  <1>2. Suitable(dev) => Min(ComputeFamilies(dev)) \in Nat
    BY FirstFamily DEF Suitable
  <1> QED BY <1>1, <1>2 DEF Considered, Pick

\* The turns of the loop.
LEMMA BestSteps ==
  ASSUME NEW l \in Seq(Device)
  PROVE  /\ Best(l) \in [0..Len(l) -> Pick]
         /\ Best(l)[0] = NotPicked
         /\ \A i \in 1..Len(l) : Best(l)[i] = Considered(Best(l)[i - 1], l[i])
  <1> DEFINE n == Len(l)
             G == [x \in (1..n) \X Pick |-> Considered(x[2], l[x[1]])]
             Turn(f) == [i \in 0..n |-> IF i = 0 THEN NotPicked ELSE Considered(f[i - 1], l[i])]
  <1>1. n \in Nat /\ \A i \in 1..n : l[i] \in Device
    OBVIOUS
  <1>2. NotPicked \in Pick
    BY DEF NotPicked, Pick
  <1>3. G \in [(1..n) \X Pick -> Pick]
    <2>1. \A x \in (1..n) \X Pick : Considered(x[2], l[x[1]]) \in Pick
      <3> SUFFICES ASSUME NEW x \in (1..n) \X Pick PROVE Considered(x[2], l[x[1]]) \in Pick
        OBVIOUS
      <3>1. x[2] \in Pick /\ l[x[1]] \in Device
        BY <1>1
      <3> QED BY <3>1, ConsideredIs
    <2> QED BY <2>1
  <1>4. \A i \in 1..n, b \in Pick : G[<<i, b>>] = Considered(b, l[i])
    OBVIOUS
  <1> HIDE DEF n, G
  <1>5. PICK f \in [0..n -> Pick] : Follows(f, n, NotPicked, G)
    BY <1>1, <1>2, <1>3, Recursion
  <1>6. f = Turn(f)
    <2>1. ASSUME NEW i \in 0..n PROVE f[i] = IF i = 0 THEN NotPicked ELSE Considered(f[i - 1], l[i])
      <3>1. CASE i = 0
        BY <1>5, <3>1 DEF Follows
      <3>2. CASE i # 0
        <4>1. i \in 1..n /\ i - 1 \in 0..n
          BY <1>1, <3>2
        <4>2. f[i] = G[<<i, f[i - 1]>>] /\ f[i - 1] \in Pick
          BY <1>5, <4>1 DEF Follows
        <4> QED BY <1>4, <3>2, <4>1, <4>2
      <3> QED BY <3>1, <3>2
    <2> QED BY <2>1
  <1>7. Best(l) = CHOOSE g : g = Turn(g)
    BY DEF Best, n
  <1> DEFINE g == Best(l)
  <1>8. g = Turn(g)
    <2> HIDE DEF Turn
    <2> QED BY <1>6, <1>7
  <1>9. g[0] = NotPicked /\ \A i \in 1..n : g[i] = Considered(g[i - 1], l[i])
    <2> HIDE DEF g
    <2> QED BY <1>1, <1>8
  <1>10. GoesOnAs(g, f, n)
    <2> HIDE DEF g
    <2>1. f[0] = NotPicked /\ \A i \in 1..n : f[i] = Considered(f[i - 1], l[i])
      <3>1. \A i \in 1..n : i \in 0..n /\ i # 0
        BY <1>1
      <3>2. 0 \in 0..n
        BY <1>1
      <3> QED BY <1>6, <3>1, <3>2
    <2> QED BY <1>9, <2>1 DEF GoesOnAs
  <1>11. \A i \in 0..n : g[i] = f[i]
    <2> HIDE DEF g
    <2> QED BY <1>1, <1>10, Agree
  <1>12. DOMAIN g = 0..n /\ g = [i \in 0..n |-> g[i]]
    <2> HIDE DEF g
    <2> QED BY <1>8
  <1>13. g \in [0..n -> Pick]
    <2> HIDE DEF g
    <2> QED BY <1>11, <1>12
  <1> QED BY <1>9, <1>13 DEF g, n

\* The first k of the devices have been looked at: b is the first of the best type of
\* those that are suitable, with a family that computes, or there is none.
BestOf(b, l, k) ==
  \/ /\ b = NotPicked
     /\ \A j \in 1..k : ~Suitable(l[j])
  \/ \E i \in 1..k :
       /\ b.dev = l[i] /\ b.score = Score(l[i])
       /\ Suitable(l[i]) /\ l[i].compute[b.family]
       /\ \A j \in 1..k : Suitable(l[j]) =>
            Score(l[j]) < Score(l[i]) \/ (Score(l[j]) = Score(l[i]) /\ j >= i)

\* One more.
LEMMA BestOfNext ==
  ASSUME NEW l \in Seq(Device), NEW k \in Nat, k + 1 <= Len(l), NEW b \in Pick, BestOf(b, l, k)
  PROVE  BestOf(Considered(b, l[k + 1]), l, k + 1)
  <1> DEFINE dev == l[k + 1]
  <1>1. k + 1 \in 1..Len(l) /\ \A j \in 1..(k + 1) : l[j] \in Device
    OBVIOUS
  <1>2. \A j \in 1..(k + 1) : Score(l[j]) \in 0..3
    BY <1>1 DEF Score, Device
  <1>3. \A j \in 1..(k + 1) : j \in 1..k \/ j = k + 1
    OBVIOUS
  <1>4. CASE ~Suitable(dev)
    <2>1. Considered(b, dev) = b
      BY <1>4 DEF Considered
    <2> QED BY <1>3, <1>4, <2>1 DEF BestOf
  <1>5. CASE Suitable(dev) /\ ~Better(dev, b)
    <2>1. Considered(b, dev) = b
      BY <1>5 DEF Considered
    <2>2. b # NotPicked
      BY <1>2, <1>5 DEF Better, NotPicked
    <2>3. PICK i \in 1..k :
            /\ b.dev = l[i] /\ b.score = Score(l[i])
            /\ Suitable(l[i]) /\ l[i].compute[b.family]
            /\ \A j \in 1..k : Suitable(l[j]) =>
                 Score(l[j]) < Score(l[i]) \/ (Score(l[j]) = Score(l[i]) /\ j >= i)
      BY <2>2 DEF BestOf
    <2>4. Score(dev) <= Score(l[i])
      BY <1>2, <1>5, <2>3 DEF Better
    <2>5. \A j \in 1..(k + 1) : Suitable(l[j]) =>
            Score(l[j]) < Score(l[i]) \/ (Score(l[j]) = Score(l[i]) /\ j >= i)
      BY <1>2, <1>3, <2>3, <2>4
    <2> QED BY <2>1, <2>3, <2>5 DEF BestOf
  <1>6. CASE Suitable(dev) /\ Better(dev, b)
    <2> DEFINE c == Considered(b, dev)
    <2>1. c = [dev |-> dev, score |-> Score(dev), family |-> Min(ComputeFamilies(dev))]
      BY <1>6 DEF Considered
    <2>2. Min(ComputeFamilies(dev)) \in ComputeFamilies(dev)
      BY <1>1, <1>6, FirstFamily DEF Suitable
    <2>3. c.dev = dev /\ c.score = Score(dev) /\ dev.compute[c.family]
      BY <2>1, <2>2 DEF ComputeFamilies
    <2>4. ASSUME NEW j \in 1..k, Suitable(l[j]) PROVE Score(l[j]) < Score(dev)
      <3>1. b # NotPicked
        BY <2>4 DEF BestOf, NotPicked, NoDevice, Suitable, ComputeFamilies
      <3>2. PICK i \in 1..k : b.score = Score(l[i]) /\ Score(l[j]) <= Score(l[i])
        BY <1>2, <2>4, <3>1 DEF BestOf
      <3> QED BY <1>2, <1>6, <3>2 DEF Better
    <2>5. \A j \in 1..(k + 1) : Suitable(l[j]) =>
            Score(l[j]) < Score(dev) \/ (Score(l[j]) = Score(dev) /\ j >= k + 1)
      BY <1>3, <2>4
    <2> HIDE DEF c
    <2> QED BY <1>6, <2>3, <2>5 DEF BestOf, c
  <1> QED BY <1>4, <1>5, <1>6

\* What the loop ends with.
LEMMA PickedIsBest ==
  ASSUME NEW l \in Seq(Device) PROVE BestOf(Picked(l), l, Len(l))
  <1> DEFINE T == {k \in Nat : k <= Len(l) => BestOf(Best(l)[k], l, k)}
  <1>1. 0 \in T
    BY BestSteps DEF BestOf
  <1>2. ASSUME NEW k \in Nat, k \in T PROVE k + 1 \in T
    <2> SUFFICES ASSUME k + 1 <= Len(l) PROVE BestOf(Best(l)[k + 1], l, k + 1)
      OBVIOUS
    <2>1. k \in 0..Len(l) /\ k + 1 \in 1..Len(l) /\ (k + 1) - 1 = k
      OBVIOUS
    <2>2. Best(l)[k] \in Pick /\ Best(l)[k + 1] = Considered(Best(l)[k], l[k + 1])
      BY <2>1, BestSteps
    <2>3. BestOf(Best(l)[k], l, k)
      BY <1>2, <2>1
    <2> QED BY <2>2, <2>3, BestOfNext
  <1>3. Len(l) \in T
    <2> HIDE DEF T
    <2> QED BY <1>1, <1>2, Induction
  <1> QED BY <1>3 DEF Picked

\* There is a device from the moment one is picked.
Chosen == pc \notin {"idle", "load", "instance", "pick"} => chosen.dev # NoDevice

\* Without one the creation ends.
LEMMA ChosenNext == ASSUME LInv, Chosen, [JavaNext]_allVars PROVE Chosen'
  <1> USE DEF LInv
  <1> DEFINE early == {"idle", "load", "instance", "pick"}
  <1>1. CASE PickDevice
    <2>1. pc = "pick" /\ Own("device") \notin member
      <3>1. Own("device") # Instance
        BY DEF Own, Instance
      <3> QED BY <1>1, <3>1 DEF PickDevice, Objs, Created
    <2> QED BY <1>1, <2>1 DEF PickDevice, Fails, Delete, Chosen
  <1>2. CASE UNCHANGED chosen /\ pc \notin early
    BY <1>2 DEF Chosen
  <1>3. CASE UNCHANGED chosen /\ pc' \in early
    BY <1>3 DEF Chosen
  <1>4. CASE ObjectStep /\ UNCHANGED setupVars
    <2>1. CASE Loaded \/ CreateInstance
      <3>1. pc \in {"load", "instance"}
        BY <2>1 DEF Loaded, CreateInstance, Step
      <3>2. Own("device") \notin member
        <4>1. Own("device") # Instance
          BY DEF Own, Instance
        <4> QED BY <3>1, <4>1 DEF Objs, Created
      <3>3. pc' \in early
        BY <2>1, <3>2 DEF Loaded, CreateInstance, Step, Made, Fails, Delete
      <3> QED BY <1>3, <1>4, <3>3 DEF setupVars
    <2>2. CASE pc \notin early
      BY <1>2, <1>4, <2>2 DEF setupVars
    <2>3. ObjectStep /\ ~Loaded /\ ~CreateInstance => pc \notin early
      BY DEF ObjectStep, CreateDevice, CreateCommandPool, AllocateCommandBuffer,
         CreateFence, CreateLayout, Step, CreateModule, PipelineFails, CreatePipeline,
         CreateReducePipelines, CreateTableBuffer, CreateWorkBuffer, CreateBuffer,
         TableBuffersDone, WorkingSetDone, BuffersDone, SubmitCoset, CosetDone, CosetFails,
         WaitIdle, DestroyBuffers, DestroyPipelines, DestroyLayout, DestroyFence, DestroyPool,
         DestroyDevice, DestroyInstance
    <2> QED BY <1>4, <2>1, <2>2, <2>3
  <1>5. CASE New
    BY <1>5 DEF New, Chosen
  <1>6. CASE Load \/ LoadThrows
    BY <1>3, <1>6 DEF Load, LoadThrows
  <1>7. CASE UNCHANGED <<pc, chosen>>
    BY <1>7 DEF Chosen
  <1>8. CASE Free /\ UNCHANGED setupVars
    BY <1>2, <1>8 DEF Free, setupVars
  <1>9. LibraryStep => Chosen'
    BY <1>1, <1>4, <1>6, <1>7 DEF LibraryStep, Progress, GpuProgress, GpuComplete, setupVars
  <1>10. ASSUME NEW t \in Threads, Invoke(t) \/ Enter(t) \/ InMonitor(t) PROVE Chosen'
    BY <1>5, <1>7, <1>8, <1>10
    DEF Invoke, Enter, InMonitor, Rejects, Exit, InitCalls, InitReturns, DeinitCalls,
        DeinitReturns, UseCalls, UseReturns, Use, vars, setupVars
  <1> QED BY <1>7, <1>9, <1>10 DEF JavaNext, ProcessEnds, allVars, vars, setupVars

-----------------------------------------------------------------------------
(* What it says of the objects, the tables and the device *)

\* JavaTypeOK: in particular every member of the prover refers to what exists.
THEOREM LifeTypeCorrect == JavaSpec => []JavaTypeOK
  <1>1. LInv => JavaTypeOK
    <2> SUFFICES ASSUME LInv PROVE JavaTypeOK
      OBVIOUS
    <2>1. live \subseteq Objects /\ member \subseteq live
      BY DEF LInv, Objs, Held, Known
    <2>2. TypeOK
      BY <2>1 DEF LInv, Objs, InLoops, JInv, Life, Filled, OtherTypes, TypeOK
    <2> QED BY <2>2 DEF LInv, JInv, JavaTypes, Monitor, JavaTypeOK
  <1> QED BY <1>1, LInvAlways, PTL

\* ParentsOutliveChildren: nothing but a pipeline whose handle was dropped is left when
\* what it was made from is destroyed, from whatever point the creation was given up at
\* (~vkzg_prover; buildPipelines drops the handle of a pipeline made in vain).
THEOREM ChildrenGoFirst == JavaSpec => []ParentsOutliveChildren
  <1>1. LInv => ParentsOutliveChildren
    BY ParentsThere DEF LInv
  <1> QED BY <1>1, LInvAlways, PTL

\* NothingLeft: once there is no prover, all that may be left of what it was made of is
\* such a pipeline, whichever creations of objects and parts of buffers had failed, and
\* what `orphans` records: an instance without a device, the file of an exception.
THEOREM EverythingFreed == JavaSpec => []NothingLeft
  <1>1. LInv => NothingLeft
    <2> SUFFICES ASSUME LInv, pc = "idle" PROVE live \subseteq {Dropped} /\ file = NotOpen
      BY DEF NothingLeft
    <2>1. Known = {}
      BY DEF LInv, Objs, Held, Created
    <2> QED BY <2>1 DEF Known, LInv, Closed
  <1> QED BY <1>1, LInvAlways, PTL

\* HandedOutWhole: a prover that is handed out lacks nothing, though the loops over
\* its buffers go on past one that failed (createProver, allocateWorkingSet).
THEOREM ProverIsWhole == JavaSpec => []HandedOutWhole
  <1>1. LInv => HandedOutWhole
    <2> SUFFICES ASSUME LInv, out PROVE HandedOutWhole
      BY DEF HandedOutWhole
    <2>1. pc = "ready" /\ rc = "OK"
      BY DEF LInv, JInv, Life
    <2>2. {Own(kind) : kind \in {"device", "cmdPool", "fence", "layout"}} \subseteq member
      BY <2>1 DEF LInv, Objs, Created, withDevice, hasPool, hasFence, hasLayout, Device1
    <2>3. PsoObjects \subseteq member
      <3>1. \A k \in Range(Kernels) : Pso(k) \in member
        BY <2>1, LifecycleAssumption
        DEF LInv, Objs, Created, withDevice, hasPool, hasFence, hasLayout, hasKernels, Range
      <3>2. Pso("throughput") \in member /\ Pso("latency") \in member
        BY <2>1 DEF LInv, Objs, Created, withDevice, hasPool, hasFence, hasLayout, hasKernels,
           hasReduce
      <3> QED BY <3>1, <3>2 DEF PsoObjects
    <2>4. BufObjects \subseteq member
      <3> SUFFICES ASSUME NEW o \in BufObjects PROVE o \in member
        OBVIOUS
      <3>1. PICK part \in Parts, b \in Range(Buffers) : o = <<part, b>>
        BY PairIn DEF BufObjects
      <3>2. WholeBuffer(b)
        BY <2>1, BuffersInLists DEF LInv, Objs, Created, hasBuffers
      <3> QED BY <3>1, <3>2 DEF WholeBuffer
    <2> QED BY <2>1, <2>2, <2>3, <2>4 DEF HandedOutWhole
  <1> QED BY <1>1, LInvAlways, PTL

\* TablesOfOneFile: whatever files were given up half read before, the tables a prover
\* gets are all those of the file that was read to its end (precomputed_tables.cpp).
THEOREM TablesFromOneFile == JavaSpec => []TablesOfOneFile
  <1>1. LInv => TablesOfOneFile
    BY DEF LInv, Filled
  <1> QED BY <1>1, LInvAlways, PTL

\* OnBestDevice: the prover is on the first of the best type of the suitable devices
\* listed, with a queue family of that device that computes (pickPhysicalDevice).
THEOREM BestDeviceUsed == JavaSpec => []OnBestDevice
  <1>1. JavaInit => Chosen
    BY DEF JavaInit, Init, Chosen
  <1>2. LInv /\ Chosen => OnBestDevice
    <2> SUFFICES ASSUME LInv, Chosen, pc \notin {"idle", "load", "instance", "pick"}
                 PROVE  \E i \in DOMAIN listing :
                          /\ chosen.dev = listing[i] /\ Suitable(listing[i])
                          /\ listing[i].compute[chosen.family]
                          /\ \A j \in DOMAIN listing : Suitable(listing[j]) =>
                               \/ Score(listing[j]) < Score(listing[i])
                               \/ Score(listing[j]) = Score(listing[i]) /\ j >= i
      BY DEF OnBestDevice
    <2>1. listing \in Seq(Device) /\ chosen = Picked(listing)
      <3>1. <<>> \in Seq(Device)
        OBVIOUS
      <3>2. listing \in Listings \cup {<<>>} /\ chosen = Picked(listing)
        BY DEF LInv, OtherTypes
      <3>3. Listings \subseteq Seq(Device)
        BY LifecycleAssumption
      <3> QED BY <3>1, <3>2, <3>3
    <2>2. BestOf(chosen, listing, Len(listing)) /\ DOMAIN listing = 1..Len(listing)
      BY <2>1, PickedIsBest
    <2>3. chosen # NotPicked
      BY DEF Chosen, NotPicked
    <2> QED BY <2>2, <2>3 DEF BestOf
  <1>3. LInv /\ LInv' /\ Chosen /\ [JavaNext]_allVars => Chosen'
    BY ChosenNext
  <1> QED BY <1>1, <1>2, <1>3, LInvAlways, PTL DEF JavaSpec
=============================================================================
