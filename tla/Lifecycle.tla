------------------------------ MODULE Lifecycle ------------------------------
(***************************************************************************)
(* The life of a vkzg_prover (src/vkzg.cpp, src/precomputed_tables.cpp):   *)
(* vkzg_prover_new loads the tables and makes one Vulkan object after the  *)
(* other, any of which may fail; on a failure the prover is deleted, as    *)
(* vkzg_prover_free deletes one that was made. Calls in between may return *)
(* while the device still executes what they submitted.                    *)
(*                                                                         *)
(* Tables has the loading, Devices the choice of the device.               *)
(*                                                                         *)
(* The kernels and the buffers are sequences as long as a run likes: all   *)
(* kernels are built alike, and so are all buffers of a kind.              *)
(***************************************************************************)
EXTENDS Tables, Devices, FiniteSets

CONSTANTS
  Kernels,       \* the kernels of buildPipelines but k_bucket_reduce
  TableBuffers,  \* the buffers createProver makes
  WorkBuffers,   \* the buffers allocateWorkingSet makes
  Listings       \* what vkEnumeratePhysicalDevices may list

ASSUME LifecycleAssumption ==
  /\ Kernels \in Seq(STRING) /\ TableBuffers \in Seq(STRING) /\ WorkBuffers \in Seq(STRING)
  /\ IsInjective(Kernels) /\ IsInjective(TableBuffers \o WorkBuffers)
  /\ Len(Kernels) > 0 /\ Len(TableBuffers) > 0 /\ Len(WorkBuffers) > 0
  /\ Listings \subseteq Seq(Device)

\* A definition whose name ends in _word is a variant of the one that follows
\* it, with a bug the code could have had; the specification never uses it.

VARIABLES
  pc,       \* where the thread is
  at,       \* the kernel or buffer it is at
  ok,       \* `ok` of the buffer loops
  live,     \* Vulkan objects that exist
  member,   \* those a member of the prover refers to
  orphans,  \* an instance or a file that nobody can free any more is left
  out,      \* *out is a prover
  rc,       \* what vkzg_prover_new returned, or is about to
  busy,     \* the device executes a submission
  unwaited, \* the deletion goes on after a wait for the device that failed
  listing,  \* the devices listed last
  chosen    \* that of the prover: its physDev and queueFamily

setupVars == <<tableVars, listing, chosen>>
vars == <<pc, at, ok, live, member, orphans, out, rc, busy, unwaited, setupVars>>

Buffers == TableBuffers \o WorkBuffers
\* An object is a kind and a name.
Own(kind) == <<kind, "">>
\* A pipeline that was made and whose handle is lost; one stands for all there are.
Dropped == Own("dropped")
Pso(k) == <<"pso", k>>
Parts == {"buf", "mem", "map"}
PsoObjects == {Pso(k) : k \in Range(Kernels)} \cup {Pso("throughput"), Pso("latency")}
BufObjects == Parts \X Range(Buffers)
Objects == {Own(kind) : kind \in {"instance", "device", "cmdPool", "fence", "layout",
                                   "module", "dropped"}}
             \cup PsoObjects \cup BufObjects

\* What must exist for o to exist, and be used.
Parent(o) == CASE o[1] \in {"instance", "device"} -> Own("instance")
               [] o[1] = "map" -> <<"mem", o[2]>>
               [] OTHER -> Own("device")

creating == {"load", "instance", "pick", "device", "cmdPool", "cmdBuf", "fence",
             "layout", "module", "pipeline", "reduceModule", "reduce", "table",
             "work", "cosetSubmit", "cosetWait"}
deleting == {"waitIdle", "buffers", "psos", "freeLayout", "freeFence",
             "freePool", "freeDevice", "freeInstance"}
pcs == {"idle", "ready"} \cup creating \cup deleting

Init ==
  /\ pc = "idle" /\ at = 1 /\ ok = TRUE
  /\ live = {} /\ member = {} /\ orphans = FALSE
  /\ out = FALSE /\ rc = "none" /\ busy = FALSE /\ unwaited = FALSE
  /\ TablesInit
  /\ listing = <<>> /\ chosen = Picked(<<>>)

-----------------------------------------------------------------------------
(* delete p *)

\* Without a device the destructor returns at once, whatever else was made.
Delete ==
  IF Own("device") \in member
  THEN /\ pc' = "waitIdle"
       /\ UNCHANGED <<member, live, orphans>>
  ELSE /\ pc' = "idle"
       /\ member' = {}
       /\ live' = live \ {Own("instance")}
       /\ orphans' = (orphans \/ Own("instance") \in live)

Fails(code) ==
  /\ rc' = code
  /\ Delete
  /\ UNCHANGED <<at, ok, out, busy, unwaited>>

WaitsFor_nothing == TRUE
WaitsFor == ~busy

\* vkDeviceWaitIdle returns once the device is idle, or fails: the code takes either
\* for the other.
WaitIdle ==
  /\ pc = "waitIdle"
  /\ (WaitsFor /\ UNCHANGED unwaited) \/ unwaited' = TRUE
  /\ pc' = "buffers"
  /\ UNCHANGED <<at, ok, live, member, orphans, out, rc, busy>>

Forgotten_none(objects) == {}
Forgotten(objects) == objects

\* What a device executes ends with it.
Destroy(objects, next) ==
  /\ live' = live \ (objects \cap member)
  /\ member' = member \ Forgotten(objects)
  /\ pc' = next
  /\ busy' = (busy /\ Own("device") \notin objects)
  /\ unwaited' = (unwaited /\ next # "idle")
  /\ UNCHANGED <<at, ok, orphans, out, rc>>

\* destroyBuffer looks at each handle of its own.
DestroyedBuffers_complete ==
  {o \in BufObjects : \A part \in Parts : <<part, o[2]>> \in member}
DestroyedBuffers == BufObjects

DestroyBuffers == pc = "buffers" /\ Destroy(DestroyedBuffers, "psos")
DestroyPipelines == pc = "psos" /\ Destroy(PsoObjects, "freeLayout")
DestroyLayout == pc = "freeLayout" /\ Destroy({Own("layout")}, "freeFence")
DestroyFence == pc = "freeFence" /\ Destroy({Own("fence")}, "freePool")
DestroyPool == pc = "freePool" /\ Destroy({Own("cmdPool")}, "freeDevice")
DestroyDevice == pc = "freeDevice" /\ Destroy({Own("device")}, "freeInstance")
DestroyInstance == pc = "freeInstance" /\ Destroy({Own("instance")}, "idle")

-----------------------------------------------------------------------------
(* vkzg_prover_new *)

New ==
  /\ pc = "idle" /\ ~out
  /\ pc' = "load"
  /\ rc' = "none"
  /\ ok' = TRUE /\ at' = 1
  /\ Search
  /\ listing' = <<>> /\ chosen' = Picked(<<>>)
  /\ UNCHANGED <<live, member, orphans, out, busy, unwaited>>

Load ==
  /\ pc = "load"
  /\ LoadNext
  /\ UNCHANGED <<pc, at, ok, live, member, orphans, out, rc, busy, unwaited, listing, chosen>>

Loaded ==
  /\ pc = "load" /\ found \in {"OK", "IO", "SETUP"}
  /\ IF found = "OK" THEN pc' = "instance" /\ UNCHANGED rc
     ELSE pc' = "idle" /\ rc' = found
  /\ UNCHANGED <<at, ok, live, member, orphans, out, busy, unwaited>>

\* vkzg_prover_new ends in an exception, and the file stays open.
LoadThrows ==
  /\ pc = "load"
  /\ ResizeThrows
  /\ pc' = "idle"
  /\ rc' = "thrown"
  /\ orphans' = TRUE
  /\ UNCHANGED <<at, ok, live, member, out, busy, unwaited, listing, chosen>>

\* One object is made and a member set to it.
Made(o, next) ==
  /\ live' = live \cup {o}
  /\ member' = member \cup {o}
  /\ pc' = next
  /\ UNCHANGED <<at, ok, orphans, out, rc, busy, unwaited>>

Step(here, kind, next) ==
  /\ pc = here
  /\ Made(Own(kind), next) \/ Fails("GPU")

CreateInstance == Step("instance", "instance", "pick")

PickDevice ==
  /\ pc = "pick"
  /\ listing' \in Listings
  /\ chosen' = Picked(listing')
  /\ IF chosen'.dev = NoDevice THEN Fails("GPU")
     ELSE pc' = "device" /\ UNCHANGED <<at, ok, live, member, orphans, out, rc, busy, unwaited>>
  /\ UNCHANGED tableVars

CreateDevice == Step("device", "device", "cmdPool")
CreateCommandPool == Step("cmdPool", "cmdPool", "cmdBuf")

\* The command buffer goes away with its pool.
AllocateCommandBuffer ==
  /\ pc = "cmdBuf"
  /\ \/ pc' = "fence" /\ UNCHANGED <<at, ok, live, member, orphans, out, rc, busy, unwaited>>
     \/ Fails("GPU")

CreateFence == Step("fence", "fence", "layout")
CreateLayout == Step("layout", "layout", "module")

\* The shader module is a local.
CreateModule ==
  /\ pc \in {"module", "reduceModule"}
  /\ \/ /\ live' = live \cup {Own("module")}
        /\ pc' = IF pc = "module" THEN "pipeline" ELSE "reduce"
        /\ UNCHANGED <<at, ok, member, orphans, out, rc, busy, unwaited>>
     \/ Fails("GPU")

ModuleFreed_kept(objects) == objects
ModuleFreed(objects) == objects \ {Own("module")}

\* A failed call for two pipelines may have made one of them, which no member gets to
\* refer to.
MadeInVain == IF pc = "reduce" THEN {{}, {Dropped}} ELSE {{}}

\* delete, once the local module is gone, comes as a step of its own.
PipelineFails ==
  /\ pc \in {"pipeline", "reduce"}
  /\ \E half \in MadeInVain : live' = ModuleFreed(live) \cup half
  /\ rc' = "GPU"
  /\ pc' = "waitIdle"
  /\ UNCHANGED <<at, ok, member, orphans, out, busy, unwaited>>

CreatePipeline ==
  /\ pc = "pipeline"
  /\ live' = ModuleFreed(live) \cup {Pso(Kernels[at])}
  /\ member' = member \cup {Pso(Kernels[at])}
  /\ IF at < Len(Kernels) THEN at' = at + 1 /\ pc' = "module"
     ELSE at' = 1 /\ pc' = "reduceModule"
  /\ UNCHANGED <<ok, orphans, out, rc, busy, unwaited>>

\* Both pipelines of k_bucket_reduce at once.
CreateReducePipelines ==
  LET both == {Pso("throughput"), Pso("latency")} IN
  /\ pc = "reduce"
  /\ live' = ModuleFreed(live) \cup both
  /\ member' = member \cup both
  /\ pc' = "table"
  /\ UNCHANGED <<at, ok, orphans, out, rc, busy, unwaited>>

-----------------------------------------------------------------------------
(* Buffers *)

\* What createBuffer leaves behind: vkCreateBuffer, the choice of a memory type
\* or vkAllocateMemory, vkBindBufferMemory or vkMapMemory failed, or none did.
Outcomes == {{}, {"buf"}, {"buf", "mem"}, Parts}

AndOk_last(parts) == parts = Parts
AndOk(parts) == ok /\ parts = Parts

\* A buffer that fails does not keep the next ones from being made.
CreateBuffer(here, list) ==
  /\ pc = here
  /\ at <= Len(list)
  /\ \E parts \in Outcomes :
       /\ live' = live \cup (parts \X {list[at]})
       /\ member' = member \cup (parts \X {list[at]})
       /\ ok' = AndOk(parts)
  /\ at' = at + 1
  /\ UNCHANGED <<pc, orphans, out, rc, busy, unwaited>>

CreateTableBuffer == CreateBuffer("table", TableBuffers)
CreateWorkBuffer == CreateBuffer("work", WorkBuffers)

BuffersDone(here, list, next) ==
  /\ pc = here
  /\ at > Len(list)
  /\ at' = 1
  /\ IF ok THEN pc' = next /\ UNCHANGED rc ELSE pc' = "waitIdle" /\ rc' = "MALLOC"
  /\ UNCHANGED <<ok, live, member, orphans, out, busy, unwaited>>

TableBuffersDone == BuffersDone("table", TableBuffers, "work")
WorkingSetDone == BuffersDone("work", WorkBuffers, "cosetSubmit")

-----------------------------------------------------------------------------

\* populateCosetShiftTables submits, and waits for, the kernels that fill the
\* tables of the coset.
SubmitCoset ==
  /\ pc = "cosetSubmit"
  /\ \/ /\ busy' = TRUE
        /\ pc' = "cosetWait"
        /\ UNCHANGED <<at, ok, live, member, orphans, out, rc, unwaited>>
     \/ Fails("GPU")

CosetDone ==
  /\ pc = "cosetWait"
  /\ ~busy
  /\ out' = TRUE
  /\ rc' = "OK"
  /\ pc' = "ready"
  /\ UNCHANGED <<at, ok, live, member, orphans, busy, unwaited>>

\* vkWaitForFences fails, the device being busy or not.
CosetFails == pc = "cosetWait" /\ Fails("GPU")

\* A call on the prover that returns without having waited (Prover.tla, "wait").
Use ==
  /\ pc = "ready"
  /\ busy' = TRUE
  /\ UNCHANGED <<pc, at, ok, live, member, orphans, out, rc, unwaited>>

GpuComplete ==
  /\ busy
  /\ busy' = FALSE
  /\ UNCHANGED <<pc, at, ok, live, member, orphans, out, rc, unwaited>>

\* vkzg_prover_free; the caller uses the handle no more.
Free ==
  /\ pc = "ready"
  /\ out' = FALSE
  /\ Delete
  /\ UNCHANGED <<at, ok, rc, busy, unwaited>>

\* The steps on the prover's objects, once its device is chosen.
ObjectStep ==
  \/ Loaded \/ CreateInstance \/ CreateDevice
  \/ CreateCommandPool \/ AllocateCommandBuffer \/ CreateFence \/ CreateLayout
  \/ CreateModule \/ PipelineFails \/ CreatePipeline \/ CreateReducePipelines
  \/ CreateTableBuffer \/ CreateWorkBuffer \/ TableBuffersDone \/ WorkingSetDone
  \/ SubmitCoset \/ CosetDone \/ CosetFails
  \/ WaitIdle \/ DestroyBuffers \/ DestroyPipelines \/ DestroyLayout
  \/ DestroyFence \/ DestroyPool \/ DestroyDevice \/ DestroyInstance

\* What the library does by itself, inside a call or on the device.
Progress == Load \/ LoadThrows \/ PickDevice \/ (ObjectStep /\ UNCHANGED setupVars)
GpuProgress == GpuComplete /\ UNCHANGED setupVars

Next ==
  \/ Progress \/ GpuProgress
  \/ New
  \/ (Use \/ Free) /\ UNCHANGED setupVars

Spec == Init /\ [][Next]_vars

-----------------------------------------------------------------------------
(* Properties *)

TypeOK ==
  /\ pc \in pcs
  /\ at \in Nat
  /\ ok \in BOOLEAN
  /\ live \subseteq Objects
  /\ member \subseteq live
  /\ orphans \in BOOLEAN
  /\ out \in BOOLEAN
  /\ rc \in {"none", "OK", "IO", "SETUP", "GPU", "MALLOC", "thrown"}
  /\ busy \in BOOLEAN
  /\ unwaited \in BOOLEAN
  /\ TablesTypeOK
  /\ listing \in Listings \cup {<<>>}
  /\ chosen = Picked(listing)

\* No object outlives the one it was made from: the destructor destroys in the
\* order Vulkan asks for, from whatever point the creation was given up at. The one
\* exception is a pipeline of which the handle is lost (line 581): the destructor does
\* not know of it, and destroys its device under it.
ParentsOutliveChildren == \A o \in live \ {Dropped} : Parent(o) \in live

\* Once the caller has no prover, nothing is left of it, wherever the creation
\* stopped and whichever parts of whichever buffers had been made. The exceptions
\* are such a pipeline, of a call for both of k_bucket_reduce that failed having made
\* one; the instance of a creation that got no device: the destructor returns before
\* it comes to it (line 350); and the file an exception leaves open. `orphans` is all
\* that records the last two here.
NothingLeft == pc = "idle" /\ ~out => live \subseteq {Dropped} /\ file = NotOpen

\* Nothing the device is executing with is destroyed, unless the destructor's wait for
\* the device has failed: it does not look (line 351), and goes on.
BusyKeepsObjects == [][busy /\ ~unwaited => live \subseteq live']_vars

\* A prover that is handed out is whole: every pipeline is there and every buffer
\* is allocated, bound and mapped, even though a failed one did not stop the rest.
HandedOutWhole == out =>
  /\ rc = "OK"
  /\ PsoObjects \cup BufObjects
       \cup {Own(kind) : kind \in {"device", "cmdPool", "fence", "layout"}} \subseteq member

\* The prover is on a device that has what the kernels need and a queue family that
\* computes, and of all those listed on the first of the best type.
OnBestDevice == pc \notin {"idle", "load", "instance", "pick"} =>
  \E i \in DOMAIN listing :
    /\ chosen.dev = listing[i] /\ Suitable(listing[i]) /\ listing[i].compute[chosen.family]
    /\ \A j \in DOMAIN listing : Suitable(listing[j]) =>
         \/ Score(listing[j]) < Score(listing[i])
         \/ Score(listing[j]) = Score(listing[i]) /\ j >= i
=============================================================================
