---------------------------- MODULE JavaBinding ----------------------------
(***************************************************************************)
(* The Java binding (bindings/java/src/main/java/vkzg/Vkzg.java) drives    *)
(* the life of one prover, proverHandle, from any number of threads: its   *)
(* methods are static and synchronized, and so is no other code of it.     *)
(*                                                                         *)
(* A method enters the monitor of the class, looks at the handle, calls    *)
(* the library, and leaves. What the library does meanwhile is Lifecycle.  *)
(***************************************************************************)
EXTENDS Lifecycle

CONSTANTS
  Threads,
  NoThread

ASSUME JavaAssumption == NoThread \notin Threads

\* deviceName and gpuCoreCount are "get"; the two batch methods are "batch".
Methods == {"init", "deinit", "batch", "get"}
Stages == {"outside", "waiting", "entered", "native", "leaving"}

\* A definition whose name ends in _word is a variant of the one that follows
\* it, with a bug the code could have had; the specification never uses it.

VARIABLES
  handle,   \* proverHandle is not null
  monitor,  \* the thread in the monitor
  method,   \* the method each thread called last
  stage     \* how far it is

javaVars == <<handle, monitor, method, stage>>
allVars == <<vars, javaVars>>

JavaInit ==
  /\ Init
  /\ handle = FALSE
  /\ monitor = NoThread
  /\ method = [t \in Threads |-> "get"]
  /\ stage = [t \in Threads |-> "outside"]

Goes(t, to) == stage' = [stage EXCEPT ![t] = to]

-----------------------------------------------------------------------------

Invoke(t) ==
  /\ stage[t] = "outside"
  /\ \E m \in Methods : method' = [method EXCEPT ![t] = m]
  /\ Goes(t, "waiting")
  /\ UNCHANGED <<vars, handle, monitor>>

\* A monitor can be entered again: init() calls init(0).
MonitorFree_butDeinit(t) == monitor \in {NoThread, t} \/ method[t] = "deinit"
MonitorFree(t) == monitor \in {NoThread, t}

Enter(t) ==
  /\ stage[t] = "waiting"
  /\ MonitorFree(t)
  /\ monitor' = t
  /\ Goes(t, "entered")
  /\ UNCHANGED <<vars, handle, method>>

\* "already initialized", or not yet; or an argument that does not fit, or no
\* memory to copy the arguments to.
Rejects(t) ==
  /\ stage[t] = "entered"
  /\ (method[t] = "init" <=> handle) \/ method[t] \in {"init", "batch"}
  /\ Goes(t, "leaving")
  /\ UNCHANGED <<vars, handle, monitor, method>>

\* However a synchronized method ends, it leaves the monitor.
Left_notThrown(t) == IF method[t] = "init" /\ ~handle THEN t ELSE NoThread
Left(t) == NoThread

Exit(t) ==
  /\ stage[t] = "leaving"
  /\ monitor' = Left(t)
  /\ Goes(t, "outside")
  /\ UNCHANGED <<vars, handle, method>>

-----------------------------------------------------------------------------
(* The calls of the library *)

Calls(t, m) == stage[t] = "entered" /\ method[t] = m /\ Goes(t, "native")
Returns(t, m) == stage[t] = "native" /\ method[t] = m /\ Goes(t, "leaving")

InitCalls(t) ==
  /\ Calls(t, "init")
  /\ ~handle
  /\ New
  /\ UNCHANGED <<handle, monitor, method>>

\* A code that is not 0 makes a VkzgException.
InitReturns(t) ==
  /\ Returns(t, "init")
  /\ pc \in {"idle", "ready"} /\ rc \notin {"none", "thrown"}
  /\ handle' = (rc = "OK")
  /\ UNCHANGED <<vars, monitor, method>>

\* An exception of the library's ends the process; another begins.
ProcessEnds ==
  /\ pc = "idle" /\ rc = "thrown"
  /\ rc' = "none" /\ orphans' = FALSE /\ live' = {}
  /\ path' = 1 /\ reading' = 0 /\ tables' = NoTables /\ found' = "none"
  /\ monitor' = NoThread
  /\ stage' = [t \in Threads |-> "outside"]
  /\ UNCHANGED <<pc, at, ok, member, out, busy, unwaited, file, listing, chosen, handle,
                 method>>

DeinitCalls(t) ==
  /\ Calls(t, "deinit")
  /\ handle
  /\ Free
  /\ UNCHANGED <<setupVars, handle, monitor, method>>

HandleAfterFree_kept == handle
HandleAfterFree == FALSE

DeinitReturns(t) ==
  /\ Returns(t, "deinit")
  /\ pc = "idle"
  /\ handle' = HandleAfterFree
  /\ UNCHANGED <<vars, monitor, method>>

\* A batch, or a look at what the prover knows of its device.
UseCalls(t) ==
  /\ \E m \in {"batch", "get"} : Calls(t, m)
  /\ handle
  /\ UNCHANGED <<vars, handle, monitor, method>>

\* A batch may return without having waited for the device.
UseReturns(t) ==
  /\ \/ Returns(t, "batch") /\ Use /\ UNCHANGED setupVars
     \/ \E m \in {"batch", "get"} : Returns(t, m) /\ UNCHANGED vars
  /\ UNCHANGED <<handle, monitor, method>>

-----------------------------------------------------------------------------

InMonitor(t) ==
  \/ Rejects(t) \/ Exit(t)
  \/ InitCalls(t) \/ InitReturns(t) \/ DeinitCalls(t) \/ DeinitReturns(t)
  \/ UseCalls(t) \/ UseReturns(t)

LibraryStep == (Progress \/ GpuProgress) /\ UNCHANGED javaVars

JavaNext ==
  \/ LibraryStep \/ ProcessEnds
  \/ \E t \in Threads : Invoke(t) \/ Enter(t) \/ InMonitor(t)

\* A thread that runs goes on, and so does the device: nothing is said of who gets
\* the monitor, or that anybody calls.
JavaSpec ==
  /\ JavaInit /\ [][JavaNext]_allVars
  /\ WF_allVars(Progress /\ UNCHANGED javaVars)
  /\ WF_allVars(GpuProgress /\ UNCHANGED javaVars)
  /\ WF_allVars(ProcessEnds)
  /\ \A t \in Threads : WF_allVars(InMonitor(t))

-----------------------------------------------------------------------------
(* Properties *)

JavaTypeOK ==
  /\ TypeOK
  /\ handle \in BOOLEAN
  /\ monitor \in Threads \cup {NoThread}
  /\ method \in [Threads -> Methods]
  /\ stage \in [Threads -> Stages]

\* Between methods the handle is that of the prover there is: none is lost by an
\* init that fails, by a second init or by a deinit, and none that is gone is kept
\* ("Safe to init() again afterwards").
HandleIsProver == monitor = NoThread => (handle <=> out) /\ pc \in {"idle", "ready"}

\* Whatever method a thread is in, the prover it was called on is there until it
\* returns.
UsedWhileAlive == \A t \in Threads :
  stage[t] = "native" /\ method[t] \in {"batch", "get"} => out /\ pc = "ready"

\* A thread that has entered the monitor leaves it: whatever fails in the library, and
\* while the device is busy with what a batch did not wait for.
MonitorReleased == \A t \in Threads : monitor = t ~> monitor # t
=============================================================================
