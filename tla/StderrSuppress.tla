--------------------------- MODULE StderrSuppress ---------------------------
(***************************************************************************)
(* ScopedStderrSuppress (src/vkzg.cpp): while a thread that creates a      *)
(* prover enumerates the Vulkan devices, descriptor 2 of the whole process *)
(* is pointed at /dev/null and put back afterwards.                        *)
(*                                                                         *)
(* The descriptor table is shared by every thread of the process: several  *)
(* may be creating a prover of their own, and the rest of the application  *)
(* opens and closes files of its own meanwhile. The process has standard   *)
(* streams: descriptors 0 and 1 are open throughout and left out, and      *)
(* descriptor 2 starts as the stderr everyone expects.                     *)
(***************************************************************************)
EXTENDS Integers

CONSTANTS
  Creators,     \* threads that call vkzg_prover_new
  AppFiles,     \* the files the rest of the application opens and closes
  TopFd,        \* the highest descriptor the process may have
  NoFd          \* the -1 of a descriptor that was not obtained

STDERR == 2
Fds == STDERR..TopFd
Files == {"stderr", "null", "closed"} \cup AppFiles

ASSUME StderrAssumption ==
  /\ TopFd \in Nat /\ TopFd >= STDERR
  /\ NoFd \notin Fds
  /\ AppFiles \cap {"stderr", "null", "closed"} = {}

\* A definition whose name ends in _word is a variant of the one that follows
\* it, with a bug the code could have had; the specification never uses it.

VARIABLES
  fd,       \* what each descriptor of the process refers to
  appFd,    \* the descriptor of each of the application's own files
  pc,       \* where each creator is
  devnull,  \* the constructor's local
  saved,    \* the member
  overlap   \* history: two creators have suppressed stderr at once

vars == <<fd, appFd, pc, devnull, saved, overlap>>

pcs == {"out", "dup", "dup2", "close", "probing", "restore", "closeSaved"}

Init ==
  /\ fd = [d \in Fds |-> IF d = STDERR THEN "stderr" ELSE "closed"]
  /\ appFd = [f \in AppFiles |-> NoFd]
  /\ pc = [t \in Creators |-> "out"]
  /\ devnull = [t \in Creators |-> NoFd]
  /\ saved = [t \in Creators |-> NoFd]
  /\ overlap = FALSE

-----------------------------------------------------------------------------
(* System calls *)

FreeFds == {d \in Fds : fd[d] = "closed"}
IsLowestFree(d) == d \in FreeFds /\ \A e \in FreeFds : d <= e

\* dup2 closes what descriptor d was and never fails here.
Dup2(d, file) == fd' = [fd EXCEPT ![d] = file]
Close(d) == fd' = [fd EXCEPT ![d] = "closed"]

-----------------------------------------------------------------------------
(* The constructor *)

\* open("/dev/null") may fail, for want of a descriptor or of the file.
Open(t) ==
  /\ pc[t] = "out"
  /\ \/ \E d \in Fds : /\ IsLowestFree(d)
                       /\ fd' = [fd EXCEPT ![d] = "null"]
                       /\ devnull' = [devnull EXCEPT ![t] = d]
                       /\ pc' = [pc EXCEPT ![t] = "dup"]
     \/ pc' = [pc EXCEPT ![t] = "probing"] /\ UNCHANGED <<fd, devnull>>
  /\ overlap' = (overlap \/ \E u \in Creators : pc[u] # "out")
  /\ UNCHANGED <<appFd, saved>>

\* dup fails when no descriptor is free.
Dup(t) ==
  /\ pc[t] = "dup"
  /\ \/ \E d \in Fds : /\ IsLowestFree(d)
                       /\ fd' = [fd EXCEPT ![d] = fd[STDERR]]
                       /\ saved' = [saved EXCEPT ![t] = d]
     \/ FreeFds = {} /\ UNCHANGED <<fd, saved>>
  /\ pc' = [pc EXCEPT ![t] = "dup2"]
  /\ UNCHANGED <<appFd, devnull, overlap>>

Redirect_dropped(t) == UNCHANGED fd
Redirect(t) == IF saved[t] # NoFd THEN Dup2(STDERR, fd[devnull[t]]) ELSE UNCHANGED fd

RedirectStderr(t) ==
  /\ pc[t] = "dup2"
  /\ Redirect(t)
  /\ pc' = [pc EXCEPT ![t] = "close"]
  /\ UNCHANGED <<appFd, devnull, saved, overlap>>

ReleaseDevnull_dropped(t) == UNCHANGED fd
ReleaseDevnull(t) == Close(devnull[t])

CloseDevnull(t) ==
  /\ pc[t] = "close"
  /\ ReleaseDevnull(t)
  /\ pc' = [pc EXCEPT ![t] = "probing"]
  /\ UNCHANGED <<appFd, devnull, saved, overlap>>

-----------------------------------------------------------------------------
(* The destructor, once vkEnumeratePhysicalDevices has returned *)

\* The destructor has nothing to put back unless dup succeeded.
AfterProbe_unchecked(t) == "restore"
AfterProbe(t) == IF saved[t] = NoFd THEN "out" ELSE "restore"

Probed(t) ==
  /\ pc[t] = "probing"
  /\ pc' = [pc EXCEPT ![t] = AfterProbe(t)]
  /\ devnull' = [devnull EXCEPT ![t] = IF saved[t] = NoFd THEN NoFd ELSE @]
  /\ UNCHANGED <<fd, appFd, saved, overlap>>

PutBack_dropped(t) == UNCHANGED fd
PutBack(t) == Dup2(STDERR, fd[saved[t]])

Restore(t) ==
  /\ pc[t] = "restore"
  /\ PutBack(t)
  /\ pc' = [pc EXCEPT ![t] = "closeSaved"]
  /\ UNCHANGED <<appFd, devnull, saved, overlap>>

SavedFd_wrong(t) == devnull[t]
SavedFd(t) == saved[t]

CloseSaved(t) ==
  /\ pc[t] = "closeSaved"
  /\ Close(SavedFd(t))
  /\ pc' = [pc EXCEPT ![t] = "out"]
  /\ devnull' = [devnull EXCEPT ![t] = NoFd]
  /\ saved' = [saved EXCEPT ![t] = NoFd]
  /\ UNCHANGED <<appFd, overlap>>

-----------------------------------------------------------------------------
(* The rest of the process *)

AppOpen(f) ==
  /\ appFd[f] = NoFd
  /\ \E d \in Fds : /\ IsLowestFree(d)
                    /\ fd' = [fd EXCEPT ![d] = f]
                    /\ appFd' = [appFd EXCEPT ![f] = d]
  /\ UNCHANGED <<pc, devnull, saved, overlap>>

AppClose(f) ==
  /\ appFd[f] # NoFd
  /\ Close(appFd[f])
  /\ appFd' = [appFd EXCEPT ![f] = NoFd]
  /\ UNCHANGED <<pc, devnull, saved, overlap>>

-----------------------------------------------------------------------------

Next ==
  \/ \E t \in Creators :
       \/ Open(t) \/ Dup(t) \/ RedirectStderr(t) \/ CloseDevnull(t)
       \/ Probed(t) \/ Restore(t) \/ CloseSaved(t)
  \/ \E f \in AppFiles : AppOpen(f) \/ AppClose(f)

Spec == Init /\ [][Next]_vars

-----------------------------------------------------------------------------
(* Properties *)

\* In particular, no system call but open and dup is given a descriptor that was
\* not obtained.
TypeOK ==
  /\ fd \in [Fds -> Files]
  /\ appFd \in [AppFiles -> Fds \cup {NoFd}]
  /\ pc \in [Creators -> pcs]
  /\ devnull \in [Creators -> Fds \cup {NoFd}]
  /\ saved \in [Creators -> Fds \cup {NoFd}]
  /\ overlap \in BOOLEAN
  /\ \A t \in Creators :
       /\ pc[t] \in {"dup", "dup2", "close"} => devnull[t] # NoFd
       /\ pc[t] \in {"restore", "closeSaved"} => saved[t] # NoFd

AllOut == \A t \in Creators : pc[t] = "out"

\* "suppress fd 2 around just that call" (vkzg.cpp:43-45): when no thread is
\* between constructor and destructor, descriptor 2 is stderr again.
StderrRestored == AllOut => fd[STDERR] = "stderr"

\* It is, as long as creators never came to suppress at once: whichever system
\* call failed, and whatever the application opened or closed in between.
RestoredWhenAlone == ~overlap => StderrRestored

\* While a thread whose constructor got its descriptors enumerates, the driver's
\* messages go to /dev/null, as long as no other creator put stderr back.
MutedWhenAlone == ~overlap => \A t \in Creators :
  pc[t] = "probing" /\ saved[t] # NoFd => fd[STDERR] = "null"

\* Suppressing leaks no descriptor, whichever system call failed.
NoFdLeak == AllOut =>
  \A d \in Fds \ {STDERR} : fd[d] # "closed" => \E f \in AppFiles : appFd[f] = d

\* No descriptor the application opened is closed or replaced under it.
AppFilesKept == \A f \in AppFiles : appFd[f] # NoFd => fd[appFd[f]] = f
=============================================================================
