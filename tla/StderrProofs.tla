---------------------------- MODULE StderrProofs ----------------------------
(***************************************************************************)
(* Proofs about StderrSuppress, for any number of creators, of files of    *)
(* the application and of descriptors.                                     *)
(*                                                                         *)
(* Every descriptor but 2 that is open belongs to one file of the          *)
(* application or to one creator, who holds it as devnull or as saved; so  *)
(* nobody closes or overwrites what is another's. That needs no assumption *)
(* on how creators overlap; what descriptor 2 is does.                     *)
(***************************************************************************)
EXTENDS StderrSuppress, TLAPS

Streams == {"stderr", "null"}

\* devnull is open, not only a value the constructor has left behind.
HoldsNull(t) == pc[t] \in {"dup", "dup2", "close"}
HoldsSaved(t) == saved[t] # NoFd

\* What the descriptors in use refer to. Descriptor 2 is never closed.
Contents ==
  /\ fd[STDERR] \in Streams
  /\ \A t \in Creators : HoldsNull(t) => /\ devnull[t] \in Fds \ {STDERR}
                                         /\ fd[devnull[t]] = "null"
  /\ \A t \in Creators : HoldsSaved(t) => /\ saved[t] \in Fds \ {STDERR}
                                          /\ fd[saved[t]] \in Streams
  /\ \A t \in Creators : pc[t] \in {"out", "dup"} => ~HoldsSaved(t)
  /\ AppFilesKept

\* No descriptor has two holders.
Disjoint ==
  /\ \A t, u \in Creators : t # u /\ HoldsNull(t) /\ HoldsNull(u) => devnull[t] # devnull[u]
  /\ \A t, u \in Creators : t # u /\ HoldsSaved(t) => saved[t] # saved[u]
  /\ \A t, u \in Creators : HoldsNull(t) /\ HoldsSaved(u) => devnull[t] # saved[u]

\* Every open descriptor but 2 has one.
Held == \A d \in Fds \ {STDERR} : fd[d] # "closed" =>
  \/ \E f \in AppFiles : appFd[f] = d
  \/ \E t \in Creators : HoldsNull(t) /\ devnull[t] = d
  \/ \E t \in Creators : saved[t] = d

\* While no two creators have ever been inside at once, descriptor 2 is what the one
\* inside has made of it, and saved is stderr.
OneInside ==
  /\ \A t, u \in Creators : pc[t] # "out" /\ pc[u] # "out" => t = u
  /\ StderrRestored
  /\ \A t \in Creators :
       /\ HoldsSaved(t) => fd[saved[t]] = "stderr"
       /\ pc[t] \in {"close", "probing", "restore"} /\ HoldsSaved(t) => fd[STDERR] = "null"
       /\ pc[t] \in {"dup", "dup2", "closeSaved"} \/ (pc[t] # "out" /\ ~HoldsSaved(t))
            => fd[STDERR] = "stderr"

Alone == ~overlap => OneInside

Owned == TypeOK /\ Contents /\ Disjoint /\ Held
IInv == Owned /\ Alone

-----------------------------------------------------------------------------

\* A process starts with stderr on descriptor 2 and no creator inside.
LEMMA IInvInit == Init => IInv
  <1> SUFFICES ASSUME Init PROVE IInv
    OBVIOUS
  <1> USE StderrAssumption
  <1>1. TypeOK
    BY DEF Init, TypeOK, Fds, Files, STDERR, pcs
  <1>2. Contents /\ Disjoint /\ Held
    BY DEF Init, Contents, Disjoint, Held, HoldsNull, HoldsSaved, AppFilesKept, Streams,
       Fds, STDERR
  <1>3. Alone
    BY DEF Init, Alone, OneInside, StderrRestored, HoldsSaved, Fds, STDERR
  <1> QED BY <1>1, <1>2, <1>3 DEF IInv, Owned

\* A descriptor that is free is nobody's.
LEMMA FreeIsNobodys ==
  ASSUME Owned, NEW d \in Fds, IsLowestFree(d)
  PROVE  /\ d # STDERR /\ fd[d] = "closed" /\ d # NoFd
         /\ \A f \in AppFiles : appFd[f] # d
         /\ \A t \in Creators : /\ HoldsNull(t) => devnull[t] # d
                                /\ saved[t] # d
  <1> USE StderrAssumption
  <1>1. fd[d] = "closed"
    BY DEF IsLowestFree, FreeFds
  <1>2. d # STDERR /\ d # NoFd
    BY <1>1 DEF Owned, Contents, Streams
  <1> QED BY <1>1, <1>2 DEF Owned, Contents, AppFilesKept, Streams, HoldsSaved, Files

\* STDERR is a descriptor.
LEMMA StderrIsFd == STDERR \in Fds
  BY StderrAssumption DEF Fds, STDERR

-----------------------------------------------------------------------------
(* Ownership is inductive *)

\* A constructor that begins takes a free descriptor for /dev/null, or none.
LEMMA OpenKeeps == ASSUME Owned, NEW t \in Creators, Open(t) PROVE Owned'
  <1> USE StderrAssumption, StderrIsFd
  <1> USE DEF Owned
  <1>1. CASE UNCHANGED <<fd, devnull>>
    <2>1. pc' = [pc EXCEPT ![t] = "probing"] \/ pc' = [pc EXCEPT ![t] = "dup"]
      BY DEF Open
    <2>2. pc[t] = "out" /\ UNCHANGED <<appFd, saved>> /\ overlap' \in BOOLEAN
      BY DEF Open, TypeOK
    <2>3. CASE pc' = [pc EXCEPT ![t] = "probing"]
      <3>1. TypeOK'
        BY <1>1, <2>2, <2>3 DEF TypeOK, pcs
      <3>2. \A u \in Creators : HoldsNull(u)' <=> HoldsNull(u)
        BY <2>2, <2>3 DEF TypeOK, HoldsNull
      <3>3. Contents' /\ Disjoint' /\ Held'
        BY <1>1, <2>2, <2>3, <3>2 DEF TypeOK, Contents, Disjoint, Held, HoldsSaved, AppFilesKept
      <3> QED BY <3>1, <3>3
    <2>4. CASE pc' = [pc EXCEPT ![t] = "dup"]
      <3>1. PICK d \in Fds : IsLowestFree(d) /\ fd' = [fd EXCEPT ![d] = "null"]
        BY <2>2, <2>4 DEF Open, TypeOK
      <3>2. fd[d] = "closed" /\ fd'[d] = "null"
        BY <3>1, FreeIsNobodys DEF TypeOK
      <3> QED BY <1>1, <3>2
    <2> QED BY <2>1, <2>3, <2>4
  <1>2. CASE \E d \in Fds : /\ IsLowestFree(d)
                            /\ fd' = [fd EXCEPT ![d] = "null"]
                            /\ devnull' = [devnull EXCEPT ![t] = d]
                            /\ pc' = [pc EXCEPT ![t] = "dup"]
    <2>1. PICK d \in Fds : /\ IsLowestFree(d)
                           /\ fd' = [fd EXCEPT ![d] = "null"]
                           /\ devnull' = [devnull EXCEPT ![t] = d]
                           /\ pc' = [pc EXCEPT ![t] = "dup"]
      BY <1>2
    <2>2. pc[t] = "out" /\ UNCHANGED <<appFd, saved>> /\ overlap' \in BOOLEAN
      BY DEF Open, TypeOK
    <2>3. /\ d # STDERR /\ fd[d] = "closed" /\ d # NoFd
          /\ \A f \in AppFiles : appFd[f] # d
          /\ \A u \in Creators : (HoldsNull(u) => devnull[u] # d) /\ saved[u] # d
      BY <2>1, FreeIsNobodys
    <2>4. /\ fd'[d] = "null" /\ \A e \in Fds : e # d => fd'[e] = fd[e]
          /\ devnull'[t] = d /\ \A u \in Creators : u # t => devnull'[u] = devnull[u]
          /\ HoldsNull(t)' /\ ~HoldsSaved(t)
          /\ \A u \in Creators : u # t => (HoldsNull(u)' <=> HoldsNull(u))
      BY <2>1, <2>2 DEF TypeOK, HoldsNull, Contents
    <2>5. TypeOK'
      BY <2>1, <2>2, <2>3, <2>4 DEF TypeOK, Files, pcs
    <2>6. Contents'
      BY <2>1, <2>2, <2>3, <2>4 DEF TypeOK, Contents, HoldsSaved, AppFilesKept, Streams
    <2>7. Disjoint'
      <3>1. ASSUME NEW u \in Creators, NEW v \in Creators, u # v, HoldsNull(u)', HoldsNull(v)'
            PROVE  devnull'[u] # devnull'[v]
        BY <2>3, <2>4, <3>1 DEF Disjoint
      <3>2. ASSUME NEW u \in Creators, NEW v \in Creators, HoldsNull(u)', HoldsSaved(v)'
            PROVE  devnull'[u] # saved'[v]
        BY <2>2, <2>3, <2>4, <3>2 DEF Disjoint, HoldsSaved
      <3> QED BY <2>2, <3>1, <3>2 DEF Disjoint, HoldsSaved
    <2>8. Held'
      <3>1. ~HoldsNull(t)
        BY <2>2 DEF HoldsNull
      <3>2. SUFFICES ASSUME NEW e \in Fds \ {STDERR}, fd'[e] # "closed", e # d
                     PROVE  \/ \E f \in AppFiles : appFd[f] = e
                            \/ \E u \in Creators : HoldsNull(u)' /\ devnull'[u] = e
                            \/ \E u \in Creators : saved[u] = e
        BY <2>2, <2>4 DEF Held
      <3>3. fd[e] # "closed"
        BY <2>4, <3>2
      <3> QED BY <2>4, <3>1, <3>3 DEF Held
    <2> QED BY <2>5, <2>6, <2>7, <2>8
  <1> QED BY <1>1, <1>2 DEF Open

\* What dup saves descriptor 2 to was free.
LEMMA DupKeeps == ASSUME Owned, NEW t \in Creators, Dup(t) PROVE Owned'
  <1> USE StderrAssumption, StderrIsFd
  <1> USE DEF Owned
  <1>1. /\ pc[t] = "dup" /\ pc' = [pc EXCEPT ![t] = "dup2"]
        /\ UNCHANGED <<appFd, devnull, overlap>>
    BY DEF Dup
  <1>2. /\ \A u \in Creators : HoldsNull(u)' <=> HoldsNull(u)
        /\ pc' \in [Creators -> pcs] /\ pc'[t] = "dup2"
        /\ \A u \in Creators : u # t => pc'[u] = pc[u]
        /\ HoldsNull(t) /\ ~HoldsSaved(t)
    BY <1>1 DEF TypeOK, HoldsNull, pcs, Contents
  <1>3. CASE UNCHANGED <<fd, saved>>
    <2>1. TypeOK'
      BY <1>1, <1>2, <1>3 DEF TypeOK
    <2>2. Contents' /\ Disjoint' /\ Held'
      BY <1>1, <1>2, <1>3 DEF Contents, Disjoint, Held, HoldsSaved, AppFilesKept
    <2> QED BY <2>1, <2>2
  <1>4. CASE \E d \in Fds : /\ IsLowestFree(d)
                            /\ fd' = [fd EXCEPT ![d] = fd[STDERR]]
                            /\ saved' = [saved EXCEPT ![t] = d]
    <2>1. PICK d \in Fds : /\ IsLowestFree(d)
                           /\ fd' = [fd EXCEPT ![d] = fd[STDERR]]
                           /\ saved' = [saved EXCEPT ![t] = d]
      BY <1>4
    <2>2. /\ d # STDERR /\ fd[d] = "closed" /\ d # NoFd
          /\ \A f \in AppFiles : appFd[f] # d
          /\ \A u \in Creators : (HoldsNull(u) => devnull[u] # d) /\ saved[u] # d
      BY <2>1, FreeIsNobodys
    <2>3. /\ fd'[d] = fd[STDERR] /\ \A e \in Fds : e # d => fd'[e] = fd[e]
          /\ saved'[t] = d /\ \A u \in Creators : u # t => saved'[u] = saved[u]
          /\ HoldsSaved(t)'
          /\ \A u \in Creators : u # t => (HoldsSaved(u)' <=> HoldsSaved(u))
      BY <2>1, <2>2 DEF TypeOK, HoldsSaved
    <2>4. TypeOK'
      BY <1>1, <1>2, <2>1, <2>2, <2>3 DEF TypeOK
    <2>5. Contents'
      <3>1. fd'[STDERR] \in Streams /\ AppFilesKept'
        BY <1>1, <2>2, <2>3 DEF Contents, AppFilesKept, TypeOK
      <3>2. ASSUME NEW u \in Creators, HoldsNull(u)'
            PROVE  devnull'[u] \in Fds \ {STDERR} /\ fd'[devnull'[u]] = "null"
        BY <1>1, <1>2, <2>2, <2>3, <3>2 DEF Contents
      <3>3. ASSUME NEW u \in Creators, HoldsSaved(u)'
            PROVE  saved'[u] \in Fds \ {STDERR} /\ fd'[saved'[u]] \in Streams
        BY <2>2, <2>3, <3>3 DEF Contents
      <3>4. ASSUME NEW u \in Creators, pc'[u] \in {"out", "dup"}
            PROVE  ~HoldsSaved(u)'
        BY <1>2, <2>3, <3>4 DEF Contents
      <3> QED BY <3>1, <3>2, <3>3, <3>4 DEF Contents
    <2>6. Disjoint'
      <3>1. ASSUME NEW u \in Creators, NEW v \in Creators, u # v, HoldsSaved(u)'
            PROVE  saved'[u] # saved'[v]
        BY <2>2, <2>3, <3>1 DEF Disjoint
      <3>2. ASSUME NEW u \in Creators, NEW v \in Creators, HoldsNull(u)', HoldsSaved(v)'
            PROVE  devnull'[u] # saved'[v]
        BY <1>1, <1>2, <2>2, <2>3, <3>2 DEF Disjoint
      <3> QED BY <1>1, <1>2, <3>1, <3>2 DEF Disjoint
    <2>7. Held'
      <3>1. SUFFICES ASSUME NEW e \in Fds \ {STDERR}, fd'[e] # "closed", e # d
                     PROVE  \/ \E f \in AppFiles : appFd'[f] = e
                            \/ \E u \in Creators : HoldsNull(u)' /\ devnull'[u] = e
                            \/ \E u \in Creators : saved'[u] = e
        BY <2>3 DEF Held
      <3>2. fd[e] # "closed" /\ e # NoFd
        BY <2>3, <3>1
      <3>3. saved[t] # e
        BY <1>2, <3>2 DEF HoldsSaved
      <3> QED BY <1>1, <1>2, <2>3, <3>2, <3>3 DEF Held
    <2> QED BY <2>4, <2>5, <2>6, <2>7
  <1> QED BY <1>3, <1>4 DEF Dup

\* Descriptor 2 becomes another stream, and a thread moves on: nobody's descriptor
\* is concerned.
LEMMA Dup2Keeps ==
  ASSUME Owned, NEW t \in Creators, NEW file \in Streams,
         fd' = [fd EXCEPT ![STDERR] = file] \/ UNCHANGED fd,
         UNCHANGED <<appFd, devnull, saved, overlap>>,
         NEW p \in pcs, pc' = [pc EXCEPT ![t] = p],
         p \in {"dup", "dup2", "close"} <=> HoldsNull(t),
         p \notin {"out", "dup"}, p \in {"restore", "closeSaved"} => HoldsSaved(t)
  PROVE  Owned'
  <1> USE StderrAssumption, StderrIsFd
  <1> USE DEF Owned
  <1>1. /\ fd' \in [Fds -> Files] /\ fd'[STDERR] \in Streams
        /\ \A e \in Fds : e # STDERR => fd'[e] = fd[e]
    BY DEF TypeOK, Files, Streams, Contents
  <1>2. /\ pc' \in [Creators -> pcs] /\ pc'[t] = p
        /\ \A u \in Creators : u # t => pc'[u] = pc[u]
        /\ \A u \in Creators : HoldsNull(u)' <=> HoldsNull(u)
        /\ \A u \in Creators : HoldsSaved(u)' <=> HoldsSaved(u)
    BY DEF TypeOK, HoldsNull, HoldsSaved
  <1>3. \A f \in AppFiles : appFd[f] # NoFd => appFd[f] \in Fds \ {STDERR}
    BY DEF TypeOK, Contents, AppFilesKept, Streams
  <1>4. TypeOK'
    <2>1. ASSUME NEW u \in Creators
          PROVE  /\ pc'[u] \in {"dup", "dup2", "close"} => devnull'[u] # NoFd
                 /\ pc'[u] \in {"restore", "closeSaved"} => saved'[u] # NoFd
      BY <1>2 DEF TypeOK, HoldsNull, HoldsSaved
    <2> QED BY <1>1, <1>2, <2>1 DEF TypeOK
  <1>5. Contents'
    BY <1>1, <1>2, <1>3 DEF Contents, AppFilesKept
  <1>6. Disjoint' /\ Held'
    BY <1>1, <1>2 DEF Disjoint, Held
  <1> QED BY <1>4, <1>5, <1>6

\* Both calls of dup2 replace descriptor 2 and no other.
LEMMA RedirectAndRestoreKeep ==
  ASSUME Owned, NEW t \in Creators, RedirectStderr(t) \/ Restore(t) PROVE Owned'
  <1>1. CASE RedirectStderr(t)
    <2>1. HoldsNull(t) /\ fd[devnull[t]] \in Streams
      BY <1>1 DEF RedirectStderr, HoldsNull, Owned, Contents, Streams
    <2> QED BY <1>1, <2>1, Dup2Keeps DEF RedirectStderr, Redirect, Dup2, pcs
  <1>2. CASE Restore(t)
    <2>1. HoldsSaved(t) /\ fd[saved[t]] \in Streams /\ ~HoldsNull(t)
      BY <1>2 DEF Restore, HoldsSaved, HoldsNull, Owned, Contents, TypeOK
    <2> QED BY <1>2, <2>1, Dup2Keeps DEF Restore, PutBack, Dup2, pcs
  <1> QED BY <1>1, <1>2

\* The destructor of a creator with nothing saved has nothing to give back.
LEMMA ProbedKeeps == ASSUME Owned, NEW t \in Creators, Probed(t) PROVE Owned'
  <1> USE StderrAssumption DEF Owned
  <1>1. /\ pc[t] = "probing" /\ UNCHANGED <<fd, appFd, saved, overlap>>
        /\ pc' \in [Creators -> pcs] /\ pc'[t] = AfterProbe(t)
        /\ \A u \in Creators : u # t => pc'[u] = pc[u] /\ devnull'[u] = devnull[u]
        /\ devnull' \in [Creators -> Fds \cup {NoFd}]
    BY DEF Probed, TypeOK, AfterProbe, pcs
  <1>2. \A u \in Creators : HoldsNull(u)' <=> HoldsNull(u)
    BY <1>1 DEF HoldsNull, AfterProbe
  <1>3. ~HoldsNull(t) /\ (pc'[t] = "out" => ~HoldsSaved(t)) /\ pc'[t] # "dup"
        /\ (pc'[t] = "restore" => HoldsSaved(t)) /\ pc'[t] \in {"out", "restore"}
    BY <1>1 DEF HoldsNull, HoldsSaved, AfterProbe
  <1>4. \A u \in Creators : HoldsSaved(u)' <=> HoldsSaved(u)
    BY <1>1 DEF HoldsSaved
  <1>5. TypeOK'
    <2>1. ASSUME NEW u \in Creators
          PROVE  /\ pc'[u] \in {"dup", "dup2", "close"} => devnull'[u] # NoFd
                 /\ pc'[u] \in {"restore", "closeSaved"} => saved'[u] # NoFd
      BY <1>1, <1>3 DEF TypeOK, HoldsSaved
    <2> QED BY <1>1, <2>1 DEF TypeOK
  <1>6. Contents'
    BY <1>1, <1>2, <1>3, <1>4 DEF Contents, AppFilesKept
  <1>7. Disjoint' /\ Held'
    BY <1>1, <1>2, <1>3, <1>4 DEF Disjoint, Held
  <1> QED BY <1>5, <1>6, <1>7

\* The constructor closes the descriptor of its own /dev/null.
LEMMA CloseDevnullKeeps == ASSUME Owned, NEW t \in Creators, CloseDevnull(t) PROVE Owned'
  <1> USE StderrAssumption, StderrIsFd DEF Owned
  <1> DEFINE d == devnull[t]
  <1>1. /\ UNCHANGED <<appFd, devnull, saved, overlap>>
        /\ pc' \in [Creators -> pcs] /\ pc'[t] = "probing"
        /\ \A u \in Creators : u # t => pc'[u] = pc[u]
        /\ HoldsNull(t) /\ ~HoldsNull(t)'
        /\ \A u \in Creators : u # t => (HoldsNull(u)' <=> HoldsNull(u))
        /\ \A u \in Creators : HoldsSaved(u)' <=> HoldsSaved(u)
    BY DEF CloseDevnull, TypeOK, pcs, HoldsNull, HoldsSaved
  <1>2. d \in Fds \ {STDERR} /\ fd[d] = "null"
    BY <1>1 DEF Contents
  <1>3. fd' \in [Fds -> Files] /\ fd'[d] = "closed" /\ \A e \in Fds : e # d => fd'[e] = fd[e]
    BY <1>2 DEF CloseDevnull, ReleaseDevnull, Close, TypeOK, Files
  <1>4. /\ \A f \in AppFiles : appFd[f] # d
        /\ \A u \in Creators : u # t /\ HoldsNull(u) => devnull[u] # d
        /\ \A u \in Creators : saved[u] # d
    BY <1>1, <1>2 DEF Contents, AppFilesKept, Disjoint, HoldsSaved, Files
  <1>5. TypeOK'
    <2>1. ASSUME NEW u \in Creators
          PROVE  /\ pc'[u] \in {"dup", "dup2", "close"} => devnull'[u] # NoFd
                 /\ pc'[u] \in {"restore", "closeSaved"} => saved'[u] # NoFd
      BY <1>1 DEF TypeOK
    <2> QED BY <1>1, <1>3, <2>1 DEF TypeOK
  <1>6. Contents'
    <2>1. fd'[STDERR] \in Streams /\ AppFilesKept'
      BY <1>1, <1>2, <1>3, <1>4 DEF Contents, AppFilesKept, TypeOK
    <2>2. ASSUME NEW u \in Creators, HoldsNull(u)'
          PROVE  devnull'[u] \in Fds \ {STDERR} /\ fd'[devnull'[u]] = "null"
      BY <1>1, <1>3, <1>4, <2>2 DEF Contents
    <2>3. ASSUME NEW u \in Creators, HoldsSaved(u)'
          PROVE  saved'[u] \in Fds \ {STDERR} /\ fd'[saved'[u]] \in Streams
      BY <1>1, <1>3, <1>4, <2>3 DEF Contents
    <2>4. ASSUME NEW u \in Creators, pc'[u] \in {"out", "dup"} PROVE ~HoldsSaved(u)'
      BY <1>1, <2>4 DEF Contents
    <2> QED BY <2>1, <2>2, <2>3, <2>4 DEF Contents
  <1>7. Disjoint'
    BY <1>1 DEF Disjoint
  <1>8. Held'
    <2> SUFFICES ASSUME NEW e \in Fds \ {STDERR}, fd'[e] # "closed"
                 PROVE  \/ \E f \in AppFiles : appFd'[f] = e
                        \/ \E u \in Creators : HoldsNull(u)' /\ devnull'[u] = e
                        \/ \E u \in Creators : saved'[u] = e
      BY DEF Held
    <2>1. e # d /\ fd[e] # "closed"
      BY <1>3
    <2> QED BY <1>1, <2>1 DEF Held
  <1> QED BY <1>5, <1>6, <1>7, <1>8

\* The destructor closes the descriptor it saved stderr to.
LEMMA CloseSavedKeeps == ASSUME Owned, NEW t \in Creators, CloseSaved(t) PROVE Owned'
  <1> USE StderrAssumption, StderrIsFd DEF Owned
  <1> DEFINE d == saved[t]
  <1>1. /\ UNCHANGED <<appFd, overlap>>
        /\ pc' \in [Creators -> pcs] /\ pc'[t] = "out"
        /\ \A u \in Creators : u # t =>
             pc'[u] = pc[u] /\ saved'[u] = saved[u] /\ devnull'[u] = devnull[u]
        /\ saved' \in [Creators -> Fds \cup {NoFd}] /\ saved'[t] = NoFd
        /\ devnull' \in [Creators -> Fds \cup {NoFd}]
        /\ ~HoldsNull(t) /\ ~HoldsNull(t)' /\ HoldsSaved(t) /\ ~HoldsSaved(t)'
    BY DEF CloseSaved, TypeOK, pcs, HoldsNull, HoldsSaved
  <1>2. \A u \in Creators : u # t => (HoldsNull(u)' <=> HoldsNull(u))
                                     /\ (HoldsSaved(u)' <=> HoldsSaved(u))
    BY <1>1 DEF HoldsNull, HoldsSaved
  <1>3. d \in Fds \ {STDERR} /\ fd[d] \in Streams
    BY <1>1 DEF Contents
  <1>4. fd' \in [Fds -> Files] /\ fd'[d] = "closed" /\ \A e \in Fds : e # d => fd'[e] = fd[e]
    BY <1>3 DEF CloseSaved, SavedFd, Close, TypeOK, Files
  <1>5. /\ \A f \in AppFiles : appFd[f] # d
        /\ \A u \in Creators : HoldsNull(u) => devnull[u] # d
        /\ \A u \in Creators : u # t => saved[u] # d
    BY <1>1, <1>3 DEF Contents, AppFilesKept, Disjoint, Streams
  <1>6. TypeOK'
    <2>1. ASSUME NEW u \in Creators
          PROVE  /\ pc'[u] \in {"dup", "dup2", "close"} => devnull'[u] # NoFd
                 /\ pc'[u] \in {"restore", "closeSaved"} => saved'[u] # NoFd
      BY <1>1 DEF TypeOK
    <2> QED BY <1>1, <1>4, <2>1 DEF TypeOK
  <1>7. Contents'
    <2>1. fd'[STDERR] \in Streams /\ AppFilesKept'
      BY <1>1, <1>3, <1>4, <1>5 DEF Contents, AppFilesKept, TypeOK
    <2>2. ASSUME NEW u \in Creators, HoldsNull(u)'
          PROVE  devnull'[u] \in Fds \ {STDERR} /\ fd'[devnull'[u]] = "null"
      BY <1>1, <1>2, <1>4, <1>5, <2>2 DEF Contents
    <2>3. ASSUME NEW u \in Creators, HoldsSaved(u)'
          PROVE  saved'[u] \in Fds \ {STDERR} /\ fd'[saved'[u]] \in Streams
      BY <1>1, <1>2, <1>4, <1>5, <2>3 DEF Contents
    <2>4. ASSUME NEW u \in Creators, pc'[u] \in {"out", "dup"} PROVE ~HoldsSaved(u)'
      BY <1>1, <1>2, <2>4 DEF Contents
    <2> QED BY <2>1, <2>2, <2>3, <2>4 DEF Contents
  <1>8. Disjoint'
    <2>1. ASSUME NEW u \in Creators, NEW v \in Creators, u # v, HoldsNull(u)', HoldsNull(v)'
          PROVE  devnull'[u] # devnull'[v]
      BY <1>1, <1>2, <2>1 DEF Disjoint
    <2>2. ASSUME NEW u \in Creators, NEW v \in Creators, u # v, HoldsSaved(u)'
          PROVE  saved'[u] # saved'[v]
      BY <1>1, <1>2, <2>2 DEF Disjoint, HoldsSaved
    <2>3. ASSUME NEW u \in Creators, NEW v \in Creators, HoldsNull(u)', HoldsSaved(v)'
          PROVE  devnull'[u] # saved'[v]
      BY <1>1, <1>2, <2>3 DEF Disjoint
    <2> QED BY <2>1, <2>2, <2>3 DEF Disjoint
  <1>9. Held'
    <2> SUFFICES ASSUME NEW e \in Fds \ {STDERR}, fd'[e] # "closed"
                 PROVE  \/ \E f \in AppFiles : appFd'[f] = e
                        \/ \E u \in Creators : HoldsNull(u)' /\ devnull'[u] = e
                        \/ \E u \in Creators : saved'[u] = e
      BY DEF Held
    <2>1. e # d /\ fd[e] # "closed"
      BY <1>4
    <2> QED BY <1>1, <1>2, <2>1 DEF Held
  <1> QED BY <1>6, <1>7, <1>8, <1>9

\* The application opens and closes what is its own.
LEMMA AppKeeps ==
  ASSUME Owned, NEW f \in AppFiles, AppOpen(f) \/ AppClose(f) PROVE Owned'
  <1> USE StderrAssumption, StderrIsFd DEF Owned
  <1>1. UNCHANGED <<pc, devnull, saved, overlap>>
    BY DEF AppOpen, AppClose
  <1>2. \A u \in Creators : (HoldsNull(u)' <=> HoldsNull(u)) /\ (HoldsSaved(u)' <=> HoldsSaved(u))
    BY <1>1 DEF HoldsNull, HoldsSaved
  <1>3. PICK d \in Fds :
          /\ d # STDERR
          /\ \A u \in Creators : (HoldsNull(u) => devnull[u] # d) /\ saved[u] # d
          /\ \A g \in AppFiles : g # f => appFd[g] # d
          /\ \/ fd' = [fd EXCEPT ![d] = f] /\ appFd' = [appFd EXCEPT ![f] = d]
                /\ appFd[f] = NoFd
             \/ fd' = [fd EXCEPT ![d] = "closed"] /\ appFd' = [appFd EXCEPT ![f] = NoFd]
                /\ appFd[f] = d
    <2>1. CASE AppOpen(f)
      BY <2>1, FreeIsNobodys DEF AppOpen
    <2>2. CASE AppClose(f)
      <3>1. appFd[f] \in Fds /\ fd[appFd[f]] = f /\ f \notin Streams \cup {"closed"}
        BY <2>2 DEF AppClose, TypeOK, Contents, AppFilesKept, Streams
      <3>2. appFd[f] # STDERR /\ \A g \in AppFiles : g # f => appFd[g] # appFd[f]
        BY <3>1 DEF Contents, AppFilesKept
      <3>3. \A u \in Creators : (HoldsNull(u) => devnull[u] # appFd[f]) /\ saved[u] # appFd[f]
        BY <3>1 DEF Contents, Streams, HoldsSaved
      <3> QED BY <2>2, <3>1, <3>2, <3>3 DEF AppClose, Close
    <2> QED BY <2>1, <2>2
  <1>4. /\ fd' \in [Fds -> Files] /\ \A e \in Fds : e # d => fd'[e] = fd[e]
        /\ appFd' \in [AppFiles -> Fds \cup {NoFd}]
        /\ \A g \in AppFiles : g # f => appFd'[g] = appFd[g]
        /\ appFd'[f] # NoFd => appFd'[f] = d /\ fd'[d] = f
        /\ appFd'[f] = NoFd => fd'[d] = "closed"
    BY <1>3 DEF TypeOK, Files
  <1>5. TypeOK'
    BY <1>1, <1>4 DEF TypeOK
  <1>6. AppFilesKept'
    BY <1>3, <1>4 DEF Contents, AppFilesKept, TypeOK
  <1>7. Contents'
    BY <1>1, <1>2, <1>3, <1>4, <1>6 DEF Contents
  <1>8. Disjoint'
    BY <1>1, <1>2 DEF Disjoint
  <1>9. Held'
    <2> SUFFICES ASSUME NEW e \in Fds \ {STDERR}, fd'[e] # "closed"
                 PROVE  \/ \E g \in AppFiles : appFd'[g] = e
                        \/ \E u \in Creators : HoldsNull(u)' /\ devnull'[u] = e
                        \/ \E u \in Creators : saved'[u] = e
      BY DEF Held
    <2>1. CASE e = d
      BY <1>4, <2>1
    <2>2. CASE e # d
      <3>1. fd[e] # "closed"
        BY <1>4, <2>2
      <3>2. appFd[f] # e
        BY <1>3, <2>2
      <3> QED BY <1>1, <1>2, <1>4, <3>1, <3>2 DEF Held
    <2> QED BY <2>1, <2>2
  <1> QED BY <1>5, <1>7, <1>8, <1>9

\* Every step keeps who owns which descriptor.
LEMMA OwnedNext == Owned /\ [Next]_vars => Owned'
  <1> SUFFICES ASSUME Owned, [Next]_vars PROVE Owned'
    OBVIOUS
  <1>1. CASE UNCHANGED vars
    BY <1>1 DEF vars, Owned, TypeOK, Contents, Disjoint, Held, HoldsNull, HoldsSaved,
       AppFilesKept
  <1> QED
    BY <1>1, OpenKeeps, DupKeeps, RedirectAndRestoreKeep, CloseDevnullKeeps, ProbedKeeps,
       CloseSavedKeeps, AppKeeps DEF Next

-----------------------------------------------------------------------------
(* What descriptor 2 is while creators do not overlap *)

\* With one creator inside, the others hold nothing.
LEMMA OthersOut ==
  ASSUME Owned, OneInside, NEW t \in Creators, pc[t] # "out"
  PROVE  \A u \in Creators : u # t => pc[u] = "out" /\ ~HoldsSaved(u)
  BY DEF Owned, Contents, OneInside

\* What a step of the only creator inside has to show.
LEMMA OneInsideNext ==
  ASSUME NEW t \in Creators,
         \A u \in Creators : u # t => pc'[u] = "out" /\ ~HoldsSaved(u)',
         pc'[t] = "out" => fd'[STDERR] = "stderr",
         HoldsSaved(t)' => fd'[saved'[t]] = "stderr",
         pc'[t] \in {"close", "probing", "restore"} /\ HoldsSaved(t)' => fd'[STDERR] = "null",
         pc'[t] \in {"dup", "dup2", "closeSaved"} \/ (pc'[t] # "out" /\ ~HoldsSaved(t)')
           => fd'[STDERR] = "stderr"
  PROVE  OneInside'
  BY DEF OneInside, StderrRestored, AllOut

\* The first creator to come in finds stderr as it should be.
LEMMA OpenAlone ==
  ASSUME Owned, OneInside, NEW t \in Creators, Open(t), ~overlap' PROVE OneInside'
  <1> USE StderrAssumption, StderrIsFd DEF Owned
  <1>1. \A u \in Creators : pc[u] = "out" /\ ~HoldsSaved(u)
    BY DEF Open, Contents
  <1>2. fd[STDERR] = "stderr"
    BY <1>1 DEF OneInside, StderrRestored, AllOut
  <1>3. fd'[STDERR] = "stderr"
    BY <1>2, FreeIsNobodys DEF Open, TypeOK
  <1>4. /\ pc'[t] \in {"dup", "probing"} /\ UNCHANGED saved
        /\ \A u \in Creators : u # t => pc'[u] = pc[u]
    BY DEF Open, TypeOK
  <1>5. \A u \in Creators : ~HoldsSaved(u)'
    BY <1>1, <1>4 DEF HoldsSaved
  <1> QED BY <1>1, <1>3, <1>4, <1>5, OneInsideNext

\* What dup saves is stderr.
LEMMA DupAlone ==
  ASSUME Owned, OneInside, NEW t \in Creators, Dup(t) PROVE OneInside'
  <1> USE StderrAssumption, StderrIsFd DEF Owned
  <1>1. /\ pc[t] = "dup" /\ pc'[t] = "dup2" /\ \A u \in Creators : u # t => pc'[u] = pc[u]
        /\ \A u \in Creators : u # t => saved'[u] = saved[u]
    BY DEF Dup, TypeOK
  <1>2. /\ \A u \in Creators : u # t => pc'[u] = "out" /\ ~HoldsSaved(u)'
        /\ ~HoldsSaved(t) /\ fd[STDERR] = "stderr"
    BY <1>1, OthersOut DEF HoldsSaved, Contents, OneInside
  <1>3. fd'[STDERR] = "stderr" /\ (HoldsSaved(t)' => fd'[saved'[t]] = "stderr")
    <2>1. CASE \E d \in Fds : /\ IsLowestFree(d)
                              /\ fd' = [fd EXCEPT ![d] = fd[STDERR]]
                              /\ saved' = [saved EXCEPT ![t] = d]
      BY <1>2, <2>1 DEF TypeOK
    <2>2. CASE UNCHANGED <<fd, saved>>
      BY <1>2, <2>2 DEF HoldsSaved
    <2> QED BY <2>1, <2>2 DEF Dup
  <1> QED BY <1>1, <1>2, <1>3, OneInsideNext

\* The only creator inside points descriptor 2 at /dev/null if it has saved stderr.
LEMMA RedirectAlone ==
  ASSUME Owned, OneInside, NEW t \in Creators, RedirectStderr(t) PROVE OneInside'
  <1> USE StderrAssumption, StderrIsFd DEF Owned
  <1>1. /\ pc[t] = "dup2" /\ pc'[t] = "close" /\ UNCHANGED saved
        /\ \A u \in Creators : u # t => pc'[u] = pc[u]
    BY DEF RedirectStderr, TypeOK
  <1>2. /\ \A u \in Creators : u # t => pc'[u] = "out" /\ ~HoldsSaved(u)'
        /\ HoldsSaved(t)' <=> HoldsSaved(t)
    BY <1>1, OthersOut DEF HoldsSaved
  <1>3. CASE HoldsSaved(t)
    <2>1. fd[devnull[t]] = "null" /\ saved[t] \in Fds \ {STDERR} /\ fd[saved[t]] = "stderr"
      BY <1>1, <1>3 DEF Contents, HoldsNull, OneInside
    <2>2. fd' = [fd EXCEPT ![STDERR] = "null"]
      BY <1>3, <2>1 DEF RedirectStderr, Redirect, Dup2, HoldsSaved
    <2>3. fd'[STDERR] = "null" /\ fd'[saved'[t]] = "stderr"
      BY <1>1, <2>1, <2>2 DEF TypeOK
    <2> QED BY <1>1, <1>2, <1>3, <2>3, OneInsideNext
  <1>4. CASE ~HoldsSaved(t)
    <2>1. fd' = fd /\ fd[STDERR] = "stderr"
      BY <1>1, <1>4 DEF RedirectStderr, Redirect, HoldsSaved, OneInside
    <2> QED BY <1>1, <1>2, <1>4, <2>1, OneInsideNext
  <1> QED BY <1>3, <1>4

\* Closing devnull concerns neither descriptor 2 nor the saved one.
LEMMA CloseDevnullAlone ==
  ASSUME Owned, OneInside, NEW t \in Creators, CloseDevnull(t) PROVE OneInside'
  <1> USE StderrAssumption, StderrIsFd DEF Owned
  <1>1. /\ pc[t] = "close" /\ pc'[t] = "probing" /\ UNCHANGED saved
        /\ \A u \in Creators : u # t => pc'[u] = pc[u]
    BY DEF CloseDevnull, TypeOK
  <1>2. /\ \A u \in Creators : u # t => pc'[u] = "out" /\ ~HoldsSaved(u)'
        /\ HoldsSaved(t)' <=> HoldsSaved(t)
    BY <1>1, OthersOut DEF HoldsSaved
  <1>3. devnull[t] # STDERR /\ (HoldsSaved(t) => saved[t] # devnull[t] /\ saved[t] \in Fds)
    BY <1>1 DEF Contents, Disjoint, HoldsNull
  <1>4. fd'[STDERR] = fd[STDERR] /\ (HoldsSaved(t) => fd'[saved'[t]] = fd[saved[t]])
    BY <1>1, <1>3 DEF CloseDevnull, ReleaseDevnull, Close, TypeOK
  <1> QED BY <1>1, <1>2, <1>4, OneInsideNext DEF OneInside

\* A creator with nothing saved leaves with stderr as it found it.
LEMMA ProbedAlone ==
  ASSUME Owned, OneInside, NEW t \in Creators, Probed(t) PROVE OneInside'
  <1> USE DEF Owned
  <1>1. /\ pc[t] = "probing" /\ UNCHANGED <<fd, saved>>
        /\ pc'[t] = IF HoldsSaved(t) THEN "restore" ELSE "out"
        /\ \A u \in Creators : u # t => pc'[u] = pc[u]
    BY DEF Probed, TypeOK, AfterProbe, HoldsSaved
  <1>2. /\ \A u \in Creators : u # t => pc'[u] = "out" /\ ~HoldsSaved(u)'
        /\ HoldsSaved(t)' <=> HoldsSaved(t)
    BY <1>1, OthersOut DEF HoldsSaved
  <1> QED BY <1>1, <1>2, OneInsideNext DEF OneInside

\* The destructor puts back what was there when the only creator came.
LEMMA RestoreAlone ==
  ASSUME Owned, OneInside, NEW t \in Creators, Restore(t) PROVE OneInside'
  <1> USE StderrAssumption, StderrIsFd DEF Owned
  <1>1. /\ pc[t] = "restore" /\ pc'[t] = "closeSaved" /\ UNCHANGED saved
        /\ \A u \in Creators : u # t => pc'[u] = pc[u]
    BY DEF Restore, TypeOK
  <1>2. /\ \A u \in Creators : u # t => pc'[u] = "out" /\ ~HoldsSaved(u)'
        /\ HoldsSaved(t)
    BY <1>1, OthersOut DEF HoldsSaved, TypeOK
  <1>3. saved[t] \in Fds \ {STDERR} /\ fd[saved[t]] = "stderr"
    BY <1>2 DEF OneInside, Contents
  <1>4. fd'[STDERR] = "stderr" /\ fd'[saved'[t]] = "stderr"
    BY <1>1, <1>3 DEF Restore, PutBack, Dup2, TypeOK
  <1> QED BY <1>1, <1>2, <1>4, OneInsideNext

\* The last step of the destructor leaves descriptor 2 as restored.
LEMMA CloseSavedAlone ==
  ASSUME Owned, OneInside, NEW t \in Creators, CloseSaved(t) PROVE OneInside'
  <1> USE StderrAssumption, StderrIsFd DEF Owned
  <1>1. /\ pc[t] = "closeSaved" /\ pc'[t] = "out" /\ ~HoldsSaved(t)'
        /\ \A u \in Creators : u # t => pc'[u] = pc[u] /\ saved'[u] = saved[u]
    BY DEF CloseSaved, TypeOK, HoldsSaved
  <1>2. \A u \in Creators : u # t => pc'[u] = "out" /\ ~HoldsSaved(u)'
    BY <1>1, OthersOut DEF HoldsSaved
  <1>3. saved[t] # STDERR /\ fd[STDERR] = "stderr"
    BY <1>1 DEF TypeOK, OneInside, Contents, HoldsSaved
  <1>4. fd'[STDERR] = "stderr"
    BY <1>3 DEF CloseSaved, SavedFd, Close, TypeOK
  <1> QED BY <1>1, <1>2, <1>4, OneInsideNext

\* The application's files are other descriptors than 2 and those saved.
LEMMA AppAlone ==
  ASSUME Owned, OneInside, NEW f \in AppFiles, AppOpen(f) \/ AppClose(f) PROVE OneInside'
  <1> USE StderrAssumption, StderrIsFd DEF Owned
  <1>1. UNCHANGED <<pc, devnull, saved>>
    BY DEF AppOpen, AppClose
  <1>2. \A u \in Creators : HoldsSaved(u)' <=> HoldsSaved(u)
    BY <1>1 DEF HoldsSaved
  <1>3. PICK d \in Fds :
          /\ d # STDERR
          /\ \A u \in Creators : saved[u] # d
          /\ \E x : fd' = [fd EXCEPT ![d] = x]
    <2>1. CASE AppOpen(f)
      BY <2>1, FreeIsNobodys DEF AppOpen
    <2>2. CASE AppClose(f)
      <3>1. appFd[f] \in Fds /\ fd[appFd[f]] = f /\ f \notin Streams \cup {"closed"}
        BY <2>2 DEF AppClose, TypeOK, Contents, AppFilesKept, Streams
      <3>2. appFd[f] # STDERR /\ \A u \in Creators : saved[u] # appFd[f]
        BY <3>1 DEF Contents, Streams, HoldsSaved
      <3> QED BY <2>2, <3>1, <3>2 DEF AppClose, Close
    <2> QED BY <2>1, <2>2
  <1>4. fd'[STDERR] = fd[STDERR] /\ \A u \in Creators : HoldsSaved(u) => fd'[saved[u]] = fd[saved[u]]
    BY <1>3 DEF TypeOK, Contents
  <1> QED BY <1>1, <1>2, <1>4 DEF OneInside, StderrRestored, AllOut

\* Every step of a creator or of the application keeps the invariant.
LEMMA IInvNext == IInv /\ [Next]_vars => IInv'
  <1> SUFFICES ASSUME Owned, Alone, [Next]_vars, ~overlap' PROVE OneInside'
    BY OwnedNext DEF IInv, Alone
  <1>1. CASE UNCHANGED vars
    BY <1>1 DEF vars, Alone, OneInside, StderrRestored, AllOut, HoldsSaved
  <1>2. CASE \E t \in Creators : Open(t)
    BY <1>2, OpenAlone DEF Open, Alone
  <1>3. CASE \E t \in Creators : \/ Dup(t) \/ RedirectStderr(t) \/ CloseDevnull(t)
                                 \/ Probed(t) \/ Restore(t) \/ CloseSaved(t)
    <2>1. OneInside
      BY <1>3 DEF Alone, Dup, RedirectStderr, CloseDevnull, Probed, Restore, CloseSaved
    <2> QED BY <1>3, <2>1, DupAlone, RedirectAlone, CloseDevnullAlone, ProbedAlone,
               RestoreAlone, CloseSavedAlone
  <1>4. CASE \E f \in AppFiles : AppOpen(f) \/ AppClose(f)
    <2>1. OneInside
      BY <1>4 DEF Alone, AppOpen, AppClose
    <2> QED BY <1>4, <2>1, AppAlone
  <1> QED BY <1>1, <1>2, <1>3, <1>4 DEF Next

\* The invariant holds throughout.
LEMMA IInvAlways == Spec => []IInv
  BY IInvInit, IInvNext, PTL DEF Spec

-----------------------------------------------------------------------------

\* TypeOK: in particular, a descriptor that was not obtained is never passed to a
\* system call.
THEOREM StderrTypeCorrect == Spec => []TypeOK
  <1>1. IInv => TypeOK
    BY DEF IInv, Owned
  <1> QED BY <1>1, IInvAlways, PTL

\* NoFdLeak: however many creators overlap and whichever system call fails, once
\* all are out no descriptor of theirs is open.
THEOREM NoDescriptorLeaks == Spec => []NoFdLeak
  <1>1. IInv => NoFdLeak
    <2> SUFFICES ASSUME Owned, AllOut, NEW d \in Fds \ {STDERR}, fd[d] # "closed"
                 PROVE  \E f \in AppFiles : appFd[f] = d
      BY DEF IInv, NoFdLeak
    <2>1. \A t \in Creators : ~HoldsNull(t) /\ saved[t] = NoFd
      BY DEF AllOut, HoldsNull, HoldsSaved, Owned, Contents
    <2>2. d # NoFd
      BY StderrAssumption
    <2> QED BY <2>1, <2>2 DEF Owned, Held
  <1> QED BY <1>1, IInvAlways, PTL

\* AppFilesKept: suppressing closes and overwrites no file of the application's.
THEOREM OtherFilesKept == Spec => []AppFilesKept
  <1>1. IInv => AppFilesKept
    BY DEF IInv, Owned, Contents
  <1> QED BY <1>1, IInvAlways, PTL

\* RestoredWhenAlone: stderr is back once every creator is out, if no two were in
\* at once.
THEOREM StderrPutBack == Spec => []RestoredWhenAlone
  <1>1. IInv => RestoredWhenAlone
    BY DEF IInv, Alone, OneInside, RestoredWhenAlone
  <1> QED BY <1>1, IInvAlways, PTL

\* MutedWhenAlone: while the devices are enumerated descriptor 2 is /dev/null, if no
\* two creators were in at once and the constructor could save stderr.
THEOREM StderrMuted == Spec => []MutedWhenAlone
  <1>1. IInv => MutedWhenAlone
    BY DEF IInv, Alone, OneInside, MutedWhenAlone, HoldsSaved
  <1> QED BY <1>1, IInvAlways, PTL
=============================================================================
