------------------------------ MODULE ProverApi ------------------------------
(***************************************************************************)
(* What include/vkzg.h promises of a shared prover, without saying how:    *)
(* one call is served at a time; results appear in the caller's array in   *)
(* order, a chunk at a time, each the result of the caller's own input at  *)
(* that position; a call that returns OK has delivered everything, and one *)
(* that returns an error has delivered whole chunks before it.             *)
(***************************************************************************)
EXTENDS Integers, FiniteSets

CONSTANTS Threads, NoThread, MaxBatch, MaxItems, Sizes, MaxBad, CallIds, Ops, Untouched

VARIABLES phase, callId, call, done, out, rc, serving
vars == <<phase, callId, call, done, out, rc, serving>>

Positions == 1..MaxItems

MyItem(t, i) == [by |-> t, id |-> callId[t], pos |-> i,
                 ok |-> i \notin call[t].bad]

NoCall == [op |-> "compute", n |-> 0, bad |-> {}]
FreshOut == [i \in Positions |-> Untouched]

Init ==
  /\ phase = [t \in Threads |-> "idle"]
  /\ callId = [t \in Threads |-> 0]
  /\ call = [t \in Threads |-> NoCall]
  /\ done = [t \in Threads |-> 0]
  /\ out = [t \in Threads |-> FreshOut]
  /\ rc = [t \in Threads |-> "none"]
  /\ serving = NoThread

\* Nothing to do, or nothing that can be done.
Reject(t) ==
  /\ phase[t] = "idle"
  /\ \E code \in {"OK", "BADARGS"} : rc' = [rc EXCEPT ![t] = code]
  /\ UNCHANGED <<phase, callId, call, done, out, serving>>

Enter(t) ==
  /\ phase[t] = "idle"
  /\ \E op \in Ops, n \in Sizes : \E bad \in SUBSET (1..n) :
       /\ Cardinality(bad) <= MaxBad
       /\ call' = [call EXCEPT ![t] = [op |-> op, n |-> n, bad |-> bad]]
  /\ callId' = [callId EXCEPT ![t] = (@ + 1) % CallIds]
  /\ rc' = [rc EXCEPT ![t] = "none"]
  /\ phase' = [phase EXCEPT ![t] = "waiting"]
  /\ UNCHANGED <<done, out, serving>>

Start(t) ==
  /\ phase[t] = "waiting"
  /\ serving = NoThread
  /\ serving' = t
  /\ phase' = [phase EXCEPT ![t] = "served"]
  /\ UNCHANGED <<callId, call, done, out, rc>>

\* The next k results, computed from valid inputs.
Deliver(t) ==
  \E k \in 1..MaxBatch :
    LET next == (done[t] + 1)..(done[t] + k) IN
    /\ phase[t] = "served"
    /\ done[t] + k <= call[t].n
    /\ next \cap call[t].bad = {}
    /\ out' = [out EXCEPT ![t] = [i \in Positions |->
                 IF i \in next THEN MyItem(t, i) ELSE out[t][i]]]
    /\ done' = [done EXCEPT ![t] = @ + k]
    /\ UNCHANGED <<phase, callId, call, rc, serving>>

\* The next chunk holds an input that is not valid.
NextIsBad(t) ==
  \E k \in 1..MaxBatch :
    /\ done[t] + k <= call[t].n
    /\ ((done[t] + 1)..(done[t] + k)) \cap call[t].bad # {}

Finish(t) ==
  /\ phase[t] = "served"
  /\ \E code \in {"OK", "BADARGS", "GPU", "INVALID_BLOB"} :
       /\ code = "OK" => done[t] = call[t].n
       /\ code = "BADARGS" => call[t].op = "recover" /\ NextIsBad(t)
       /\ code = "INVALID_BLOB" => call[t].op # "recover" /\ NextIsBad(t)
       /\ rc' = [rc EXCEPT ![t] = code]
  /\ phase' = [phase EXCEPT ![t] = "idle"]
  /\ serving' = NoThread
  /\ call' = [call EXCEPT ![t] = NoCall]
  /\ done' = [done EXCEPT ![t] = 0]
  /\ out' = [out EXCEPT ![t] = FreshOut]
  /\ UNCHANGED callId

Next == \E t \in Threads :
  Reject(t) \/ Enter(t) \/ Start(t) \/ Deliver(t) \/ Finish(t)

Spec == Init /\ [][Next]_vars
=============================================================================
