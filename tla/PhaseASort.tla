----------------------------- MODULE PhaseASort -----------------------------
(***************************************************************************)
(* One workgroup of k_phase_a_sort.comp: each invocation recodes a scalar  *)
(* in signed digits; together they sort the digits into buckets by         *)
(* absolute value, with atomic counters in shared memory and three         *)
(* barriers, and invocation 0 orders the buckets by load in between.       *)
(* Msm goes on from where they end.                                        *)
(*                                                                         *)
(* An item is <<tid, dd, neg>>, what the kernel packs in 6, 5 and 1 bits.  *)
(***************************************************************************)
EXTENDS Digits, FiniteSets, FiniteSetsExt

CONSTANTS
  Terms,        \* L_PHASE_A_TERMS, the invocations of the workgroup
  LoadClasses,  \* L_LOAD_CLASSES
  Modulus,      \* scalars are below it
  Scalars,      \* the scalars a run considers
  Leftover,     \* what shared memory may hold when the workgroup starts
  NoItem        \* an entry of bufItems that is no item

Tids == 0..(Terms - 1)
NumItems == Terms * NumDigits
Slots == 0..(NumItems - 1)

\* "Every scalar is below r < 2^255": half of what NumDigits digits can hold.
ASSUME SortAssumption ==
  /\ Terms \in Nat \ {0} /\ LoadClasses \in Nat \ {0}
  /\ NumBuckets % 2 = 0 /\ NumBuckets \div 2 <= Terms
  /\ Modulus \in Nat /\ Modulus <= NumBuckets * Weight[NumDigits - 1]
  /\ Scalars \subseteq 0..(Modulus - 1)
  /\ Leftover \in Nat
  /\ NoItem \notin Tids \X Digits \X BOOLEAN

\* A definition whose name ends in _word is a variant of the one that follows
\* it, with a bug the code could have had; the specification never uses it.

VARIABLES
  scalar,   \* each invocation's scalar
  phase,    \* even: between barriers; odd: at a barrier
  dd,       \* the digit an invocation is at
  count,    \* tg_count, in the end the write cursors
  starts,   \* tg_start, copied to bufStarts
  perm,     \* bufPerm
  items     \* bufItems

sortVars == <<scalar, phase, dd, count, starts, perm, items>>

-----------------------------------------------------------------------------
(* What an invocation recodes *)

Digit(t, d) == Recoded(scalar[t])[d + 1]
BucketOf(t, d) == Abs(Digit(t, d)) - 1

-----------------------------------------------------------------------------

SortInit ==
  /\ scalar \in [Tids -> Scalars]
  /\ phase = [t \in Tids |-> 0]
  /\ dd = [t \in Tids |-> 0]
  /\ count = [k \in Buckets |-> Leftover]
  /\ starts = [k \in 0..NumBuckets |-> Leftover]
  /\ perm = [i \in Buckets |-> 0]
  /\ items = [s \in Slots |-> NoItem]

\* The first NumBuckets / 2 invocations clear two counters each.
Cleared_half(t) == {t}
Cleared(t) == IF t < NumBuckets \div 2 THEN {t, t + NumBuckets \div 2} ELSE {}

Clear(t) ==
  /\ phase[t] = 0
  /\ count' = [k \in Buckets |-> IF k \in Cleared(t) THEN 0 ELSE count[k]]
  /\ phase' = [phase EXCEPT ![t] = 1]
  /\ UNCHANGED <<scalar, dd, starts, perm, items>>

\* barrier(): nobody passes before everybody is there.
BarrierOpen_secondDropped(b) == b = 3 \/ \A u \in Tids : phase[u] >= b
BarrierOpen(b) == \A u \in Tids : phase[u] >= b

Cross(t) ==
  /\ phase[t] \in {1, 3, 5}
  /\ BarrierOpen(phase[t])
  /\ phase' = [phase EXCEPT ![t] = @ + 1]
  /\ dd' = [dd EXCEPT ![t] = 0]
  /\ UNCHANGED <<scalar, count, starts, perm, items>>

\* The last digit takes the invocation to the next barrier, or to the end.
NextDigit(t) ==
  /\ dd' = [dd EXCEPT ![t] = @ + 1]
  /\ phase' = IF dd[t] + 1 = NumDigits THEN [phase EXCEPT ![t] = @ + 1] ELSE phase

\* A zero digit belongs to no bucket.
Count(t) ==
  /\ phase[t] = 2
  /\ count' = IF Digit(t, dd[t]) = 0 THEN count
              ELSE [count EXCEPT ![BucketOf(t, dd[t])] = @ + 1]
  /\ NextDigit(t)
  /\ UNCHANGED <<scalar, starts, perm, items>>

-----------------------------------------------------------------------------
(* Invocation 0 between the second and the third barrier *)

\* The exclusive prefix sums of the counters.
Starts ==
  LET acc[k \in 0..NumBuckets] == IF k = 0 THEN 0 ELSE acc[k - 1] + count[k - 1] IN acc

LoadClass(k) == Min({Starts[k + 1] - Starts[k], LoadClasses - 1})

\* Where a counting sort by class, heaviest first, puts bucket k.
Rank_unstable(k) == Cardinality({i \in Buckets : LoadClass(i) > LoadClass(k)})
Rank(k) == Cardinality({i \in Buckets :
             \/ LoadClass(i) > LoadClass(k)
             \/ LoadClass(i) = LoadClass(k) /\ i < k})

Order ==
  /\ phase[0] = 4
  /\ starts' = Starts
  /\ count' = [k \in Buckets |-> Starts[k]]
  /\ perm' = [i \in Buckets |-> IF \E k \in Buckets : Rank(k) = i
                                THEN CHOOSE k \in Buckets : Rank(k) = i
                                ELSE perm[i]]
  /\ phase' = [phase EXCEPT ![0] = 5]
  /\ UNCHANGED <<scalar, dd, items>>

Skip(t) ==
  /\ t # 0
  /\ phase[t] = 4
  /\ phase' = [phase EXCEPT ![t] = 5]
  /\ UNCHANGED <<scalar, dd, count, starts, perm, items>>

-----------------------------------------------------------------------------

\* atomicAdd of the bucket's cursor gives the slot to write.
Scatter(t) ==
  LET v == Digit(t, dd[t]) IN
  /\ phase[t] = 6
  /\ IF v = 0 THEN UNCHANGED <<count, items>>
     ELSE LET k == BucketOf(t, dd[t]) IN
          /\ count' = [count EXCEPT ![k] = @ + 1]
          /\ items' = [items EXCEPT ![count[k]] = <<t, dd[t], v < 0>>]
  /\ NextDigit(t)
  /\ UNCHANGED <<scalar, starts, perm>>

SortNext ==
  \/ Order
  \/ \E t \in Tids : Clear(t) \/ Cross(t) \/ Count(t) \/ Skip(t) \/ Scatter(t)

-----------------------------------------------------------------------------
(* Properties *)

SortTypeOK ==
  /\ scalar \in [Tids -> Scalars]
  /\ phase \in [Tids -> 0..7]
  /\ dd \in [Tids -> 0..NumDigits]
  /\ \A k \in Buckets : count[k] \in 0..NumItems \/ \E t \in Tids : phase[t] = 0
  /\ \A k \in 0..NumBuckets : starts[k] \in 0..NumItems \/ phase[0] < 5
  /\ perm \in [Buckets -> Buckets]
  /\ items \in [Slots -> (Tids \X Digits \X BOOLEAN) \cup {NoItem}]

Sorted == \A t \in Tids : phase[t] = 7

\* Each slot between two starts is written, by a single invocation, and the slots
\* past the last start are left alone.
SlotsFilledOnce == Sorted =>
  /\ \A s, r \in 0..(starts[NumBuckets] - 1) : items[s] # NoItem /\ (items[s] = items[r] => s = r)
  /\ \A s \in starts[NumBuckets]..(NumItems - 1) : items[s] = NoItem

\* The accumulation kernel, which gives lane i bucket perm[i], visits every bucket,
\* and neighbouring lanes get buckets of similar load, heaviest first.
OrderedByLoad == Sorted =>
  LET load(i) == starts[perm[i] + 1] - starts[perm[i]] IN
  /\ {perm[i] : i \in Buckets} = Buckets
  /\ \A i, j \in Buckets : i < j => load(i) >= Min({load(j), LoadClasses - 1})
=============================================================================
