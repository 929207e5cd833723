-------------------------------- MODULE Msm --------------------------------
(***************************************************************************)
(* One output of phase A: the sum of the scalars times their points, by    *)
(* buckets. k_phase_a_sort.comp sorts the digits (PhaseASort); each thread *)
(* of k_phase_a.comp adds up the points of one bucket; a team of lanes of  *)
(* k_bucket_reduce.comp weighs the buckets and adds them up                *)
(* (BucketReduce). A pipeline barrier keeps the three dispatches apart.    *)
(*                                                                         *)
(* The points have no relation the kernels could make use of: a point is   *)
(* the vector of the multiples of the terms' points it is made of, and the *)
(* output must be the vector of the scalars. Curve and ProofPass have the  *)
(* real points.                                                            *)
(***************************************************************************)
EXTENDS PhaseASort

CONSTANTS
  LaneCounts,    \* kSpecReduceLanes in the pipelines of k_bucket_reduce
  Foreign        \* what a shuffle from past the end of the team may return

Point == [Tids -> Int]
Zero == [t \in Tids |-> 0]
Add(p, q) == [t \in Tids |-> p[t] + q[t]]
Neg(p) == [t \in Tids |-> -p[t]]
Dbl(p) == Add(p, p)

\* "Every lane in the group": the teams fill the subgroup, and share no slice; "per_lane
\* is always a power of two" (field.glsl.inc).
ASSUME MsmAssumption ==
  /\ \A n \in LaneCounts :
       /\ n \in Nat /\ n <= NumBuckets /\ NumBuckets % n = 0
       /\ \A m \in {n, NumBuckets \div n} : \E k \in 0..m : 2 ^ k = m
  /\ Foreign \subseteq Int

Team == INSTANCE BucketReduce

\* A definition whose name ends in _word is a variant of the one that follows
\* it, with a bug the code could have had; the specification never uses it.

VARIABLES
  bucket,   \* bufBuckets
  added,    \* the threads of k_phase_a that have ended
  lanes,    \* those of the pipeline recordReduce picked
  level,    \* of the tree, once the lanes have their running sums
  lane,     \* what each lane holds
  output    \* bufPoints

reduceVars == <<lanes, level, lane, output>>
vars == <<sortVars, bucket, added, reduceVars>>

Garbage == [t \in Tids |-> Leftover]

Init ==
  /\ SortInit
  /\ bucket = [k \in Buckets |-> Garbage]
  /\ added = {}
  /\ lanes \in LaneCounts
  /\ level = -1
  /\ lane = [pos \in 0..(lanes - 1) |-> [s |-> Zero, rs |-> Zero, w |-> Zero]]
  /\ output = Garbage

-----------------------------------------------------------------------------
(* k_phase_a *)

\* The table holds 2^(8 d) times the point of term t, at t and d.
TablePoint(t, d) == [u \in Tids |-> IF u = t THEN Weight[d] ELSE 0]

ItemPoint_signDropped(item) == TablePoint(item[1], item[2])
ItemPoint(item) ==
  IF item[3] THEN Neg(TablePoint(item[1], item[2])) ELSE TablePoint(item[1], item[2])

\* Bucket k's items, from start to start.
Accumulated(k) ==
  LET acc[n \in 0..(starts[k + 1] - starts[k])] ==
        IF n = 0 THEN Zero ELSE Add(acc[n - 1], ItemPoint(items[starts[k] + n - 1])) IN
  acc[starts[k + 1] - starts[k]]

\* Thread i has the bucket the load order gives it.
Accumulate(i) ==
  /\ Sorted
  /\ i \notin added
  /\ bucket' = [bucket EXCEPT ![perm[i]] = Accumulated(perm[i])]
  /\ added' = added \cup {i}
  /\ UNCHANGED <<sortVars, reduceVars>>

-----------------------------------------------------------------------------
(* k_bucket_reduce *)

SumSlices ==
  /\ added = Buckets
  /\ level = -1
  /\ lane' = [pos \in 0..(lanes - 1) |-> Team!RunningSums(bucket, lanes, pos)]
  /\ level' = 0
  /\ UNCHANGED <<sortVars, bucket, added, lanes, output>>

\* The lanes of a subgroup shuffle together.
ShuffleDown ==
  /\ level >= 0 /\ 2 ^ level < lanes
  /\ \E x \in Foreign :
       LET p == [t \in Tids |-> x] IN
       lane' = Team!Combined(level, lanes, lane, [s |-> p, rs |-> p, w |-> p])
  /\ level' = level + 1
  /\ UNCHANGED <<sortVars, bucket, added, lanes, output>>

\* Lane 0 stores; then nothing is left to do.
StoreTotal ==
  /\ level >= 0 /\ 2 ^ level = lanes
  /\ output' = Team!Total(lanes, lane[0])
  /\ level' = level + 1
  /\ UNCHANGED <<sortVars, bucket, added, lanes, lane>>

Next ==
  \/ SortNext /\ UNCHANGED <<bucket, added, reduceVars>>
  \/ \E i \in Buckets : Accumulate(i)
  \/ SumSlices \/ ShuffleDown \/ StoreTotal

Spec == Init /\ [][Next]_vars

-----------------------------------------------------------------------------
(* Properties *)

TypeOK ==
  /\ SortTypeOK
  /\ bucket \in [Buckets -> Point]
  /\ added \subseteq Buckets
  /\ lanes \in LaneCounts
  /\ level \in -1..(lanes + 1)
  /\ lane \in [0..(lanes - 1) -> [s : Point, rs : Point, w : Point]]
  /\ output \in Point

\* The output is the sum of the scalars times their points: the digits recode the
\* scalars exactly, whatever the order the invocations sort them in no item is lost,
\* doubled or misplaced, each bucket is added up once, and the team weighs bucket k
\* by k + 1, with as many lanes as it may have and whatever the shuffles past its
\* end return.
OutputIsMsm == level > 0 /\ 2 ^ level > lanes => output = scalar
=============================================================================
