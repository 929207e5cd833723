---------------------------- MODULE BucketReduce ----------------------------
(***************************************************************************)
(* reduce_buckets of field.glsl.inc: a team of 2^n lanes works out the sum *)
(* of (k + 1) * B[k] over the buckets. Each lane collapses a slice of      *)
(* them; then the lanes combine what they have along a tree, in steps that *)
(* shift values from lane to lane.                                         *)
(*                                                                         *)
(* A lane holds rs and s, its slice's weighted and plain sums, and w, the  *)
(* sum of the s of the lanes above, each times its distance.               *)
(***************************************************************************)
EXTENDS Integers

CONSTANTS
  NumBuckets,            \* L_NUM_BUCKETS
  Zero, Add(_, _), Dbl(_)  \* g1_identity, g1_add, g1_dbl

\* A definition whose name ends in _word is a variant of the one that follows
\* it, with a bug the code could have had; no specification uses it.

PerLane(lanes) == NumBuckets \div lanes

Log2(n) == CHOOSE k \in 0..n : 2 ^ k = n

Doubled(p, times) ==
  LET after[t \in 0..times] == IF t = 0 THEN p ELSE Dbl(after[t - 1]) IN after[times]

Collapsed(s, sums) == [sums EXCEPT !.s = s, !.rs = Add(sums.rs, s)]

\* The slice of lane pos, from the top down.
RunningSums(bucket, lanes, pos) ==
  LET n == PerLane(lanes)
      sums[i \in 0..n] ==
        IF i = 0 THEN [s |-> Zero, rs |-> Zero, w |-> Zero]
        ELSE Collapsed(Add(sums[i - 1].s, bucket[pos * n + n - i]), sums[i - 1]) IN
  sums[n]

\* What a lane has once it takes in that of the lane 2^level above it.
Joined(level, mine, above) ==
  [s |-> Add(mine.s, above.s),
   rs |-> Add(mine.rs, above.rs),
   w |-> Add(mine.w, Add(above.w, Doubled(above.s, level)))]

\* Only the lanes that head a subtree commit what they joined.
Commits(level, pos) == pos % 2 ^ (level + 1) = 0

\* One level of the tree; lanes past the team hold what another team has.
Combined(level, lanes, lane, foreign) ==
  [pos \in 0..(lanes - 1) |->
     IF Commits(level, pos)
     THEN Joined(level, lane[pos],
                 IF pos + 2 ^ level < lanes THEN lane[pos + 2 ^ level] ELSE foreign)
     ELSE lane[pos]]

Total_undoubled(lanes, head) == Add(head.rs, head.w)
Total(lanes, head) == Add(head.rs, Doubled(head.w, Log2(PerLane(lanes))))

\* The whole of it.
Reduced(bucket, lanes) ==
  LET none == [s |-> Zero, rs |-> Zero, w |-> Zero]
      tree[level \in 0..Log2(lanes)] ==
        IF level = 0 THEN [pos \in 0..(lanes - 1) |-> RunningSums(bucket, lanes, pos)]
        ELSE Combined(level - 1, lanes, tree[level - 1], none) IN
  Total(lanes, tree[Log2(lanes)][0])
=============================================================================
