---------------------------- MODULE MCJavaBinding ---------------------------
(* JavaBinding with two threads, and two of everything that comes in a list. *)
EXTENDS JavaBinding

TwoKernels == <<"k_ntt_pass", "k_phase_a">>
TwoTables == <<"bufTable", "bufRootsFwd">>
TwoWork == <<"bufBlob", "bufRecOut">>
ThreePaths == <<"env", "build", "install">>
ThreeNames == <<"position_table", "kernel_items_plus", "inv_blob">>

OfType(type, lacks, compute) == [type |-> type, lacks |-> lacks, compute |-> compute]
Integrated == OfType("integrated", {}, <<FALSE, TRUE>>)
Discrete == OfType("discrete", {}, <<TRUE, TRUE>>)
Unfit == {OfType("discrete", {"shuffle"}, <<TRUE>>), OfType("discrete", {}, <<FALSE>>)}

\* None that fits; one among some that do not; one of a better type, earlier or
\* later; two of the same type.
ListingsConsidered ==
  {<<>>} \cup {<<d>> : d \in Unfit}
  \cup {<<d, Integrated>> : d \in Unfit \cup {Discrete}}
  \cup {<<Integrated, d>> : d \in Unfit \cup {Discrete, OfType("integrated", {}, <<TRUE>>)}}
=============================================================================
