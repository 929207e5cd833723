-------------------------- MODULE MCStderrSuppress --------------------------
(* StderrSuppress on small instances. *)
EXTENDS StderrSuppress, TLC

Symmetry == Permutations(Creators) \cup Permutations(AppFiles)
=============================================================================
