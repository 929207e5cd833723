------------------------------ MODULE MCProver ------------------------------
(* Prover on small instances. *)
EXTENDS Prover, TLC

ThreadSymmetry == Permutations(Threads)
=============================================================================
