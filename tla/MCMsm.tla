------------------------------- MODULE MCMsm -------------------------------
(* Msm with two scalars of two digits in base 8, and teams of two and four. *)
EXTENDS Msm

AllScalars == 0..(Modulus - 1)
=============================================================================
