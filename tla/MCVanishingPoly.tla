--------------------------- MODULE MCVanishingPoly ---------------------------
(* VanishingPoly over small fields. *)
EXTENDS VanishingPoly
=============================================================================
