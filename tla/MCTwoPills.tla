------------------------------ MODULE MCTwoPills ------------------------------
(***************************************************************************)
(* Instance constants for model-checking TwoPills.  The splits are the     *)
(* program's own; tiers, reserve threshold and window are scaled down.     *)
(***************************************************************************)
EXTENDS TwoPills, TLC

Symmetry == Permutations(Players)
=============================================================================
