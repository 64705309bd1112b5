------------------------------ MODULE MCAgent ------------------------------
(* Small instances of Agent for TLC. *)
EXTENDS Agent, TLC

CONSTANTS j1, j2

MCSymmetry == Permutations(Jobs)
=============================================================================
