----------------------------- MODULE MCJobPage -----------------------------
(* Small instances of JobPage for TLC. *)
EXTENDS JobPage, TLC

CONSTANTS j1, j2

MCSymmetry == Permutations(Jobs)
=============================================================================
