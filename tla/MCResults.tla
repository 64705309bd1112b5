----------------------------- MODULE MCResults -----------------------------
(* Small instances of Results for TLC.                                      *)
EXTENDS Results

CONSTANTS f1, f2
=============================================================================
