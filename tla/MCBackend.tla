----------------------------- MODULE MCBackend -----------------------------
(* Small instances of Backend for TLC.                                      *)
EXTENDS Backend, TLC

CONSTANTS u1, u2, m1, m2, r1, r2, s1, s2

\* Two people who each own a machine and may ask for the other's.
MCOwnerPeers == m1 :> u2 @@ m2 :> u1

\* One provider with one machine; the other user asks for it.
MCOwnerOne   == m1 :> u2

MCSymmetry == Permutations(Reqs) \cup Permutations(Sessions)
=============================================================================
