------------------------------- MODULE MCHost -------------------------------
(* Host on small instances. *)
EXTENDS Host, TLC

CONSTANTS s1, s2, k1, k2, p1

MCSymmetry == Permutations({s1, s2}) \cup Permutations({k1, k2})
=============================================================================
