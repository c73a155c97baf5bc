---------------------------- MODULE MCMapStream ----------------------------
(* MapStream on a small instance. *)
EXTENDS MapStream, TLC

CONSTANTS s1, s2, n1, n2, n3, i1, i2, a, b

MCSymmetry == Permutations({s1, s2}) \cup Permutations({n1, n2, n3})
                 \cup Permutations({i1, i2}) \cup Permutations({a, b})
=============================================================================
