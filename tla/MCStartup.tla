----------------------------- MODULE MCStartup -----------------------------
(* Startup on a small instance. *)
EXTENDS Startup, TLC

CONSTANTS p1, p2

MCSymmetry == Permutations(Starters)
=============================================================================
