--------------------------- MODULE MCSendOverlay ---------------------------
(* SendOverlay on small instances. *)
EXTENDS SendOverlay, TLC

CONSTANTS u1, u2

(* The safety run has two calls and skips what lies beyond an update queued   *)
(* behind a sending control loop; the run with one call does not.            *)
MCQuietT == tpc = "select" /\ in = 0

MCSymmetry == Permutations({u1, u2})
=============================================================================
