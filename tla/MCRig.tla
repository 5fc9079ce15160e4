------------------------------- MODULE MCRig -------------------------------
(* Rig for TLC. No symmetry: RunEnds is a liveness property. *)
EXTENDS Rig

CONSTANTS c1, c2, c3
=============================================================================
