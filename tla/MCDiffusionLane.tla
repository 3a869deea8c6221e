--------------------------- MODULE MCDiffusionLane ---------------------------
(* Small instances of DiffusionLane for TLC.                                *)
EXTENDS DiffusionLane

CONSTANTS r1, r2, r3
=============================================================================
