----------------------------- MODULE MCGapSweep -----------------------------
(* An instance of GapSweep for TLC. *)
EXTENDS GapSweep

MCInstant == 0 .. 4
=============================================================================
