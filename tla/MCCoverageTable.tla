-------------------------- MODULE MCCoverageTable --------------------------
(* Instances of CoverageTable for TLC. *)
EXTENDS CoverageTable, TLC

CONSTANTS w1, w2, k1, k2

MCInstant  == 0 .. 3
MCSymmetry == Permutations(Writer) \cup Permutations(Key)
=============================================================================
