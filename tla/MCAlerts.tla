------------------------------ MODULE MCAlerts ------------------------------
(* Instances of Alerts for TLC. *)
EXTENDS Alerts, TLC

CONSTANTS e1, e2, c1, c2, c3

MCSymmetry == Permutations(Email) \cup Permutations(Client)
=============================================================================
