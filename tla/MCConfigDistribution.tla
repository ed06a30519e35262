------------------------ MODULE MCConfigDistribution ------------------------
(* The instances of ConfigDistribution that TLC checks. *)
EXTENDS ConfigDistribution
=============================================================================
