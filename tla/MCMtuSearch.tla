----------------------------- MODULE MCMtuSearch -----------------------------
(* The instances of MtuSearch that TLC checks; sizes are scaled down. *)
EXTENDS MtuSearch
=============================================================================
