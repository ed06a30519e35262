--------------------------- MODULE MCDualPipeline ---------------------------
(* The instances of DualPipeline that TLC checks; the bounds are in the cfgs. *)
EXTENDS DualPipeline
=============================================================================
