---------------------------- MODULE MCTwampBurst ----------------------------
(* The instances of TwampBurst that TLC checks; the bounds are in the cfgs. *)
EXTENDS TwampBurst
=============================================================================
