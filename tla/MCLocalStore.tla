---------------------------- MODULE MCLocalStore ----------------------------
(* The instances of LocalStore that TLC checks; the bounds are in the cfgs. *)
EXTENDS LocalStore
=============================================================================
