----------------------------- MODULE MCTraceRoute -----------------------------
(* The instances of TraceRoute that TLC checks; the bounds are in the cfgs. *)
EXTENDS TraceRoute
=============================================================================
