---------------------------- MODULE MCReflector ----------------------------
(* The instances of Reflector that TLC checks: the two sockets, a peer, and *)
(* a source outside the allowlist.                                          *)
EXTENDS Reflector

CONSTANTS v4, v6, peer, other
=============================================================================
