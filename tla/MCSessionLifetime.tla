-------------------------- MODULE MCSessionLifetime --------------------------
(* Instances of SessionLifetime for TLC.                                   *)
EXTENDS SessionLifetime

CONSTANTS s1, s2, o1, o2, o3, b1, b2
=============================================================================
