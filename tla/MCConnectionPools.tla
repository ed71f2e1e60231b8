------------------------- MODULE MCConnectionPools -------------------------
(* Instances of ConnectionPools for TLC.                                   *)
EXTENDS ConnectionPools

CONSTANTS q1, q2, q3
=============================================================================
