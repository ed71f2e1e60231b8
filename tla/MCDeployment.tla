---------------------------- MODULE MCDeployment ----------------------------
(* Small instances of Deployment.                                            *)
EXTENDS Deployment

CONSTANTS p1, p2, m1, m2

=============================================================================
