---------------------------- MODULE MCReviewPage ----------------------------
(* Small instances of ReviewPage.                                            *)
EXTENDS ReviewPage

CONSTANTS p1, p2, r1, r2, r3, r4

=============================================================================
