---------------------------- MODULE MCHitlService ----------------------------
(* Small instances of HitlService.                                           *)
EXTENDS HitlService, TLC

CONSTANTS r1, r2, r3, r4

ReviewSymmetry == Permutations(Reviews)

=============================================================================
