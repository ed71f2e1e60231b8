----------------------------- MODULE MCHitlGraph -----------------------------
(* Small instances of HitlGraph.                                             *)
EXTENDS HitlGraph

\* start_run never sets force_judge_outcome; the tests do.
ProductionHooks == {None}
TestHooks == {None, "logic_issue", "escalate"}

=============================================================================
