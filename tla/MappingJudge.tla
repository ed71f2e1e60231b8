---------------------------- MODULE MappingJudge ----------------------------
(***************************************************************************)
(* evaluate_mapping_proposal: the verdict on one mapping proposal and the  *)
(* retry counters after it.  A proposal is abstracted to what the judge    *)
(* looks at: whether it names any source, whether all its sources were     *)
(* discovered, and whether it has any entity.                              *)
(***************************************************************************)
EXTENDS Naturals

CONSTANTS
  SchemaCap,  \* mapping_schema_retry_cap
  LogicCap,   \* mapping_logic_retry_cap
  None        \* no forced outcome

ASSUME CapAssumption == SchemaCap \in Nat /\ LogicCap \in Nat

JudgeOutcomes == {"pass", "schema_issue", "logic_issue", "escalate"}

Proposals == [hasSources : BOOLEAN, sourcesKnown : BOOLEAN, hasEntities : BOOLEAN]

Retries == [schema : Nat, logic : Nat]

\* What is wrong with the proposal: forced by the test hook, or found by the
\* deterministic checks, in their order.
Complaint(proposal, force) ==
  IF force # None THEN force
  ELSE IF ~proposal.hasSources \/ ~proposal.sourcesKnown THEN "schema_issue"
  ELSE IF ~proposal.hasEntities THEN "logic_issue"
  ELSE "pass"

\* Mutant: the cap is compared with the retries already made.
CapExhaustedLate(complaint, retries) ==
  \/ complaint = "schema_issue" /\ retries.schema > SchemaCap
  \/ complaint = "logic_issue" /\ retries.logic > LogicCap

\* One more retry of the kind complained about, unless its cap is used up.
CapExhausted(complaint, retries) ==
  \/ complaint = "schema_issue" /\ retries.schema + 1 > SchemaCap
  \/ complaint = "logic_issue" /\ retries.logic + 1 > LogicCap

\* Mutant: out of retries, the proposal passes.
EvaluateGivingUp(proposal, retries, force) ==
  LET complaint == Complaint(proposal, force)
      outcome == IF CapExhausted(complaint, retries) THEN "pass" ELSE complaint
  IN  [outcome |-> outcome,
       retries |-> [schema |-> retries.schema + (IF outcome = "schema_issue" THEN 1 ELSE 0),
                    logic |-> retries.logic + (IF outcome = "logic_issue" THEN 1 ELSE 0)]]

\* Mutant: the retry counters are not carried on.
EvaluateForgetful(proposal, retries, force) ==
  [outcome |-> Complaint(proposal, force), retries |-> retries]

\* JudgeResult: the outcome, and the counters, unchanged by an escalation.
Evaluate(proposal, retries, force) ==
  LET complaint == Complaint(proposal, force)
      outcome == IF CapExhausted(complaint, retries) THEN "escalate" ELSE complaint
  IN  [outcome |-> outcome,
       retries |-> [schema |-> retries.schema + (IF outcome = "schema_issue" THEN 1 ELSE 0),
                    logic |-> retries.logic + (IF outcome = "logic_issue" THEN 1 ELSE 0)]]

\* mapping_judge_node: the mapping_stage the outcome leads to.
StageAfter(outcome) ==
  CASE outcome = "schema_issue" -> "discovery"
    [] outcome = "logic_issue" -> "data_mapping"
    [] OTHER -> "persist_mapping"

=============================================================================
