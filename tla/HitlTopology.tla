---------------------------- MODULE HitlTopology ----------------------------
(***************************************************************************)
(* The shape of the HITL workflow graph: its nodes, the review gates, the  *)
(* edges between them and the routing functions of the conditional edges   *)
(* (build_hitl_graph).  No state lives here; HitlGraph and HitlService     *)
(* both walk this graph.                                                   *)
(***************************************************************************)

\* ArtefactType: the seven canonical artefacts.
BR == "business_requirement"
TR == "technical_requirement"
SM == "semantic_model"
DM == "data_model"
PIPELINE == "pipeline_specification"
METRICS == "metric_definitions"
RP == "review_package"

ArtefactTypes == {BR, TR, SM, DM, PIPELINE, METRICS, RP}

\* ReviewDecisionKind
Decisions == {"approve", "reject", "request_revisions"}

\* Nodes that wait in interrupt() for a reviewer.
Gates == {"await_tr_review", "await_mapping_review", "await_modelling_review",
          "await_implementation_review", "await_rp_review"}

\* Nodes that run an agent, a check or a bookkeeping step.
WorkNodes == {"ensure_br", "generate_tr", "reset_mapping_retries",
              "mapping_discovery", "mapping_data_mapping", "mapping_judge",
              "persist_mapping", "modelling", "generate_pipeline",
              "validate_pipeline", "generate_metrics", "assemble_rp",
              "approved", "terminated"}

END == "__end__"

Nodes == WorkNodes \cup Gates \cup {END}

\* Mutant: the modelling stage goes on without its gate.
EdgeWithoutModellingReview == [
  ensure_br |-> "generate_tr", generate_tr |-> "await_tr_review",
  reset_mapping_retries |-> "mapping_discovery",
  mapping_discovery |-> "mapping_data_mapping",
  mapping_data_mapping |-> "mapping_judge", persist_mapping |-> "await_mapping_review",
  modelling |-> "generate_pipeline", generate_pipeline |-> "validate_pipeline",
  validate_pipeline |-> "generate_metrics",
  generate_metrics |-> "await_implementation_review",
  assemble_rp |-> "await_rp_review", approved |-> END, terminated |-> END]

\* The unconditional edges.
Edge == [ensure_br |-> "generate_tr",
         generate_tr |-> "await_tr_review",
         reset_mapping_retries |-> "mapping_discovery",
         mapping_discovery |-> "mapping_data_mapping",
         mapping_data_mapping |-> "mapping_judge",
         persist_mapping |-> "await_mapping_review",
         modelling |-> "await_modelling_review",
         generate_pipeline |-> "validate_pipeline",
         validate_pipeline |-> "generate_metrics",
         generate_metrics |-> "await_implementation_review",
         assemble_rp |-> "await_rp_review",
         approved |-> END,
         terminated |-> END]

\* Mutant: approving the models skips the implementation stage.
OnApproveSkipping == [
  await_tr_review |-> "reset_mapping_retries", await_mapping_review |-> "modelling",
  await_modelling_review |-> "assemble_rp",
  await_implementation_review |-> "assemble_rp", await_rp_review |-> "approved"]

(***************************************************************************)
(* route_after_*_review composed with the path maps of the conditional     *)
(* edges: where each decision leads from each gate.                        *)
(***************************************************************************)
OnApprove == [await_tr_review |-> "reset_mapping_retries",
              await_mapping_review |-> "modelling",
              await_modelling_review |-> "generate_pipeline",
              await_implementation_review |-> "assemble_rp",
              await_rp_review |-> "approved"]

OnRevise == [await_tr_review |-> "generate_tr",
             await_mapping_review |-> "reset_mapping_retries",
             await_modelling_review |-> "modelling",
             await_implementation_review |-> "generate_metrics",
             await_rp_review |-> "assemble_rp"]

\* Mutant: a rejection is routed like a request for revisions.
AfterReviewNeverEnding(gate, decision) ==
  IF decision = "approve" THEN OnApprove[gate] ELSE OnRevise[gate]

AfterReview(gate, decision) ==
  CASE decision = "approve" -> OnApprove[gate]
    [] decision = "reject" -> "terminated"
    [] decision = "request_revisions" -> OnRevise[gate]

\* route_after_judge: the edge that mapping_judge's mapping_stage selects.
AfterJudge(stage) ==
  CASE stage = "discovery" -> "mapping_discovery"
    [] stage = "data_mapping" -> "mapping_data_mapping"
    [] OTHER -> "persist_mapping"

\* The type of the artefact that a gate presents.
ReviewedType == [await_tr_review |-> TR,
                 await_mapping_review |-> DM,
                 await_modelling_review |-> SM,
                 await_implementation_review |-> METRICS,
                 await_rp_review |-> RP]

\* The nodes between two gates, with the gate they lead to.
StageNodes ==
  {{"ensure_br", "generate_tr", "await_tr_review"},
   {"reset_mapping_retries", "mapping_discovery", "mapping_data_mapping",
    "mapping_judge", "persist_mapping", "await_mapping_review"},
   {"modelling", "await_modelling_review"},
   {"generate_pipeline", "validate_pipeline", "generate_metrics",
    "await_implementation_review"},
   {"assemble_rp", "await_rp_review"}}

=============================================================================
