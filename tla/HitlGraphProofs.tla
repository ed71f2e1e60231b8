--------------------------- MODULE HitlGraphProofs ---------------------------
(***************************************************************************)
(* Proofs about the workflow graph of one run: for any caps on the judge's *)
(* retries, any number of revisions at every gate, and nodes that raise    *)
(* half-way through their saves.                                           *)
(*                                                                         *)
(* The invariants come in parts, each about some of the variables: where   *)
(* the control is (Control), the retry counters (RetryInv), the two copies *)
(* of the lineage (LineageInv), what the gates present and reviewers       *)
(* approved (ReviewInv), what the artefacts derive from (DerivInv), and    *)
(* the stage of the review the run is in (LifeInv).                        *)
(***************************************************************************)
EXTENDS HitlGraph, TLAPS

-----------------------------------------------------------------------------
\* The shape of the graph

\* Every edge leads to a node, and none but a gate's leads back to a gate's
\* generator.
LEMMA EdgesLead ==
  \A n \in WorkNodes \ {"mapping_judge"} : Edge[n] \in Nodes
BY DEF Edge, WorkNodes, Nodes, Gates, END

\* So does every decision of a reviewer.
LEMMA ReviewsLead ==
  ASSUME NEW g \in Gates, NEW d \in Decisions
  PROVE  AfterReview(g, d) \in WorkNodes
BY DEF AfterReview, OnApprove, OnRevise, Gates, Decisions, WorkNodes

\* The types of the artefacts that a node saves.
TypesOf(n) ==
  CASE n = "ensure_br" -> {BR}
    [] n = "generate_tr" -> {TR}
    [] n = "persist_mapping" -> {DM}
    [] n = "modelling" -> {DM, SM}
    [] n = "generate_pipeline" -> {PIPELINE}
    [] n = "generate_metrics" -> {METRICS}
    [] n = "assemble_rp" -> {RP}
    [] n = "approved" -> {RP}
    [] OTHER -> {}

\* A row is the next version of its type, with parents that exist as references.
LEMMA RowsTyped ==
  ASSUME TypeOK, NEW n \in SavingNodes, NEW r \in RowsOf(n)
  PROVE  /\ r.ref.type \in TypesOf(n) /\ r.ref.type \in ArtefactTypes
         /\ r.ref = NewRef(r.ref.type) /\ r.ref \in Ref
         /\ r.parents \subseteq Ref
<1>. USE DEF ArtefactTypes, BR, TR, SM, DM, PIPELINE, METRICS, RP
<1>1. /\ ver \in [Keys -> Nat] /\ latest \in [ArtefactTypes -> Nat] /\ parents \subseteq Ref \X Ref
  BY DEF TypeOK
<1>2. \A t \in ArtefactTypes : NewRef(t) \in Ref /\ NewRef(t).type = t
  BY <1>1 DEF NewRef, Ref
<1>3. \A t \in ArtefactTypes, k \in Keys : StateRef(t, k) \subseteq Ref
  BY <1>1 DEF StateRef, Ref
<1>4. \A x : ParentsOf(x) \subseteq Ref
  BY <1>1 DEF ParentsOf
<1>5. \E t \in TypesOf(n), refs \in SUBSET Ref : t \in ArtefactTypes /\ r = NewRow(t, refs)
  <2>1. CASE n = "ensure_br"
    BY <2>1 DEF RowsOf, TypesOf
  <2>2. CASE n = "generate_tr"
    BY <2>2, <1>3 DEF RowsOf, TypesOf, TrRows, Keys
  <2>3. CASE n = "persist_mapping"
    BY <2>3, <1>3 DEF RowsOf, TypesOf, MappingRows, Keys
  <2>4. CASE n = "modelling"
    <3>1. ModellingParents \subseteq Ref
      BY <1>3 DEF ModellingParents, Keys
    <3>2. ModellingParents \cup {NewRef(DM)} \subseteq Ref
      BY <3>1, <1>2
    <3>. QED
      BY <2>4, <3>1, <3>2 DEF RowsOf, TypesOf, ModellingRows
  <2>5. CASE n = "generate_pipeline"
    BY <2>5, <1>3 DEF RowsOf, TypesOf, PipelineRows, Keys
  <2>6. CASE n = "generate_metrics"
    BY <2>6, <1>3 DEF RowsOf, TypesOf, MetricsRows, Keys
  <2>7. CASE n = "assemble_rp"
    <3>1. PackagePins \subseteq Ref
      BY <1>3 DEF PackagePins, Keys
    <3>. QED
      BY <2>7, <3>1 DEF RowsOf, TypesOf, PackageRows
  <2>8. CASE n = "approved"
    BY <2>8, <1>4 DEF RowsOf, TypesOf, ApprovedRows
  <2>. QED
    BY <2>1, <2>2, <2>3, <2>4, <2>5, <2>6, <2>7, <2>8 DEF SavingNodes
<1>. QED
  BY <1>2, <1>5 DEF NewRow

\* What rows of a node leave in the store.
LEMMA SavedRows ==
  ASSUME TypeOK, NEW n \in SavingNodes, NEW rows \in SUBSET RowsOf(n), SaveRows(rows)
  PROVE  /\ latest' \in [ArtefactTypes -> Nat]
         /\ \A t \in ArtefactTypes : latest'[t] \in {latest[t], latest[t] + 1}
         /\ \A t \in ArtefactTypes \ TypesOf(n) : latest'[t] = latest[t]
         /\ Links(rows) \subseteq Ref \X Ref
         /\ parents' = parents \cup Links(rows)
<1>1. latest \in [ArtefactTypes -> Nat]
  BY DEF TypeOK
<1>2. Links(rows) \subseteq Ref \X Ref
  BY RowsTyped DEF Links
<1>. QED
  BY <1>1, <1>2, RowsTyped DEF SaveRows

-----------------------------------------------------------------------------
\* Type correctness

\* The mapping subgraph's part of the state.
Mappings ==
  [stage : {None, "data_mapping", "judge", "discovery", "persist_mapping", "done"},
   retries : Retries, escalated : BOOLEAN, discovered : BOOLEAN,
   proposal : Proposals \cup {None}, hook : Hooks, emptyHook : BOOLEAN]

\* The judge returns counters and an outcome that route_after_judge knows.
LEMMA VerdictTyped ==
  ASSUME NEW proposal \in Proposals, NEW retries \in Retries, NEW hook \in Hooks
  PROVE  LET result == Evaluate(proposal, retries, hook) IN
           /\ result.retries \in Retries
           /\ result.outcome \in JudgeOutcomes
           /\ StageAfter(result.outcome) \in {"discovery", "data_mapping", "persist_mapping"}
           /\ AfterJudge(StageAfter(result.outcome)) \in
                {"mapping_discovery", "mapping_data_mapping", "persist_mapping"}
<1>1. Complaint(proposal, hook) \in JudgeOutcomes
  BY HooksAssumption DEF Complaint, JudgeOutcomes
<1>. QED
  BY <1>1 DEF Evaluate, Retries, JudgeOutcomes, StageAfter, AfterJudge

\* The state of a new run.
LEMMA InitTyped == Init => TypeOK
<1>. SUFFICES ASSUME Init PROVE TypeOK
  OBVIOUS
<1>1. mapping \in Mappings
  BY HooksAssumption DEF Init, Mappings, Retries
<1>. QED
  BY <1>1 DEF Init, TypeOK, Mappings, Nodes, WorkNodes, Gates, Ref

\* A node that saves leaves a store of its type, if it completes ...
LEMMA SavesTyped ==
  ASSUME TypeOK, NEW n \in SavingNodes, SavesLinked(n)
  PROVE  /\ latest' \in [ArtefactTypes -> Nat] /\ parents' \subseteq Ref \X Ref
         /\ edges' \subseteq Ref \X Ref /\ published' \subseteq Nat
BY SavedRows DEF SavesLinked, TypeOK

\* A node that moves along its edge, with what it changes of its type.
LEMMA CompletesTyped ==
  ASSUME TypeOK, NEW n \in WorkNodes \ {"mapping_judge"}, Completes(n),
         ver' \in [Keys -> Nat], pending' \in Ref \cup {None}, decision' \in Decisions \cup {None},
         feedback' \in Gates \cup {None}, mapping' \in Mappings,
         latest' \in [ArtefactTypes -> Nat], parents' \subseteq Ref \X Ref,
         edges' \subseteq Ref \X Ref, published' \subseteq Nat,
         attempts' \in [discovery : Nat, mapping : Nat],
         node' \in Gates \cup {"approved"} => pending' # None,
         node' = "mapping_judge" => mapping'.proposal # None
  PROVE  TypeOK'
<1>1. node' \in Nodes
  BY EdgesLead DEF Completes
<1>. QED
  BY <1>1 DEF Completes, TypeOK, Mappings

\* The nodes that save, if they complete.
LEMMA SavingTyped ==
  ASSUME TypeOK,
         \/ EnsureBusinessRequirement \/ GenerateTechnicalRequirement \/ PersistMapping
         \/ GenerateModelling \/ GeneratePipeline \/ GenerateMetrics \/ AssembleReviewPackage
  PROVE  TypeOK'
<1>. USE DEF Keys, ArtefactTypes, BR, TR, SM, DM, PIPELINE, METRICS, RP
<1>1. /\ ver \in [Keys -> Nat] /\ latest \in [ArtefactTypes -> Nat] /\ mapping \in Mappings
      /\ pending \in Ref \cup {None} /\ decision \in Decisions \cup {None}
      /\ feedback \in Gates \cup {None} /\ attempts \in [discovery : Nat, mapping : Nat]
  BY DEF TypeOK, Mappings
<1>2. \A t \in ArtefactTypes : latest[t] + 1 \in Nat /\ NewRef(t) \in Ref /\ NewRef(t) # None
  <2>1. \A t \in ArtefactTypes : latest[t] + 1 \in Nat /\ NewRef(t) \in Ref
    BY <1>1 DEF NewRef, Ref
  <2>. QED
    BY <2>1, NoneAssumption
<1>3. CASE EnsureBusinessRequirement
  <2>1. /\ ver' \in [Keys -> Nat] /\ mapping' \in Mappings
        /\ node' = "generate_tr"
    BY <1>1, <1>2, <1>3
    DEF EnsureBusinessRequirement, Completes, Edge, Mappings, NoRetries, Retries
  <2>. QED
    BY <1>1, <1>3, <2>1, SavesTyped, CompletesTyped
    DEF EnsureBusinessRequirement, SavingNodes, WorkNodes, Gates
<1>4. CASE GenerateTechnicalRequirement
  <2>1. ver' \in [Keys -> Nat] /\ node' = "await_tr_review"
    BY <1>1, <1>2, <1>4 DEF GenerateTechnicalRequirement, Completes, Edge
  <2>. QED
    BY <1>1, <1>2, <1>4, <2>1, SavesTyped, CompletesTyped
    DEF GenerateTechnicalRequirement, Presents, SavingNodes, WorkNodes
<1>5. CASE PersistMapping
  <2>1. ver' \in [Keys -> Nat] /\ node' = "await_mapping_review" /\ mapping' \in Mappings
    BY <1>1, <1>2, <1>5, HooksAssumption DEF PersistMapping, Completes, Edge, Mappings
  <2>. QED
    BY <1>1, <1>2, <1>5, <2>1, SavesTyped, CompletesTyped
    DEF PersistMapping, Presents, SavingNodes, WorkNodes
<1>6. CASE GenerateModelling
  <2>1. ver' \in [Keys -> Nat] /\ node' = "await_modelling_review"
    BY <1>1, <1>2, <1>6 DEF GenerateModelling, Completes, Edge
  <2>. QED
    BY <1>1, <1>2, <1>6, <2>1, SavesTyped, CompletesTyped
    DEF GenerateModelling, Presents, SavingNodes, WorkNodes
<1>7. CASE GeneratePipeline
  <2>1. ver' \in [Keys -> Nat] /\ node' = "validate_pipeline"
    BY <1>1, <1>2, <1>7 DEF GeneratePipeline, Completes, Edge
  <2>. QED
    BY <1>1, <1>2, <1>7, <2>1, SavesTyped, CompletesTyped
    DEF GeneratePipeline, SavingNodes, WorkNodes, Gates
<1>8. CASE GenerateMetrics
  <2>1. ver' \in [Keys -> Nat] /\ node' = "await_implementation_review"
    BY <1>1, <1>2, <1>8 DEF GenerateMetrics, Completes, Edge
  <2>. QED
    BY <1>1, <1>2, <1>8, <2>1, SavesTyped, CompletesTyped
    DEF GenerateMetrics, Presents, SavingNodes, WorkNodes
<1>9. CASE AssembleReviewPackage
  <2>1. ver' \in [Keys -> Nat] /\ node' = "await_rp_review"
    BY <1>1, <1>2, <1>9 DEF AssembleReviewPackage, Completes, Edge
  <2>. QED
    BY <1>1, <1>2, <1>9, <2>1, SavesTyped, CompletesTyped
    DEF AssembleReviewPackage, Presents, SavingNodes, WorkNodes
<1>. QED
  BY <1>3, <1>4, <1>5, <1>6, <1>7, <1>8, <1>9

\* The nodes that save nothing.
LEMMA OthersTyped ==
  ASSUME TypeOK,
         \/ ResetMappingRetries \/ Discovery \/ DataMapping \/ ValidatePipeline \/ MarkTerminated
  PROVE  TypeOK'
<1>1. /\ ver \in [Keys -> Nat] /\ mapping \in Mappings
      /\ pending \in Ref \cup {None} /\ decision \in Decisions \cup {None}
      /\ feedback \in Gates \cup {None} /\ attempts \in [discovery : Nat, mapping : Nat]
      /\ latest \in [ArtefactTypes -> Nat] /\ parents \subseteq Ref \X Ref
      /\ edges \subseteq Ref \X Ref /\ published \subseteq Nat
      /\ user \in [known : BOOLEAN, sees : BOOLEAN]
  BY DEF TypeOK, Mappings
<1>2. CASE ResetMappingRetries
  <2>1. mapping' \in Mappings /\ node' = "mapping_discovery"
    BY <1>1, <1>2 DEF ResetMappingRetries, Completes, Edge, Mappings, NoRetries, Retries
  <2>. QED
    BY <1>1, <1>2, <2>1, CompletesTyped DEF ResetMappingRetries, store, WorkNodes, Gates
<1>3. CASE Discovery
  <2>1. mapping' \in Mappings /\ node' = "mapping_data_mapping"
    BY <1>1, <1>3 DEF Discovery, Completes, Edge, Mappings
  <2>2. attempts' \in [discovery : Nat, mapping : Nat]
    BY <1>1, <1>3 DEF Discovery, OneMore
  <2>. QED
    BY <1>1, <1>3, <2>1, <2>2, CompletesTyped DEF Discovery, store, WorkNodes, Gates
<1>4. CASE DataMapping
  <2>. DEFINE proposal == [hasSources |-> mapping.discovered /\ ~mapping.emptyHook,
                           sourcesKnown |-> TRUE, hasEntities |-> mapping.discovered]
  <2>1. proposal \in Proposals
    BY <1>1 DEF Mappings, Proposals
  <2>2. /\ mapping' = [mapping EXCEPT !.proposal = proposal, !.stage = "judge"]
        /\ node' = "mapping_judge" /\ attempts' \in [discovery : Nat, mapping : Nat]
    BY <1>1, <1>4 DEF DataMapping, Completes, Edge, OneMore
  <2>. HIDE DEF proposal
  <2>3. mapping' \in Mappings /\ mapping'.proposal = proposal /\ proposal # None
    BY <1>1, <2>1, <2>2, NoneAssumption DEF Mappings
  <2>. QED
    BY <1>1, <1>4, <2>2, <2>3, CompletesTyped DEF DataMapping, store, WorkNodes, Gates
<1>5. CASE ValidatePipeline
  <2>1. node' = "generate_metrics"
    BY <1>5 DEF ValidatePipeline, Completes, Edge
  <2>. QED
    BY <1>1, <1>5, <2>1, CompletesTyped DEF ValidatePipeline, store, WorkNodes, Gates
<1>6. CASE MarkTerminated
  <2>1. node' = END
    BY <1>6 DEF MarkTerminated, Completes, Edge
  <2>. QED
    BY <1>1, <1>6, <2>1, CompletesTyped
    DEF MarkTerminated, store, WorkNodes, Gates, Decisions, END
<1>. QED
  BY <1>2, <1>3, <1>4, <1>5, <1>6

\* The judge.
LEMMA JudgeTyped == ASSUME TypeOK, JudgeMapping PROVE TypeOK'
<1>1. /\ node = "mapping_judge" /\ mapping \in Mappings /\ mapping.proposal \in Proposals
      /\ mapping.retries \in Retries /\ mapping.hook \in Hooks
  BY DEF JudgeMapping, TypeOK, Mappings
<1>. DEFINE result == Evaluate(mapping.proposal, mapping.retries, mapping.hook)
<1>2. /\ result.retries \in Retries
      /\ StageAfter(result.outcome) \in {"discovery", "data_mapping", "persist_mapping"}
      /\ AfterJudge(StageAfter(result.outcome)) \in
           {"mapping_discovery", "mapping_data_mapping", "persist_mapping"}
  BY <1>1, VerdictTyped
<1>3. /\ mapping' = [mapping EXCEPT !.retries = result.retries,
                                    !.escalated = result.outcome = "escalate",
                                    !.stage = StageAfter(result.outcome)]
      /\ node' = AfterJudge(StageAfter(result.outcome))
      /\ UNCHANGED <<failed, user, decision, feedback, ver, pending, store, reviews, attempts>>
  BY DEF JudgeMapping
<1>. HIDE DEF result
<1>4. mapping' \in Mappings
  BY <1>1, <1>2, <1>3 DEF Mappings
<1>5. node' \in WorkNodes /\ node' \notin Gates \cup {"approved", "mapping_judge"}
  BY <1>2, <1>3 DEF WorkNodes, Gates
<1>. QED
  BY <1>3, <1>4, <1>5 DEF TypeOK, Mappings, store, Nodes

\* The approved copy of the package.
LEMMA MarkApprovedTyped == ASSUME TypeOK, MarkApproved PROVE TypeOK'
<1>1. /\ ver \in [Keys -> Nat] /\ pending \in Ref \cup {None} /\ latest[RP] + 1 \in Nat
      /\ mapping \in Mappings /\ attempts \in [discovery : Nat, mapping : Nat]
      /\ feedback \in Gates \cup {None}
      /\ edges \subseteq Ref \X Ref /\ published \subseteq Nat
  BY DEF TypeOK, Mappings, ArtefactTypes
<1>2. latest' \in [ArtefactTypes -> Nat] /\ parents' \subseteq Ref \X Ref
  BY SavedRows DEF MarkApproved, SavingNodes, TypeOK
<1>3. node' = END
  BY DEF MarkApproved, Completes, Edge
<1>4. /\ ver' \in [Keys -> Nat] /\ published' \subseteq Nat
  BY <1>1 DEF MarkApproved, Keys
<1>5. pending' \in Ref
  <2>1. pending \in Ref
    BY DEF TypeOK, MarkApproved, Completes
  <2>. QED
    BY <1>1, <2>1 DEF MarkApproved, Ref
<1>. QED
  BY <1>1, <1>2, <1>3, <1>4, <1>5, CompletesTyped
  DEF MarkApproved, WorkNodes, Gates, Decisions, END

\* A node that raises, with what it has saved.
LEMMA RaisesTyped ==
  ASSUME TypeOK, NodeRaises
  PROVE  TypeOK' /\ UNCHANGED <<node, user, decision, feedback, ver, pending, mapping, reviews, attempts>>
         /\ failed' = TRUE /\ ~failed
<1>1. CASE DiscoveryRefused
  BY <1>1 DEF DiscoveryRefused, Raises, store, TypeOK, WorkNodes
<1>2. ASSUME NEW n \in SavingNodes, SaveRaises(n) PROVE TypeOK' /\ Raises /\ ~failed
  <2>1. PICK saved \in SUBSET RowsOf(n) :
          /\ SaveRows(saved)
          /\ published' \in {published, published \cup {latest[RP] + 1}}
          /\ edges' \subseteq edges \cup Links(saved)
    BY <1>2 DEF SaveRaises
  <2>2. /\ latest' \in [ArtefactTypes -> Nat] /\ Links(saved) \subseteq Ref \X Ref
        /\ parents' = parents \cup Links(saved)
    BY <2>1, SavedRows
  <2>3. latest[RP] + 1 \in Nat
    BY DEF TypeOK, ArtefactTypes
  <2>4. Raises /\ ~failed /\ node \in WorkNodes
    BY <1>2 DEF SaveRaises, SavingNodes, WorkNodes
  <2>. QED
    BY <2>1, <2>2, <2>3, <2>4 DEF Raises, TypeOK
<1>. QED
  BY <1>1, <1>2 DEF NodeRaises, Raises, DiscoveryRefused

\* A review.
LEMMA ReviewTyped ==
  ASSUME TypeOK, NEW gate \in Gates, NEW d \in Decisions, AwaitReview(gate, d)
  PROVE  TypeOK'
<1>1. pending \in Ref /\ node = gate
  BY DEF AwaitReview, TypeOK
<1>2. node' \in WorkNodes /\ node' \notin Gates /\ node' # "mapping_judge"
  BY DEF AwaitReview, AfterReview, OnApprove, OnRevise, Gates, Decisions, WorkNodes
<1>3. ~failed
  BY <1>1 DEF TypeOK, WorkNodes, Gates
<1>4. [gate |-> gate, artefact |-> pending, decision |-> d] \in Review
  BY <1>1 DEF Review
<1>5. attempts' \in [discovery : Nat, mapping : Nat]
  BY DEF AwaitReview
<1>. QED
  BY <1>2, <1>3, <1>4, <1>5 DEF AwaitReview, TypeOK, store, Nodes

\* No step breaks the type.
LEMMA NextTyped == TypeOK /\ [Next]_vars => TypeOK'
<1>. SUFFICES ASSUME TypeOK, [Next]_vars PROVE TypeOK'
  OBVIOUS
<1>1. CASE NodeCompletes
  BY <1>1, SavingTyped, OthersTyped, JudgeTyped, MarkApprovedTyped DEF NodeCompletes
<1>2. CASE NodeRaises
  BY <1>2, RaisesTyped
<1>3. CASE Reviewed
  BY <1>3, ReviewTyped DEF Reviewed
<1>4. CASE UNCHANGED vars
  BY <1>4 DEF vars, control, store, TypeOK
<1>. QED
  BY <1>1, <1>2, <1>3, <1>4 DEF Next

\* Every variable keeps its type; a gate always has an artefact to present.
THEOREM TypeCorrect == Spec => []TypeOK
BY InitTyped, NextTyped, PTL DEF Spec

-----------------------------------------------------------------------------
\* Where the control is

\* A rejected run is at its end, or about to be.
RejectionEnds ==
  (\E r \in reviews : r.decision = "reject") => node \in {"terminated", END}

Control == RejectionEnds /\ FeedbackStaysInStage

\* A work node of a stage leads to another node of it.
LEMMA StageGoesOn ==
  ASSUME NEW nodes \in StageNodes, NEW n \in nodes \ (Gates \cup {"mapping_judge"})
  PROVE  n \in WorkNodes /\ Edge[n] \in nodes
BY DEF StageNodes, Gates, Edge, WorkNodes

\* Asking for revisions stays in the stage of the gate.
LEMMA RevisionsStay ==
  ASSUME NEW g \in Gates
  PROVE  \E nodes \in StageNodes : g \in nodes /\ AfterReview(g, "request_revisions") \in nodes
<1>1. AfterReview(g, "request_revisions") = OnRevise[g]
  BY DEF AfterReview
<1>2. CASE g = "await_tr_review"
  BY <1>1, <1>2 DEF StageNodes, OnRevise
<1>3. CASE g = "await_mapping_review"
  BY <1>1, <1>3 DEF StageNodes, OnRevise
<1>4. CASE g = "await_modelling_review"
  BY <1>1, <1>4 DEF StageNodes, OnRevise
<1>5. CASE g = "await_implementation_review"
  BY <1>1, <1>5 DEF StageNodes, OnRevise
<1>6. CASE g = "await_rp_review"
  BY <1>1, <1>6 DEF StageNodes, OnRevise
<1>. QED
  BY <1>2, <1>3, <1>4, <1>5, <1>6 DEF Gates

\* Nothing completes but a work node; it keeps the feedback or drops it.
LEMMA Completed ==
  ASSUME TypeOK, NodeCompletes
  PROVE  /\ node \in WorkNodes /\ ~failed /\ failed' = failed /\ reviews' = reviews
         /\ feedback' \in {feedback, None}
         /\ IF node = "mapping_judge"
            THEN node' \in {"mapping_discovery", "mapping_data_mapping", "persist_mapping"}
            ELSE node' = Edge[node]
<1>1. CASE JudgeMapping
  BY <1>1, VerdictTyped DEF JudgeMapping, TypeOK, WorkNodes
<1>2. ASSUME NEW n \in WorkNodes \ {"mapping_judge"}, Completes(n), feedback' \in {feedback, None}
      PROVE  /\ node \in WorkNodes \ {"mapping_judge"} /\ ~failed /\ failed' = failed
             /\ reviews' = reviews /\ feedback' \in {feedback, None} /\ node' = Edge[node]
  BY <1>2 DEF Completes
<1>3. CASE ~JudgeMapping
  <2>1. \E n \in WorkNodes \ {"mapping_judge"} : Completes(n) /\ feedback' \in {feedback, None}
    BY <1>3 DEF NodeCompletes, WorkNodes, EnsureBusinessRequirement, GenerateTechnicalRequirement,
       ResetMappingRetries, Discovery, DataMapping, PersistMapping, GenerateModelling,
       GeneratePipeline, ValidatePipeline, GenerateMetrics, AssembleReviewPackage, MarkApproved,
       MarkTerminated
  <2>. QED
    BY <1>2, <2>1
<1>. QED
  BY <1>1, <1>3

\* No step takes a rejected run on, or feedback out of its stage.
LEMMA NextControl == TypeOK /\ Control /\ [Next]_vars => Control'
<1>. SUFFICES ASSUME TypeOK, Control, [Next]_vars PROVE Control'
  OBVIOUS
<1>1. CASE NodeCompletes
  <2>1. /\ node \in WorkNodes /\ reviews' = reviews /\ feedback' \in {feedback, None}
        /\ IF node = "mapping_judge"
           THEN node' \in {"mapping_discovery", "mapping_data_mapping", "persist_mapping"}
           ELSE node' = Edge[node]
    BY <1>1, Completed
  <2>2. RejectionEnds'
    BY <2>1 DEF Control, RejectionEnds, Edge, WorkNodes, END
  <2>3. ASSUME feedback # None
        PROVE  \E nodes \in StageNodes :
                 feedback \in nodes /\ node' \in nodes \cup {"terminated", END}
    <3>1. PICK nodes \in StageNodes : feedback \in nodes /\ node \in nodes \cup {"terminated", END}
      BY <2>3 DEF Control, FeedbackStaysInStage
    <3>2. CASE node = "terminated"
      BY <2>1, <3>1, <3>2 DEF Edge
    <3>3. CASE node = "mapping_judge"
      BY <2>1, <3>1, <3>3 DEF StageNodes, END
    <3>4. CASE node \notin {"terminated", "mapping_judge"}
      <4>1. node \in nodes \ (Gates \cup {"mapping_judge"})
        BY <2>1, <3>1, <3>4 DEF WorkNodes, Gates, END
      <4>. QED
        BY <2>1, <3>1, <3>4, <4>1, StageGoesOn
    <3>. QED
      BY <3>2, <3>3, <3>4
  <2>. QED
    BY <2>1, <2>2, <2>3 DEF Control, FeedbackStaysInStage
<1>2. CASE NodeRaises
  BY <1>2, RaisesTyped DEF Control, RejectionEnds, FeedbackStaysInStage
<1>3. CASE Reviewed
  <2>1. PICK gate \in Gates, d \in Decisions : AwaitReview(gate, d)
    BY <1>3 DEF Reviewed
  <2>2. /\ node = gate /\ node' = AfterReview(gate, d)
        /\ feedback' = IF d = "request_revisions" THEN gate ELSE None
        /\ reviews' = reviews \cup {[gate |-> gate, artefact |-> pending, decision |-> d]}
    BY <2>1 DEF AwaitReview
  <2>3. RejectionEnds'
    <3>1. \A r \in reviews : r.decision # "reject"
      BY <2>2 DEF Control, RejectionEnds, Gates, END
    <3>2. d = "reject" => node' = "terminated"
      BY <2>2 DEF AfterReview
    <3>. QED
      BY <2>2, <3>1, <3>2 DEF RejectionEnds
  <2>4. FeedbackStaysInStage'
    BY <2>2, RevisionsStay DEF FeedbackStaysInStage
  <2>. QED
    BY <2>3, <2>4 DEF Control
<1>4. CASE UNCHANGED vars
  BY <1>4 DEF vars, control, Control, RejectionEnds, FeedbackStaysInStage
<1>. QED
  BY <1>1, <1>2, <1>3, <1>4 DEF Next

\* The control invariant, for any caps and any number of revisions.
LEMMA ControlInvariant == Spec => [](TypeOK /\ Control)
<1>1. Init => TypeOK /\ Control
  BY InitTyped DEF Init, Control, RejectionEnds, FeedbackStaysInStage
<1>2. (TypeOK /\ Control) /\ [Next]_vars => (TypeOK /\ Control)'
  BY NextTyped, NextControl
<1>. QED
  BY <1>1, <1>2, PTL DEF Spec

\* Feedback reaches the generators of its own stage only.
THEOREM FeedbackInStage == Spec => []FeedbackStaysInStage
<1>1. Control => FeedbackStaysInStage
  BY DEF Control
<1>. QED
  BY <1>1, ControlInvariant, PTL

\* Nothing is saved after a rejection: the node a rejection leads to saves
\* nothing, and no edge leads back.
THEOREM RejectionFinal == Spec => NothingSavedAfterReject
<1>1. TypeOK /\ Control /\ [Next]_vars =>
        [(\E r \in reviews : r.decision = "reject") => UNCHANGED <<latest, edges, published>>]_vars
  <2>. SUFFICES ASSUME TypeOK, Control, Next, node \in {"terminated", END}
                PROVE  UNCHANGED <<latest, edges, published>>
    BY DEF Control, RejectionEnds
  <2>1. NodeCompletes => MarkTerminated
    BY DEF NodeCompletes, EnsureBusinessRequirement, GenerateTechnicalRequirement,
       ResetMappingRetries, Discovery, DataMapping, JudgeMapping, PersistMapping,
       GenerateModelling, GeneratePipeline, ValidatePipeline, GenerateMetrics,
       AssembleReviewPackage, MarkApproved, Completes, END
  <2>2. ~NodeRaises /\ ~Reviewed
    BY DEF NodeRaises, DiscoveryRefused, SaveRaises, SavingNodes, Reviewed, AwaitReview, Gates, END
  <2>. QED
    BY <2>1, <2>2 DEF Next, MarkTerminated, store
<1>. QED
  BY <1>1, ControlInvariant, PTL DEF Spec, NothingSavedAfterReject

-----------------------------------------------------------------------------
\* The judge's retries

\* Inside the mapping subgraph the retry counters say how often each of its
\* nodes has run since it was entered.
CountersTell ==
  LET s == mapping.retries.schema
      l == mapping.retries.logic
  IN  /\ s <= SchemaCap /\ l <= LogicCap
      /\ node = "reset_mapping_retries" => attempts.discovery = 0 /\ attempts.mapping = 0
      /\ node = "mapping_discovery" => attempts.discovery = s /\ attempts.mapping = s + l
      /\ node = "mapping_data_mapping" => attempts.discovery = s + 1 /\ attempts.mapping = s + l
      /\ node \in {"mapping_judge", "persist_mapping"} =>
           attempts.discovery = s + 1 /\ attempts.mapping = s + l + 1

RetryInv == CountersTell /\ RetriesBounded /\ VerdictIsEarned

\* The counters and attempts are numbers.
LEMMA CountersTyped ==
  ASSUME TypeOK
  PROVE  /\ mapping \in Mappings /\ mapping.retries \in Retries
         /\ mapping.retries.schema \in Nat /\ mapping.retries.logic \in Nat
         /\ attempts \in [discovery : Nat, mapping : Nat]
         /\ attempts.discovery \in Nat /\ attempts.mapping \in Nat
         /\ SchemaCap \in Nat /\ LogicCap \in Nat
BY CapAssumption DEF TypeOK, Mappings, Retries

\* A step that touches neither counters nor attempts, and does not enter the
\* subgraph, keeps the invariant.
LEMMA RetriesKept ==
  ASSUME RetryInv, UNCHANGED attempts, mapping'.retries = mapping.retries,
         \/ node' \notin {"reset_mapping_retries", "mapping_discovery", "mapping_data_mapping",
                          "mapping_judge", "persist_mapping"}
         \/ node' = node /\ mapping' = mapping
  PROVE  RetryInv'
BY DEF RetryInv, CountersTell, RetriesBounded, VerdictIsEarned

\* The judge: whatever the complaint, a retry has a cap left to use.
LEMMA JudgeRetries == ASSUME TypeOK, RetryInv, JudgeMapping PROVE RetryInv'
<1>. DEFINE s == mapping.retries.schema
            l == mapping.retries.logic
            complaint == Complaint(mapping.proposal, mapping.hook)
            exhausted == CapExhausted(complaint, mapping.retries)
            outcome == IF exhausted THEN "escalate" ELSE complaint
            retries == [schema |-> s + (IF outcome = "schema_issue" THEN 1 ELSE 0),
                        logic |-> l + (IF outcome = "logic_issue" THEN 1 ELSE 0)]
<1>1. /\ node = "mapping_judge" /\ attempts' = attempts
      /\ mapping' = [mapping EXCEPT !.retries = retries, !.escalated = outcome = "escalate",
                                    !.stage = StageAfter(outcome)]
      /\ node' = AfterJudge(StageAfter(outcome))
  BY DEF JudgeMapping, Evaluate
<1>2. /\ s \in Nat /\ l \in Nat /\ s <= SchemaCap /\ l <= LogicCap
      /\ attempts.discovery = s + 1 /\ attempts.mapping = s + l + 1
      /\ SchemaCap \in Nat /\ LogicCap \in Nat
  BY <1>1, CountersTyped DEF RetryInv, CountersTell
<1>3. /\ complaint \in JudgeOutcomes
      /\ complaint = "escalate" => mapping.hook = "escalate"
  <2>1. mapping.hook \in Hooks
    BY CountersTyped DEF Mappings
  <2>. QED
    BY <2>1, HooksAssumption DEF Complaint, JudgeOutcomes
<1>4. /\ exhausted => \/ complaint = "schema_issue" /\ s = SchemaCap
                      \/ complaint = "logic_issue" /\ l = LogicCap
      /\ ~exhausted /\ complaint = "schema_issue" => s + 1 <= SchemaCap
      /\ ~exhausted /\ complaint = "logic_issue" => l + 1 <= LogicCap
  BY <1>2 DEF CapExhausted
<1>5. /\ mapping'.retries = retries /\ mapping'.escalated = (outcome = "escalate")
      /\ mapping'.proposal = mapping.proposal /\ mapping'.hook = mapping.hook
  BY <1>1, CountersTyped DEF Mappings
<1>. HIDE DEF complaint, exhausted
<1>6. CASE outcome = "schema_issue"
  <2>1. node' = "mapping_discovery"
    BY <1>1, <1>6 DEF AfterJudge, StageAfter
  <2>2. /\ complaint = "schema_issue" /\ s + 1 <= SchemaCap
        /\ mapping'.retries.schema = s + 1 /\ mapping'.retries.logic = l
    BY <1>2, <1>4, <1>5, <1>6
  <2>. HIDE DEF s, l, outcome, retries
  <2>. QED
    BY <1>1, <1>2, <2>1, <2>2 DEF RetryInv, CountersTell, RetriesBounded, VerdictIsEarned
<1>7. CASE outcome = "logic_issue"
  <2>1. node' = "mapping_data_mapping"
    BY <1>1, <1>7 DEF AfterJudge, StageAfter
  <2>2. /\ complaint = "logic_issue" /\ l + 1 <= LogicCap
        /\ mapping'.retries.schema = s /\ mapping'.retries.logic = l + 1
    BY <1>2, <1>4, <1>5, <1>7
  <2>. HIDE DEF s, l, outcome, retries
  <2>. QED
    BY <1>1, <1>2, <2>1, <2>2 DEF RetryInv, CountersTell, RetriesBounded, VerdictIsEarned
<1>8. CASE outcome \in {"pass", "escalate"}
  <2>1. node' = "persist_mapping"
    BY <1>1, <1>8 DEF AfterJudge, StageAfter
  <2>2. mapping'.retries.schema = s /\ mapping'.retries.logic = l
    BY <1>2, <1>5, <1>8
  <2>3. CASE outcome = "pass"
    <3>1. complaint = "pass" /\ ~mapping'.escalated
      BY <1>5, <2>3
    <3>2. Complaint(mapping'.proposal, mapping'.hook) = "pass"
      BY <1>5, <3>1 DEF complaint
    <3>. HIDE DEF s, l, outcome, retries
    <3>. QED
      BY <1>1, <1>2, <2>1, <2>2, <3>1, <3>2
      DEF RetryInv, CountersTell, RetriesBounded, VerdictIsEarned
  <2>4. CASE outcome = "escalate"
    <3>1. /\ mapping'.escalated
          /\ mapping'.hook = "escalate" \/ s = SchemaCap \/ l = LogicCap
      BY <1>3, <1>4, <1>5, <2>4
    <3>. HIDE DEF s, l, outcome, retries
    <3>. QED
      BY <1>1, <1>2, <2>1, <2>2, <3>1
      DEF RetryInv, CountersTell, RetriesBounded, VerdictIsEarned
  <2>. QED
    BY <1>8, <2>3, <2>4
<1>. QED
  BY <1>3, <1>6, <1>7, <1>8 DEF JudgeOutcomes

\* No step loses count.
LEMMA NextRetries == TypeOK /\ RetryInv /\ [Next]_vars => RetryInv'
<1>. SUFFICES ASSUME TypeOK, RetryInv, [Next]_vars PROVE RetryInv'
  OBVIOUS
<1>1. /\ mapping \in Mappings
      /\ mapping.retries.schema \in Nat /\ mapping.retries.logic \in Nat
      /\ attempts \in [discovery : Nat, mapping : Nat]
      /\ attempts.discovery \in Nat /\ attempts.mapping \in Nat
      /\ SchemaCap \in Nat /\ LogicCap \in Nat
  BY CountersTyped
<1>2. CASE EnsureBusinessRequirement
  <2>1. node' = "generate_tr" /\ attempts' = attempts /\ mapping'.retries = NoRetries
    BY <1>1, <1>2 DEF EnsureBusinessRequirement, Completes, Edge, Mappings
  <2>. QED
    BY <1>1, <2>1 DEF RetryInv, CountersTell, RetriesBounded, VerdictIsEarned, NoRetries
<1>3. CASE \/ GenerateTechnicalRequirement \/ GenerateModelling \/ GeneratePipeline
           \/ ValidatePipeline \/ GenerateMetrics \/ AssembleReviewPackage \/ MarkApproved
           \/ MarkTerminated
  <2>1. /\ attempts' = attempts /\ mapping' = mapping
        /\ node' \notin {"reset_mapping_retries", "mapping_discovery", "mapping_data_mapping",
                         "mapping_judge", "persist_mapping"}
    BY <1>3 DEF Completes, Edge, GenerateTechnicalRequirement, GenerateModelling, GeneratePipeline,
       ValidatePipeline, GenerateMetrics, AssembleReviewPackage, MarkApproved, MarkTerminated, END
  <2>. QED
    BY <2>1, RetriesKept
<1>4. CASE ResetMappingRetries
  <2>1. /\ node = "reset_mapping_retries" /\ node' = "mapping_discovery" /\ attempts' = attempts
        /\ mapping'.retries = NoRetries
    BY <1>1, <1>4 DEF ResetMappingRetries, Completes, Edge, Mappings
  <2>. QED
    BY <1>1, <2>1 DEF RetryInv, CountersTell, RetriesBounded, VerdictIsEarned, NoRetries
<1>5. CASE Discovery
  <2>1. /\ node = "mapping_discovery" /\ node' = "mapping_data_mapping"
        /\ mapping'.retries = mapping.retries
        /\ attempts'.discovery = OneMore(attempts.discovery)
        /\ attempts'.mapping = attempts.mapping
    BY <1>1, <1>5 DEF Discovery, Completes, Edge, Mappings
  <2>. QED
    BY <1>1, <2>1
    DEF RetryInv, CountersTell, RetriesBounded, VerdictIsEarned, OneMore, AttemptsShown
<1>6. CASE DataMapping
  <2>1. /\ node = "mapping_data_mapping" /\ node' = "mapping_judge"
        /\ mapping'.retries = mapping.retries
        /\ attempts'.mapping = OneMore(attempts.mapping)
        /\ attempts'.discovery = attempts.discovery
    BY <1>1, <1>6 DEF DataMapping, Completes, Edge, Mappings
  <2>. QED
    BY <1>1, <2>1
    DEF RetryInv, CountersTell, RetriesBounded, VerdictIsEarned, OneMore, AttemptsShown
<1>7. CASE PersistMapping
  <2>1. /\ node' = "await_mapping_review" /\ attempts' = attempts
        /\ mapping'.retries = mapping.retries
    BY <1>1, <1>7 DEF PersistMapping, Completes, Edge, Mappings
  <2>. QED
    BY <2>1, RetriesKept
<1>8. CASE NodeRaises
  <2>1. UNCHANGED <<node, mapping, attempts>>
    BY <1>8, RaisesTyped
  <2>. QED
    BY <2>1, RetriesKept
<1>9. CASE Reviewed
  <2>1. PICK gate \in Gates, d \in Decisions : AwaitReview(gate, d)
    BY <1>9 DEF Reviewed
  <2>2. /\ mapping' = mapping /\ attempts' = [discovery |-> 0, mapping |-> 0]
        /\ node' = AfterReview(gate, d)
    BY <2>1 DEF AwaitReview
  <2>3. node' \notin {"mapping_discovery", "mapping_data_mapping", "mapping_judge", "persist_mapping"}
    BY <2>2 DEF AfterReview, OnApprove, OnRevise, Gates, Decisions
  <2>. QED
    BY <1>1, <2>2, <2>3 DEF RetryInv, CountersTell, RetriesBounded, VerdictIsEarned
<1>10. CASE UNCHANGED vars
  BY <1>10, RetriesKept DEF vars, control
<1>. QED
  BY <1>2, <1>3, <1>4, <1>5, <1>6, <1>7, <1>8, <1>9, <1>10, JudgeRetries DEF Next, NodeCompletes

\* The counters of the judge's loop, for any caps.
LEMMA RetryInvariant == Spec => [](TypeOK /\ RetryInv)
<1>1. Init => TypeOK /\ RetryInv
  <2>. SUFFICES ASSUME Init PROVE RetryInv
    BY InitTyped
  <2>1. /\ node = "ensure_br" /\ mapping.retries = [schema |-> 0, logic |-> 0]
        /\ attempts = [discovery |-> 0, mapping |-> 0]
    BY DEF Init
  <2>. QED
    BY <2>1, CapAssumption DEF RetryInv, CountersTell, RetriesBounded, VerdictIsEarned
<1>2. (TypeOK /\ RetryInv) /\ [Next]_vars => (TypeOK /\ RetryInv)'
  BY NextTyped, NextRetries
<1>. QED
  BY <1>1, <1>2, PTL DEF Spec

\* The loop of both kinds of retry together is bounded by the two caps.
THEOREM LoopEnds == Spec => []RetriesBounded
<1>1. RetryInv => RetriesBounded
  BY DEF RetryInv
<1>. QED
  BY <1>1, RetryInvariant, PTL

\* A mapping reaches review on the verdict of its own round.
THEOREM VerdictOfItsRound == Spec => []VerdictIsEarned
<1>1. RetryInv => VerdictIsEarned
  BY DEF RetryInv
<1>. QED
  BY <1>1, RetryInvariant, PTL

\* How many nodes an invocation may still run before it comes to rest.
NodesLeft ==
  LET retries == (SchemaCap - mapping.retries.schema) + (LogicCap - mapping.retries.logic)
  IN  CASE node = "reset_mapping_retries" -> 3 * (SchemaCap + LogicCap) + 5
        [] node = "mapping_discovery" -> 3 * retries + 4
        [] node = "mapping_data_mapping" -> 3 * retries + 3
        [] node = "mapping_judge" -> 3 * retries + 2
        [] node = "generate_pipeline" -> 3
        [] node \in {"ensure_br", "validate_pipeline"} -> 2
        [] node \in Gates \cup {END} -> 0
        [] OTHER -> 1

RestIsNear ==
  /\ NodesLeft \in 0 .. 3 * (SchemaCap + LogicCap) + 5
  /\ NodesLeft = 0 <=> node \in Gates \cup {END}

\* The number is one, and runs out at a gate and at the end.
LEMMA NodesLeftRange == ASSUME TypeOK, RetryInv PROVE RestIsNear
<1>. DEFINE retries == (SchemaCap - mapping.retries.schema) + (LogicCap - mapping.retries.logic)
            caps == SchemaCap + LogicCap
<1>1. retries \in 0 .. caps /\ caps \in Nat
  BY CountersTyped DEF RetryInv, CountersTell
<1>2. NodesLeft =
        CASE node = "reset_mapping_retries" -> 3 * caps + 5
          [] node = "mapping_discovery" -> 3 * retries + 4
          [] node = "mapping_data_mapping" -> 3 * retries + 3
          [] node = "mapping_judge" -> 3 * retries + 2
          [] node = "generate_pipeline" -> 3
          [] node \in {"ensure_br", "validate_pipeline"} -> 2
          [] node \in Gates \cup {END} -> 0
          [] OTHER -> 1
  BY DEF NodesLeft
<1>3. 3 * retries \in 0 .. 3 * caps /\ 3 * caps \in Nat
  BY <1>1
<1>. HIDE DEF retries, caps
<1>4. NodesLeft \in 0 .. 3 * caps + 5 /\ (NodesLeft = 0 <=> node \in Gates \cup {END})
  BY <1>2, <1>3 DEF Gates, END
<1>. QED
  BY <1>4 DEF RestIsNear, caps

\* A retry uses up one of the retries left, and runs three nodes at most.
LEMMA JudgeShortens == ASSUME TypeOK, RetryInv, JudgeMapping PROVE NodesLeft' < NodesLeft
<1>. DEFINE s == mapping.retries.schema
            l == mapping.retries.logic
            outcome == Evaluate(mapping.proposal, mapping.retries, mapping.hook).outcome
<1>1. /\ s \in Nat /\ l \in Nat /\ s <= SchemaCap /\ l <= LogicCap
      /\ SchemaCap \in Nat /\ LogicCap \in Nat
  BY CountersTyped DEF RetryInv, CountersTell
<1>2. /\ node = "mapping_judge" /\ node' = AfterJudge(StageAfter(outcome))
      /\ mapping'.retries = Evaluate(mapping.proposal, mapping.retries, mapping.hook).retries
  BY CountersTyped DEF JudgeMapping, Mappings
<1>3. /\ outcome = "schema_issue" => mapping'.retries.schema = s + 1 /\ mapping'.retries.logic = l
      /\ outcome = "logic_issue" => mapping'.retries.schema = s /\ mapping'.retries.logic = l + 1
  BY <1>1, <1>2 DEF Evaluate
<1>4. NodesLeft = 3 * ((SchemaCap - s) + (LogicCap - l)) + 2
  BY <1>2 DEF NodesLeft, Gates, END
<1>. HIDE DEF s, l, outcome
<1>5. CASE outcome = "schema_issue"
  <2>1. node' = "mapping_discovery"
    BY <1>2, <1>5 DEF AfterJudge, StageAfter
  <2>2. NodesLeft' = 3 * ((SchemaCap - (s + 1)) + (LogicCap - l)) + 4
    BY <1>3, <1>5, <2>1 DEF NodesLeft, Gates, END
  <2>. QED
    BY <1>1, <1>4, <2>2
<1>6. CASE outcome = "logic_issue"
  <2>1. node' = "mapping_data_mapping"
    BY <1>2, <1>6 DEF AfterJudge, StageAfter
  <2>2. NodesLeft' = 3 * ((SchemaCap - s) + (LogicCap - (l + 1))) + 3
    BY <1>3, <1>6, <2>1 DEF NodesLeft, Gates, END
  <2>. QED
    BY <1>1, <1>4, <2>2
<1>7. CASE outcome \notin {"schema_issue", "logic_issue"}
  <2>1. node' = "persist_mapping"
    BY <1>2, <1>7 DEF AfterJudge, StageAfter
  <2>2. NodesLeft' = 1
    BY <2>1 DEF NodesLeft, Gates, END
  <2>. QED
    BY <1>1, <1>4, <2>2
<1>. QED
  BY <1>5, <1>6, <1>7

\* So does every other node: it goes one step along its edge.
LEMMA NodeShortens ==
  ASSUME TypeOK, RetryInv, NodeCompletes
  PROVE  NodesLeft' < NodesLeft
<1>1. mapping \in Mappings /\ RestIsNear
  BY CountersTyped, NodesLeftRange
<1>2. CASE ResetMappingRetries
  <2>1. /\ node = "reset_mapping_retries" /\ node' = "mapping_discovery"
        /\ mapping'.retries.schema = 0 /\ mapping'.retries.logic = 0
    BY <1>1, <1>2 DEF ResetMappingRetries, Completes, Edge, Mappings, NoRetries
  <2>2. NodesLeft = 3 * (SchemaCap + LogicCap) + 5 /\ NodesLeft' = 3 * (SchemaCap + LogicCap) + 4
    BY <2>1, CapAssumption DEF NodesLeft, Gates, END
  <2>. QED
    BY <2>2, CapAssumption
<1>3. CASE Discovery \/ DataMapping
  <2>1. /\ mapping'.retries = mapping.retries
        /\ \/ node = "mapping_discovery" /\ node' = "mapping_data_mapping"
           \/ node = "mapping_data_mapping" /\ node' = "mapping_judge"
    BY <1>1, <1>3 DEF Discovery, DataMapping, Completes, Edge, Mappings
  <2>2. NodesLeft' = NodesLeft - 1
    BY <2>1, CountersTyped DEF NodesLeft, Gates, END
  <2>. QED
    BY <1>1, <2>2 DEF RestIsNear
<1>4. CASE \/ EnsureBusinessRequirement \/ GenerateTechnicalRequirement \/ PersistMapping
           \/ GenerateModelling \/ GeneratePipeline \/ ValidatePipeline \/ GenerateMetrics
           \/ AssembleReviewPackage \/ MarkApproved \/ MarkTerminated
  <2>1. /\ node' = Edge[node]
        /\ node \in {"ensure_br", "generate_tr", "persist_mapping", "modelling", "generate_pipeline",
                     "validate_pipeline", "generate_metrics", "assemble_rp", "approved", "terminated"}
    BY <1>4 DEF Completes, EnsureBusinessRequirement, GenerateTechnicalRequirement, PersistMapping,
       GenerateModelling, GeneratePipeline, ValidatePipeline, GenerateMetrics,
       AssembleReviewPackage, MarkApproved, MarkTerminated
  <2>. QED
    BY <2>1 DEF NodesLeft, Edge, Gates, END
<1>. QED
  BY <1>2, <1>3, <1>4, JudgeShortens DEF NodeCompletes

\* An invocation runs 3 * (SchemaCap + LogicCap) + 5 nodes at most before it is
\* at a gate or at the end, for any two caps: the number of nodes left goes down
\* with each of them.  (One that raises ends it.)
THEOREM InvocationsAreShort == Spec => []RestIsNear /\ [][NodeCompletes => NodesLeft' < NodesLeft]_vars
<1>1. TypeOK /\ RetryInv => RestIsNear
  BY NodesLeftRange
<1>2. TypeOK /\ RetryInv /\ [Next]_vars => [NodeCompletes => NodesLeft' < NodesLeft]_vars
  BY NodeShortens
<1>. QED
  BY <1>1, <1>2, RetryInvariant, PTL DEF Spec

-----------------------------------------------------------------------------
\* The two copies of the lineage

\* A node that completes and links saves the same pairs to both.
LEMMA LinkedBoth ==
  ASSUME LineageMirrorsParents, ~failed, NEW n, SavesLinked(n)
  PROVE  LineageMirrorsParents'
BY DEF LineageMirrorsParents, SavesLinked, SaveRows

\* No step lets the copies drift apart, but for what the property excepts.
LEMMA NextLineage ==
  TypeOK /\ LineageMirrorsParents /\ [Next]_vars => LineageMirrorsParents'
<1>. SUFFICES ASSUME TypeOK, LineageMirrorsParents, [Next]_vars
              PROVE  LineageMirrorsParents'
  OBVIOUS
<1>1. CASE NodeCompletes
  <2>1. ~failed /\ failed' = failed
    BY <1>1, Completed
  <2>2. CASE \E n \in SavingNodes : SavesLinked(n)
    BY <2>1, <2>2, LinkedBoth
  <2>3. CASE UNCHANGED store
    BY <2>1, <2>3 DEF store, LineageMirrorsParents
  <2>4. CASE MarkApproved
    <3>1. /\ parents' = parents \cup Links(RowsOf("approved")) /\ edges' = edges
          /\ published' = published \cup {latest[RP] + 1}
      BY <2>4 DEF MarkApproved, SaveRows
    <3>2. \A a \in Links(RowsOf("approved")) : a[1] = NewRef(RP)
      BY DEF Links, RowsOf, ApprovedRows, NewRow
    <3>3. \A a \in Links(RowsOf("approved")) : a[1].type = RP /\ a[1].version \in published'
      BY <3>1, <3>2 DEF NewRef
    <3>. QED
      BY <2>1, <3>1, <3>3 DEF LineageMirrorsParents
  <2>. QED
    BY <1>1, <2>2, <2>3, <2>4 DEF NodeCompletes, SavingNodes, EnsureBusinessRequirement,
       GenerateTechnicalRequirement, ResetMappingRetries, Discovery, DataMapping, JudgeMapping,
       PersistMapping, GenerateModelling, GeneratePipeline, ValidatePipeline, GenerateMetrics,
       AssembleReviewPackage, MarkTerminated
<1>2. CASE NodeRaises
  <2>1. failed' = TRUE
    BY <1>2, RaisesTyped
  <2>2. CASE DiscoveryRefused
    BY <2>1, <2>2 DEF DiscoveryRefused, store, LineageMirrorsParents
  <2>3. ASSUME NEW n \in SavingNodes, SaveRaises(n) PROVE edges' \subseteq parents'
    <3>1. PICK saved \in SUBSET RowsOf(n) : SaveRows(saved) /\ edges' \subseteq edges \cup Links(saved)
      BY <2>3 DEF SaveRaises
    <3>. QED
      BY <3>1 DEF SaveRows, LineageMirrorsParents
  <2>. QED
    BY <1>2, <2>1, <2>2, <2>3 DEF NodeRaises, LineageMirrorsParents
<1>3. CASE Reviewed
  <2>1. UNCHANGED <<failed, store>>
    BY <1>3 DEF Reviewed, AwaitReview
  <2>. QED
    BY <2>1 DEF store, LineageMirrorsParents
<1>4. CASE UNCHANGED vars
  BY <1>4 DEF vars, control, store, LineageMirrorsParents
<1>. QED
  BY <1>1, <1>2, <1>3, <1>4 DEF Next

\* lineage_edges holds the parent_versions of every row whose node finished,
\* but for the approved copy of the package.
THEOREM LineageAgrees == Spec => []LineageMirrorsParents
<1>1. Init => TypeOK /\ LineageMirrorsParents
  BY InitTyped DEF Init, LineageMirrorsParents
<1>2. (TypeOK /\ LineageMirrorsParents) /\ [Next]_vars => (TypeOK /\ LineageMirrorsParents)'
  BY NextTyped, NextLineage
<1>. QED
  BY <1>1, <1>2, PTL DEF Spec

-----------------------------------------------------------------------------
\* What gates present and reviewers approve

\* The type a key of the state is the version of, and the key a gate presents.
TypeOf == [br |-> BR, tr |-> TR, mapping |-> DM, sm |-> SM, dm |-> DM,
           pipeline |-> PIPELINE, metrics |-> METRICS, rp |-> RP]

KeyOf == [await_tr_review |-> "tr", await_mapping_review |-> "mapping",
          await_modelling_review |-> "sm", await_implementation_review |-> "metrics",
          await_rp_review |-> "rp"]

Held(k) == [type |-> TypeOf[k], version |-> ver[k]]

\* The keys a node sets.
KeysOf(n) ==
  CASE n = "ensure_br" -> {"br"}
    [] n = "generate_tr" -> {"tr"}
    [] n = "persist_mapping" -> {"mapping"}
    [] n = "modelling" -> {"sm", "dm", "mapping"}
    [] n = "generate_pipeline" -> {"pipeline"}
    [] n = "generate_metrics" -> {"metrics"}
    [] n = "assemble_rp" -> {"rp"}
    [] OTHER -> {}

\* The keys that hold the latest version when the run is at node n.
Settled(n) ==
  CASE n = "generate_tr" -> {"br"}
    [] n \in {"await_tr_review", "reset_mapping_retries", "mapping_discovery",
              "mapping_data_mapping", "mapping_judge", "persist_mapping"} -> {"br", "tr"}
    [] n \in {"await_mapping_review", "modelling"} -> {"br", "tr", "mapping"}
    [] n \in {"await_modelling_review", "generate_pipeline"} -> {"br", "tr", "mapping", "sm", "dm"}
    [] n \in {"validate_pipeline", "generate_metrics"} ->
         {"br", "tr", "mapping", "sm", "dm", "pipeline"}
    [] n \in {"await_implementation_review", "assemble_rp"} ->
         {"br", "tr", "mapping", "sm", "dm", "pipeline", "metrics"}
    [] n \in {"await_rp_review", "approved"} -> Keys
    [] OTHER -> {}

\* The gates behind node n whose artefact no later node saves.
Passed(n) ==
  CASE n \in {"reset_mapping_retries", "mapping_discovery", "mapping_data_mapping",
              "mapping_judge", "persist_mapping", "await_mapping_review", "modelling",
              "await_modelling_review"} -> {"await_tr_review"}
    [] n \in {"generate_pipeline", "validate_pipeline", "generate_metrics",
              "await_implementation_review"} -> {"await_tr_review", "await_modelling_review"}
    [] n \in {"assemble_rp", "await_rp_review"} ->
         {"await_tr_review", "await_modelling_review", "await_implementation_review"}
    [] n = "approved" -> Gates \ {"await_mapping_review"}
    [] OTHER -> {}

\* Nothing refers to a version that is not stored.
Stored ==
  /\ \A a \in parents : a[1].version <= latest[a[1].type]
  /\ \A r \in reviews : r.artefact.version <= latest[r.artefact.type]

\* What the state holds is what was saved, presented and approved.
StateFits ==
  ~failed =>
    /\ \A k \in Settled(node) : ver[k] = latest[TypeOf[k]] /\ ver[k] >= 1
    /\ \A g \in Passed(node) : ApprovedAt(g, Held(KeyOf[g]))
    /\ node \in Gates => pending = Held(KeyOf[node]) /\ \A r \in reviews : r.artefact # pending
    /\ node \in {"await_rp_review", "approved"} => Package(ver["rp"]) = PackagePins

\* A run publishes once, and that is its end.
Published ==
  /\ published # {} => node = END \/ failed
  /\ PublishedWasReviewed
  /\ ExportIsThePackage

ReviewInv == Stored /\ StateFits /\ Published

\* The tables of the graph fit together: at a node that saves ...
LEMMA SavingShape ==
  ASSUME NEW n \in SavingNodes \ {"approved"}
  PROVE  /\ \A k \in Settled(Edge[n]) :
              k \in KeysOf(n) \/ (k \in Settled(n) /\ TypeOf[k] \notin TypesOf(n))
         /\ \A k \in KeysOf(n) : k \in Keys /\ TypeOf[k] \in TypesOf(n)
         /\ \A g \in Passed(Edge[n]) : g \in Passed(n) /\ KeyOf[g] \notin KeysOf(n)
         /\ Edge[n] \in Gates =>
              /\ KeyOf[Edge[n]] \in KeysOf(n)
              /\ TypeOf[KeyOf[Edge[n]]] = ReviewedType[Edge[n]]
         /\ Edge[n] \in {"await_rp_review", "approved"} =>
              /\ n = "assemble_rp"
              /\ \A k \in Keys \ KeysOf(n) : k # "rp"
         /\ Edge[n] # END
<1>. USE DEF Edge, Settled, Passed, KeysOf, TypesOf, Keys, TypeOf, KeyOf, ReviewedType, Gates, END,
         BR, TR, SM, DM, PIPELINE, METRICS, RP
<1>1. CASE n = "ensure_br"
  BY <1>1
<1>2. CASE n = "generate_tr"
  BY <1>2
<1>3. CASE n = "persist_mapping"
  BY <1>3
<1>4. CASE n = "modelling"
  BY <1>4
<1>5. CASE n = "generate_pipeline"
  BY <1>5
<1>6. CASE n = "generate_metrics"
  BY <1>6
<1>7. CASE n = "assemble_rp"
  BY <1>7
<1>. QED
  BY <1>1, <1>2, <1>3, <1>4, <1>5, <1>6, <1>7 DEF SavingNodes

\* ... and at the others.
LEMMA OtherShape ==
  /\ \A n \in {"reset_mapping_retries", "mapping_discovery", "mapping_data_mapping",
               "validate_pipeline", "terminated"} :
       /\ Settled(Edge[n]) \subseteq Settled(n) /\ Passed(Edge[n]) \subseteq Passed(n)
       /\ Edge[n] \notin Gates \cup {"approved"}
  /\ \A n \in {"mapping_discovery", "mapping_data_mapping", "persist_mapping"} :
       /\ Settled(n) = Settled("mapping_judge") /\ Passed(n) = Passed("mapping_judge")
       /\ n \notin Gates \cup {"approved"}
BY DEF Settled, Passed, Edge, Gates, END, Keys

\* A decision leads to a node that relies on no more than the gate had, and on
\* the approval if it was one.
LEMMA ReviewShape ==
  ASSUME NEW g \in Gates, NEW d \in Decisions
  PROVE  LET n == AfterReview(g, d) IN
           /\ Settled(n) \subseteq Settled(g)
           /\ \A h \in Passed(n) : h \in Passed(g) \/ (h = g /\ d = "approve")
           /\ n \notin Gates
           /\ n = "approved" => g = "await_rp_review"
<1>. USE DEF AfterReview, OnApprove, OnRevise, Decisions, Settled, Passed, Keys, Gates
<1>1. CASE g = "await_tr_review"
  BY <1>1
<1>2. CASE g = "await_mapping_review"
  BY <1>2
<1>3. CASE g = "await_modelling_review"
  BY <1>3
<1>4. CASE g = "await_implementation_review"
  BY <1>4
<1>5. CASE g = "await_rp_review"
  BY <1>5
<1>. QED
  BY <1>1, <1>2, <1>3, <1>4, <1>5

-----------------------------------------------------------------------------
\* What saves do to the references

\* A completed node has saved one version of each of its types.
LEMMA SavedTypes ==
  ASSUME TypeOK, NEW n \in SavingNodes, SaveRows(RowsOf(n))
  PROVE  \A t \in ArtefactTypes :
           latest'[t] = IF t \in TypesOf(n) THEN latest[t] + 1 ELSE latest[t]
<1>1. \A t \in TypesOf(n) : \E r \in RowsOf(n) : r.ref.type = t
  BY DEF SavingNodes, TypesOf, RowsOf, TrRows, MappingRows, ModellingRows, PipelineRows,
     MetricsRows, PackageRows, ApprovedRows, NewRow, NewRef
<1>. QED
  BY <1>1, RowsTyped DEF SaveRows

\* Saves refer to nothing that is not stored ...
LEMMA StoredGrows ==
  ASSUME TypeOK, Stored, NEW n \in SavingNodes, NEW rows \in SUBSET RowsOf(n),
         SaveRows(rows), reviews' = reviews
  PROVE  Stored'
<1>1. /\ latest \in [ArtefactTypes -> Nat] /\ parents \subseteq Ref \X Ref /\ reviews \subseteq Review
      /\ \A t \in ArtefactTypes : latest'[t] \in Nat /\ latest'[t] >= latest[t]
      /\ parents' = parents \cup Links(rows)
  BY SavedRows DEF TypeOK
<1>2. ASSUME NEW a \in Links(rows) PROVE a[1].version <= latest'[a[1].type]
  <2>1. PICK r \in rows : a[1] = r.ref
    BY <1>2 DEF Links
  <2>2. r.ref.type \in ArtefactTypes /\ r.ref = NewRef(r.ref.type)
    BY <2>1, RowsTyped
  <2>3. latest'[r.ref.type] = latest[r.ref.type] + 1
    BY <2>1, <2>2 DEF SaveRows
  <2>4. r.ref.version = latest[r.ref.type] + 1
    BY <2>2 DEF NewRef
  <2>. QED
    BY <1>1, <2>1, <2>2, <2>3, <2>4
<1>3. ASSUME NEW a \in parents PROVE a[1].version <= latest'[a[1].type]
  <2>1. a[1].type \in ArtefactTypes /\ a[1].version \in Nat
    BY <1>1 DEF Ref
  <2>2. a[1].version <= latest[a[1].type]
    BY DEF Stored
  <2>. QED
    BY <1>1, <2>1, <2>2
<1>4. ASSUME NEW r \in reviews PROVE r.artefact.version <= latest'[r.artefact.type]
  <2>1. r.artefact.type \in ArtefactTypes /\ r.artefact.version \in Nat
    BY <1>1 DEF Ref, Review
  <2>2. r.artefact.version <= latest[r.artefact.type]
    BY DEF Stored
  <2>. QED
    BY <1>1, <2>1, <2>2
<1>. QED
  BY <1>1, <1>2, <1>3, <1>4 DEF Stored

\* ... leave the parents of what is stored alone ...
LEMMA ParentsKept ==
  ASSUME TypeOK, NEW n \in SavingNodes, NEW rows \in SUBSET RowsOf(n), SaveRows(rows),
         NEW x \in Ref, x.version <= latest[x.type]
  PROVE  ParentsOf(x)' = ParentsOf(x)
<1>1. \A a \in Links(rows) : a[1] # x
  <2>. SUFFICES ASSUME NEW r \in rows PROVE r.ref # x
    BY DEF Links
  <2>1. r.ref.type \in ArtefactTypes /\ r.ref = NewRef(r.ref.type)
    BY RowsTyped
  <2>2. r.ref.version = latest[r.ref.type] + 1
    BY <2>1 DEF NewRef
  <2>3. latest[r.ref.type] \in Nat
    BY <2>1 DEF TypeOK
  <2>. QED
    BY <2>2, <2>3
<1>2. parents' = parents \cup Links(rows)
  BY DEF SaveRows
<1>. QED
  BY <1>1, <1>2 DEF ParentsOf

\* ... and give a new row its own.
LEMMA ParentsNew ==
  ASSUME TypeOK, Stored, NEW rows, SaveRows(rows), NEW r \in rows,
         \A q \in rows : q.ref = r.ref => q = r,
         r.ref \in Ref, r.ref.version = latest[r.ref.type] + 1
  PROVE  ParentsOf(r.ref)' = r.parents
<1>1. \A a \in parents : a[1] # r.ref
  <2>1. latest[r.ref.type] \in Nat
    BY DEF TypeOK, Ref
  <2>. QED
    BY <2>1 DEF Stored
<1>2. parents' = parents \cup Links(rows)
  BY DEF SaveRows
<1>3. \A a \in Links(rows) : a[1] = r.ref => a[2] \in r.parents
  BY DEF Links
<1>4. ParentsOf(r.ref)' \subseteq r.parents
  BY <1>1, <1>2, <1>3 DEF ParentsOf
<1>5. ASSUME NEW p \in r.parents PROVE p \in ParentsOf(r.ref)'
  <2>1. <<r.ref, p>> \in Links(rows)
    BY DEF Links
  <2>2. <<r.ref, p>> \in {x \in parents' : x[1] = r.ref} /\ <<r.ref, p>>[2] = p
    BY <1>2, <2>1
  <2>. QED
    BY <2>2 DEF ParentsOf
<1>. QED
  BY <1>4, <1>5

-----------------------------------------------------------------------------
\* The steps, one lemma each

\* While nothing is published, there is nothing to show of it.
LEMMA Unpublished == ASSUME published' = {} PROVE Published'
BY DEF Published, PublishedWasReviewed, ExportIsThePackage

\* A run that goes on has not published.
LEMMA NothingYet ==
  ASSUME TypeOK, ReviewInv, ~failed, node # END
  PROVE  published = {}
BY DEF ReviewInv, Published

\* Node n completes its saves, and the state holds the versions saved.
Sets(n) ==
  /\ Completes(n) /\ SavesLinked(n)
  /\ \A k \in Keys : ver'[k] = IF k \in KeysOf(n) THEN latest[TypeOf[k]] + 1 ELSE ver[k]
  /\ Edge[n] \in Gates => pending' = NewRef(ReviewedType[Edge[n]])

\* So do all of them but mark_approved.
LEMMA SavingSets ==
  ASSUME TypeOK,
         \/ EnsureBusinessRequirement \/ GenerateTechnicalRequirement \/ PersistMapping
         \/ GenerateModelling \/ GeneratePipeline \/ GenerateMetrics \/ AssembleReviewPackage
  PROVE  \E n \in SavingNodes \ {"approved"} : Sets(n)
<1>. USE DEF Sets, Keys, KeysOf, TypeOf, Edge, ReviewedType
<1>1. ver \in [Keys -> Nat]
  BY DEF TypeOK
<1>2. EnsureBusinessRequirement => Sets("ensure_br")
  BY <1>1 DEF EnsureBusinessRequirement, Gates
<1>3. GenerateTechnicalRequirement => Sets("generate_tr")
  BY <1>1 DEF GenerateTechnicalRequirement, Presents
<1>4. PersistMapping => Sets("persist_mapping")
  BY <1>1 DEF PersistMapping, Presents
<1>5. GenerateModelling => Sets("modelling")
  BY <1>1 DEF GenerateModelling, Presents
<1>6. GeneratePipeline => Sets("generate_pipeline")
  BY <1>1 DEF GeneratePipeline, Gates
<1>7. GenerateMetrics => Sets("generate_metrics")
  BY <1>1 DEF GenerateMetrics, Presents
<1>8. AssembleReviewPackage => Sets("assemble_rp")
  BY <1>1 DEF AssembleReviewPackage, Presents
<1>. QED
  BY <1>2, <1>3, <1>4, <1>5, <1>6, <1>7, <1>8 DEF SavingNodes

\* A completed save gives its keys a version that no reviewer has seen.
LEMMA SaveFits ==
  ASSUME TypeOK, ReviewInv, NEW n \in SavingNodes \ {"approved"}, Sets(n)
  PROVE  ReviewInv'
<1>. USE DEF Sets
<1>1. /\ node = n /\ node' = Edge[n] /\ ~failed /\ ~failed' /\ reviews' = reviews
      /\ SaveRows(RowsOf(n)) /\ published' = published /\ n # END
  BY DEF Completes, SavesLinked, SavingNodes, END
<1>2. \A t \in ArtefactTypes : latest'[t] = IF t \in TypesOf(n) THEN latest[t] + 1 ELSE latest[t]
  BY <1>1, SavedTypes
<1>3. /\ latest \in [ArtefactTypes -> Nat] /\ ver \in [Keys -> Nat]
      /\ \A k \in Keys : TypeOf[k] \in ArtefactTypes
      /\ \A k \in Settled(n) : k \in Keys /\ ver[k] = latest[TypeOf[k]] /\ ver[k] >= 1
      /\ \A g \in Passed(n) : g \in Gates /\ KeyOf[g] \in Keys /\ ApprovedAt(g, Held(KeyOf[g]))
  <2>1. \A k \in Keys : TypeOf[k] \in ArtefactTypes
    BY DEF Keys, TypeOf, ArtefactTypes
  <2>2. Settled(n) \subseteq Keys
    BY DEF Settled, Keys
  <2>3. Passed(n) \subseteq Gates
    BY DEF Passed, Gates
  <2>4. \A g \in Gates : KeyOf[g] \in Keys
    BY DEF Gates, KeyOf, Keys
  <2>. QED
    BY <1>1, <2>1, <2>2, <2>3, <2>4 DEF ReviewInv, StateFits, TypeOK
<1>4. ASSUME NEW k \in Settled(node') PROVE ver'[k] = latest'[TypeOf[k]] /\ ver'[k] >= 1
  BY <1>1, <1>2, <1>3, SavingShape
<1>5. ASSUME NEW g \in Passed(node') PROVE ApprovedAt(g, Held(KeyOf[g]))'
  <2>1. g \in Passed(n) /\ KeyOf[g] \notin KeysOf(n)
    BY <1>1, SavingShape
  <2>2. ver'[KeyOf[g]] = ver[KeyOf[g]]
    BY <1>3, <2>1
  <2>. QED
    BY <1>1, <1>3, <2>1, <2>2 DEF ApprovedAt, Held
<1>6. ASSUME node' \in Gates
      PROVE  pending' = Held(KeyOf[node])' /\ \A r \in reviews' : r.artefact # pending'
  <2>. DEFINE t == ReviewedType[Edge[n]]
              k == KeyOf[Edge[n]]
  <2>1. k \in KeysOf(n) /\ k \in Keys /\ TypeOf[k] = t /\ t \in ArtefactTypes
    BY <1>1, <1>3, <1>6, SavingShape
  <2>2. pending' = NewRef(t)
    BY <1>1, <1>6
  <2>3. ver'[k] = latest[t] + 1
    BY <2>1
  <2>4. Held(k)' = NewRef(t)
    BY <2>1, <2>3 DEF Held, NewRef
  <2>. HIDE DEF t
  <2>5. \A r \in reviews : r.artefact # NewRef(t)
    <3>1. NewRef(t).type = t /\ NewRef(t).version = latest[t] + 1 /\ latest[t] \in Nat
      BY <1>3, <2>1 DEF NewRef
    <3>. QED
      BY <3>1 DEF ReviewInv, Stored
  <2>6. Held(KeyOf[node])' = Held(k)'
    BY <1>1 DEF Held
  <2>. QED
    BY <1>1, <1>6, <2>2, <2>4, <2>5, <2>6
<1>7. ASSUME node' \in {"await_rp_review", "approved"}
      PROVE  Package(ver["rp"])' = PackagePins'
  <2>1. n = "assemble_rp" /\ ver'["rp"] = latest[RP] + 1 /\ \A k \in Keys \ {"rp"} : ver'[k] = ver[k]
    BY <1>1, <1>7, SavingShape DEF KeysOf, Keys, TypeOf
  <2>2. PICK r : r = NewRow(RP, PackagePins)
    OBVIOUS
  <2>3. RowsOf(n) = {r} /\ r.ref = NewRef(RP) /\ r.parents = PackagePins
    BY <2>1, <2>2 DEF RowsOf, PackageRows, NewRow
  <2>4. NewRef(RP) \in Ref /\ NewRef(RP).version = latest[NewRef(RP).type] + 1
    BY <1>3 DEF NewRef, Ref, ArtefactTypes
  <2>5. ParentsOf(r.ref)' = PackagePins
    BY <1>1, <2>3, <2>4, ParentsNew DEF ReviewInv
  <2>6. PackagePins' = PackagePins
    BY <2>1 DEF PackagePins, StateRef, Keys
  <2>. QED
    BY <2>1, <2>3, <2>5, <2>6 DEF Package, NewRef
<1>8. Stored'
  BY <1>1, StoredGrows DEF ReviewInv
<1>9. Published'
  BY <1>1, NothingYet, Unpublished
<1>10. StateFits'
  BY <1>4, <1>5, <1>6, <1>7 DEF StateFits
<1>. QED
  BY <1>8, <1>9, <1>10 DEF ReviewInv

\* A node that saves nothing leaves what there was to rely on.
LEMMA QuietFits ==
  ASSUME TypeOK, ReviewInv,
         \/ ResetMappingRetries \/ Discovery \/ DataMapping \/ JudgeMapping \/ ValidatePipeline
         \/ MarkTerminated
  PROVE  ReviewInv'
<1>1. /\ UNCHANGED <<ver, store, reviews>> /\ ~failed /\ node # END
      /\ Settled(node') \subseteq Settled(node) /\ Passed(node') \subseteq Passed(node)
      /\ node' \notin Gates \cup {"approved"}
  <2>1. CASE JudgeMapping
    <3>1. /\ node = "mapping_judge" /\ ~failed /\ UNCHANGED <<ver, store, reviews>>
          /\ node' \in {"mapping_discovery", "mapping_data_mapping", "persist_mapping"}
      BY <2>1, Completed DEF JudgeMapping, NodeCompletes
    <3>. QED
      BY <3>1, OtherShape DEF END
  <2>2. CASE ~JudgeMapping
    <3>1. \E n \in {"reset_mapping_retries", "mapping_discovery", "mapping_data_mapping",
                    "validate_pipeline", "terminated"} : Completes(n)
      BY <2>2 DEF ResetMappingRetries, Discovery, DataMapping, ValidatePipeline, MarkTerminated
    <3>2. /\ ~failed /\ UNCHANGED <<ver, store, reviews>> /\ node' = Edge[node]
          /\ node \in {"reset_mapping_retries", "mapping_discovery", "mapping_data_mapping",
                       "validate_pipeline", "terminated"}
      BY <2>2, <3>1 DEF Completes, ResetMappingRetries, Discovery, DataMapping, ValidatePipeline,
         MarkTerminated
    <3>. QED
      BY <3>2, OtherShape DEF END
  <2>. QED
    BY <2>1, <2>2
<1>2. UNCHANGED <<latest, parents, edges, published>>
  BY <1>1 DEF store
<1>3. Stored' /\ Published'
  <2>1. published = {}
    BY <1>1, NothingYet
  <2>. QED
    BY <1>1, <1>2, <2>1, Unpublished DEF ReviewInv, Stored
<1>4. StateFits'
  BY <1>1, <1>2 DEF ReviewInv, StateFits, ApprovedAt, Held, Gates
<1>. QED
  BY <1>3, <1>4 DEF ReviewInv

\* What the approved copy of the package publishes.
LEMMA Publishes ==
  ASSUME TypeOK, ReviewInv, ~failed, node = "approved", SaveRows(RowsOf("approved")),
         published' = published \cup {latest[RP] + 1}, reviews' = reviews
  PROVE  PublishedWasReviewed' /\ ExportIsThePackage'
<1>1. /\ latest \in [ArtefactTypes -> Nat] /\ ver \in [Keys -> Nat]
      /\ \A k \in Keys : ver[k] = latest[TypeOf[k]] /\ ver[k] >= 1
      /\ \A g \in Gates \ {"await_mapping_review"} : ApprovedAt(g, Held(KeyOf[g]))
      /\ Package(ver["rp"]) = PackagePins
  <2>1. Settled("approved") = Keys /\ Passed("approved") = Gates \ {"await_mapping_review"}
    BY DEF Settled, Passed
  <2>. QED
    BY <2>1 DEF TypeOK, ReviewInv, StateFits
<1>2. PICK v : v = latest[RP] + 1
  OBVIOUS
<1>3. /\ v \in Nat /\ v - 1 = ver["rp"] /\ v - 1 = latest[RP] /\ v - 1 \in Nat
  BY <1>1, <1>2 DEF ArtefactTypes, Keys, TypeOf
<1>4. published = {}
  BY NothingYet DEF END
<1>5. /\ \A t \in ArtefactTypes \ {RP} : latest'[t] = latest[t]
      /\ latest'[RP] = v
  BY <1>2, SavedTypes DEF SavingNodes, TypesOf, ArtefactTypes
<1>6. Package(v)' = PackagePins
  <2>1. PICK r : r = NewRow(RP, ParentsOf([type |-> RP, version |-> latest[RP]]))
    OBVIOUS
  <2>2. /\ RowsOf("approved") = {r} /\ r.ref = [type |-> RP, version |-> v]
        /\ r.parents = Package(latest[RP])
    BY <1>2, <2>1 DEF RowsOf, ApprovedRows, NewRow, NewRef, Package
  <2>3. r.ref \in Ref /\ r.ref.version = latest[r.ref.type] + 1
    BY <1>2, <1>3, <2>2 DEF Ref, ArtefactTypes
  <2>4. ParentsOf(r.ref)' = PackagePins
    BY <1>1, <1>3, <2>2, <2>3, ParentsNew DEF ReviewInv
  <2>. QED
    BY <2>2, <2>4 DEF Package
<1>7. Package(v - 1)' = PackagePins
  <2>1. PICK x : x = [type |-> RP, version |-> v - 1]
    OBVIOUS
  <2>2. x \in Ref /\ x.version <= latest[x.type]
    BY <1>3, <2>1 DEF Ref, ArtefactTypes
  <2>3. ParentsOf(x)' = ParentsOf(x)
    BY <2>2, ParentsKept DEF SavingNodes
  <2>. QED
    BY <1>1, <1>3, <2>1, <2>3 DEF Package
<1>8. PackagePins = {Held(k) : k \in Keys \ {"mapping", "rp"}}
  BY <1>1 DEF PackagePins, StateRef, Keys, Held, TypeOf
<1>9. ASSUME NEW gate \in Gates, NEW pin \in PackagePins,
             pin.type = ReviewedType[gate], pin.type # DM
      PROVE  ApprovedAt(gate, pin)
  <2>1. PICK k \in Keys \ {"mapping", "rp"} : pin = Held(k)
    BY <1>8
  <2>2. TypeOf[k] = ReviewedType[gate] /\ TypeOf[k] # DM
    BY <1>9, <2>1 DEF Held
  <2>3. k = KeyOf[gate] /\ gate # "await_mapping_review"
    BY <2>1, <2>2 DEF Keys, Gates, TypeOf, KeyOf, ReviewedType, BR, TR, SM, DM, PIPELINE, METRICS, RP
  <2>. QED
    BY <1>1, <2>1, <2>3
<1>10. ApprovedAt("await_rp_review", [type |-> RP, version |-> v - 1])
  <2>1. Held("rp") = [type |-> RP, version |-> v - 1] /\ KeyOf["await_rp_review"] = "rp"
    BY <1>3 DEF Held, TypeOf, KeyOf
  <2>2. ApprovedAt("await_rp_review", Held(KeyOf["await_rp_review"]))
    BY <1>1 DEF Gates
  <2>. QED
    BY <2>1, <2>2
<1>11. PublishedWasReviewed'
  BY <1>2, <1>4, <1>6, <1>7, <1>9, <1>10 DEF PublishedWasReviewed, ApprovedAt
<1>12. ExportIsThePackage'
  <2>1. {Held(k) : k \in Keys \ {"mapping", "rp"}} = {Latest(t) : t \in ArtefactTypes \ {RP}}'
    <3>1. \A k \in Keys \ {"mapping", "rp"} :
            /\ TypeOf[k] \in ArtefactTypes \ {RP}
            /\ Held(k) = [type |-> TypeOf[k], version |-> latest'[TypeOf[k]]]
      BY <1>1, <1>5
      DEF Keys, TypeOf, Held, ArtefactTypes, BR, TR, SM, DM, PIPELINE, METRICS, RP
    <3>2. \A t \in ArtefactTypes \ {RP} : \E k \in Keys \ {"mapping", "rp"} : TypeOf[k] = t
      BY DEF Keys, TypeOf, ArtefactTypes
    <3>. QED
      BY <3>1, <3>2 DEF Latest
  <2>. QED
    BY <1>5, <1>6, <1>8, <2>1 DEF ExportIsThePackage
<1>. QED
  BY <1>11, <1>12

\* mark_approved publishes.
LEMMA MarkApprovedFits == ASSUME TypeOK, ReviewInv, MarkApproved PROVE ReviewInv'
<1>1. /\ ~failed /\ node = "approved" /\ node' = END /\ reviews' = reviews
      /\ SaveRows(RowsOf("approved")) /\ published' = published \cup {latest[RP] + 1}
  BY DEF MarkApproved, Completes, Edge
<1>2. Stored'
  BY <1>1, StoredGrows DEF ReviewInv, SavingNodes
<1>3. StateFits'
  BY <1>1 DEF StateFits, Settled, Passed, Gates, END
<1>4. PublishedWasReviewed' /\ ExportIsThePackage'
  BY <1>1, Publishes
<1>. QED
  BY <1>1, <1>2, <1>3, <1>4 DEF ReviewInv, Published

\* A node that raises may have published, too, but then all of it.
LEMMA RaisesFits == ASSUME TypeOK, ReviewInv, NodeRaises PROVE ReviewInv'
<1>1. failed' = TRUE /\ reviews' = reviews /\ ~failed
  BY RaisesTyped
<1>2. StateFits'
  BY <1>1 DEF StateFits
<1>3. CASE DiscoveryRefused
  <2>1. UNCHANGED <<latest, parents, edges, published>> /\ node # END
    BY <1>3 DEF DiscoveryRefused, store, END
  <2>2. published = {}
    BY <1>1, <2>1, NothingYet
  <2>3. Stored'
    BY <1>1, <2>1 DEF ReviewInv, Stored
  <2>. QED
    BY <1>2, <2>1, <2>2, <2>3, Unpublished DEF ReviewInv
<1>4. ASSUME NEW n \in SavingNodes, SaveRaises(n) PROVE ReviewInv'
  <2>1. PICK saved \in SUBSET RowsOf(n) :
          /\ SaveRows(saved)
          /\ published' = IF n = "approved" /\ saved # {}
                          THEN published \cup {latest[RP] + 1} ELSE published
    BY <1>4 DEF SaveRaises
  <2>2. Stored'
    BY <1>1, <2>1, StoredGrows DEF ReviewInv
  <2>3. node = n /\ published = {}
    BY <1>1, <1>4, NothingYet DEF SaveRaises, SavingNodes, END
  <2>4. Published'
    <3>1. CASE published' = {}
      BY <3>1, Unpublished
    <3>2. CASE published' # {}
      <4>1. n = "approved" /\ saved # {}
        BY <2>1, <2>3, <3>2
      <4>2. saved = RowsOf("approved")
        BY <2>1, <4>1 DEF RowsOf, ApprovedRows
      <4>3. PublishedWasReviewed' /\ ExportIsThePackage'
        BY <1>1, <2>1, <2>3, <4>1, <4>2, Publishes
      <4>. QED
        BY <1>1, <4>3 DEF Published
    <3>. QED
      BY <3>1, <3>2
  <2>. QED
    BY <1>2, <2>2, <2>4 DEF ReviewInv
<1>. QED
  BY <1>3, <1>4 DEF NodeRaises

\* A review is of the version presented.
LEMMA ReviewFits ==
  ASSUME TypeOK, ReviewInv, NEW gate \in Gates, NEW d \in Decisions, AwaitReview(gate, d)
  PROVE  ReviewInv'
<1>1. /\ node = gate /\ node' = AfterReview(gate, d) /\ failed' = failed
      /\ UNCHANGED <<ver, latest, parents, edges, published>>
      /\ reviews' = reviews \cup {[gate |-> gate, artefact |-> pending, decision |-> d]}
  BY DEF AwaitReview, store
<1>2. ~failed /\ node # END
  BY <1>1 DEF TypeOK, WorkNodes, Gates, END
<1>3. published = {}
  BY <1>2, NothingYet
<1>4. pending = Held(KeyOf[gate])
  BY <1>1, <1>2 DEF ReviewInv, StateFits
<1>5. pending.version <= latest[pending.type]
  <2>1. KeyOf[gate] \in Settled(gate) /\ KeyOf[gate] \in Keys
    BY DEF Gates, KeyOf, Settled, Keys
  <2>2. ver[KeyOf[gate]] = latest[TypeOf[KeyOf[gate]]] /\ ver[KeyOf[gate]] \in Nat
    BY <1>1, <1>2, <2>1 DEF ReviewInv, StateFits, TypeOK
  <2>. QED
    BY <1>4, <2>2 DEF Held
<1>6. Stored'
  BY <1>1, <1>5 DEF ReviewInv, Stored
<1>7. Published'
  BY <1>1, <1>3, Unpublished
<1>8. StateFits'
  <2>1. /\ Settled(node') \subseteq Settled(node) /\ node' \notin Gates
        /\ \A h \in Passed(node') : h \in Passed(node) \/ (h = gate /\ d = "approve")
        /\ node' = "approved" => node = "await_rp_review"
    BY <1>1, ReviewShape
  <2>2. \A k \in Settled(node') : ver'[k] = latest'[TypeOf[k]] /\ ver'[k] >= 1
    BY <1>1, <1>2, <2>1 DEF ReviewInv, StateFits
  <2>3. ASSUME NEW g \in Passed(node') PROVE ApprovedAt(g, Held(KeyOf[g]))'
    <3>1. CASE g \in Passed(node)
      BY <1>1, <1>2, <3>1 DEF ReviewInv, StateFits, ApprovedAt, Held
    <3>2. CASE g = gate /\ d = "approve"
      BY <1>1, <1>4, <3>2 DEF ApprovedAt, Held
    <3>. QED
      BY <2>1, <3>1, <3>2
  <2>4. node' = "approved" => (Package(ver["rp"]) = PackagePins)'
    <3>1. node' = "approved" => Package(ver["rp"]) = PackagePins
      BY <1>1, <1>2, <2>1 DEF ReviewInv, StateFits
    <3>. QED
      BY <1>1, <3>1 DEF Package, ParentsOf, PackagePins, StateRef
  <2>. QED
    BY <2>1, <2>2, <2>3, <2>4 DEF StateFits, Gates
<1>. QED
  BY <1>6, <1>7, <1>8 DEF ReviewInv

\* No step makes the state, the store and the reviews disagree.
LEMMA NextReview == TypeOK /\ ReviewInv /\ [Next]_vars => ReviewInv'
<1>. SUFFICES ASSUME TypeOK, ReviewInv, [Next]_vars PROVE ReviewInv'
  OBVIOUS
<1>1. CASE NodeCompletes
  BY <1>1, SavingSets, SaveFits, QuietFits, MarkApprovedFits DEF NodeCompletes
<1>2. CASE NodeRaises
  BY <1>2, RaisesFits
<1>3. CASE Reviewed
  BY <1>3, ReviewFits DEF Reviewed
<1>4. CASE UNCHANGED vars
  <2>1. UNCHANGED <<node, failed, ver, pending, latest, parents, edges, published, reviews>>
    BY <1>4 DEF vars, control, store
  <2>2. Stored'
    BY <2>1 DEF ReviewInv, Stored
  <2>3. StateFits'
    BY <2>1 DEF ReviewInv, StateFits, ApprovedAt, Held, Package, ParentsOf, PackagePins, StateRef
  <2>4. Published'
    BY <2>1 DEF ReviewInv, Published, PublishedWasReviewed, ExportIsThePackage, ApprovedAt,
       Package, ParentsOf, Latest
  <2>. QED
    BY <2>2, <2>3, <2>4 DEF ReviewInv
<1>. QED
  BY <1>1, <1>2, <1>3, <1>4 DEF Next

\* The inductive invariant behind what is presented, approved and published.
THEOREM ReviewInvariance == Spec => [](TypeOK /\ ReviewInv)
<1>1. Init => TypeOK /\ ReviewInv
  <2>. SUFFICES ASSUME Init PROVE ReviewInv
    BY InitTyped
  <2>1. /\ node = "ensure_br" /\ parents = {} /\ reviews = {} /\ published = {}
    BY DEF Init
  <2>2. Settled(node) = {} /\ Passed(node) = {} /\ node \notin Gates
    BY <2>1 DEF Settled, Passed, Gates
  <2>. QED
    BY <2>1, <2>2 DEF ReviewInv, Stored, StateFits, Published, PublishedWasReviewed,
       ExportIsThePackage
<1>2. (TypeOK /\ ReviewInv) /\ [Next]_vars => (TypeOK /\ ReviewInv)'
  BY NextTyped, NextReview
<1>. QED
  BY <1>1, <1>2, PTL DEF Spec

\* What is published is a copy of the package a reviewer approved, and every
\* gated artefact it pins is the version approved at its gate.
THEOREM PublicationReviewed == Spec => []PublishedWasReviewed
<1>1. ReviewInv => PublishedWasReviewed
  BY DEF ReviewInv, Published
<1>. QED
  BY <1>1, ReviewInvariance, PTL

\* On an approved run the latest versions are the pins of the package.
THEOREM ExportMatches == Spec => []ExportIsThePackage
<1>1. ReviewInv => ExportIsThePackage
  BY DEF ReviewInv, Published
<1>. QED
  BY <1>1, ReviewInvariance, PTL

\* A gate presents the newest version of its type, one that no reviewer has
\* decided on.
THEOREM DraftsAreFresh == Spec => []GatePresentsFreshDraft
<1>1. TypeOK /\ ReviewInv => GatePresentsFreshDraft
  <2>. SUFFICES ASSUME TypeOK, ReviewInv, node \in Gates PROVE GatePresentsFreshDraft
    BY DEF GatePresentsFreshDraft
  <2>1. ~failed
    BY DEF TypeOK, WorkNodes, Gates
  <2>2. KeyOf[node] \in Settled(node) /\ TypeOf[KeyOf[node]] = ReviewedType[node]
    BY DEF Gates, KeyOf, Settled, Keys, TypeOf, ReviewedType
  <2>. QED
    BY <2>1, <2>2 DEF ReviewInv, StateFits, Held, Latest, GatePresentsFreshDraft
<1>. QED
  BY <1>1, ReviewInvariance, PTL

-----------------------------------------------------------------------------
(***************************************************************************)
(* What the artefacts derive from: every package pins versions that derive *)
(* from each other, and what is published without a gate of its own is     *)
(* covered by one that was reviewed.                                       *)
(***************************************************************************)

\* Nodes past the approval of the mapping.
PastMapping ==
  {"modelling", "await_modelling_review", "generate_pipeline", "validate_pipeline",
   "generate_metrics", "await_implementation_review", "assemble_rp", "await_rp_review", "approved"}

\* The keys whose artefacts a package pins.
Pinned == {"br", "tr", "sm", "dm", "pipeline", "metrics"}

Before(k) == [type |-> TypeOf[k], version |-> ver[k] - 1]

\* The parents of the artefact that key k holds, once it is settled.
SourcesOf(k) ==
  CASE k = "br" -> {}
    [] k = "tr" -> {Held("br")}
    [] k = "dm" -> {Held("tr"), Before("dm")}
    [] k = "sm" -> {Held("tr"), Before("dm"), Held("dm")}
    [] k = "pipeline" -> {Held("sm"), Held("dm")}
    [] k = "metrics" -> {Held("sm"), Held("pipeline")}

\* The keys they are the versions of.
SourceKeys == [br |-> {}, tr |-> {"br"}, dm |-> {"tr", "dm"}, sm |-> {"tr", "dm"},
               pipeline |-> {"sm", "dm"}, metrics |-> {"sm", "pipeline"}]

\* Version v of the data model continues, version by version, a mapping that a
\* reviewer approved.
ContinuesMapping(v) ==
  \E r \in reviews :
    /\ r.gate = "await_mapping_review" /\ r.decision = "approve"
    /\ \A k \in r.artefact.version + 1 .. v : DataModel(k - 1) \in ParentsOf(DataModel(k))

\* Nothing derives from a version that is not stored.
SourcesStored == \A a \in parents : a[2].version <= latest[a[2].type]

\* What the state holds derives from what the state holds.
Derives ==
  ~failed =>
    /\ \A k \in Settled(node) \cap Pinned : ParentsOf(Held(k)) = SourcesOf(k)
    /\ node \in PastMapping => ContinuesMapping(ver["mapping"])

\* The pins of one package are complete and derive from each other.
Coherent(pins) ==
  /\ {p.type : p \in pins} = ArtefactTypes \ {RP}
  /\ \A p, q \in pins : p.type = q.type => p = q
  /\ \A p, q \in pins :
       p.type # q.type /\ (\E a \in ParentsOf(p) : a.type = q.type) => q \in ParentsOf(p)

DerivInv == SourcesStored /\ Derives /\ PackagesCoherent /\ UngatedPinsAreCovered

\* A package is a row of the store like any other.
LEMMA CoherentPackages ==
  PackagesCoherent <=> \A a \in parents : a[1].type = RP => Coherent(ParentsOf(a[1]))
<1>. DEFINE packages == {a[1] : a \in {x \in parents : x[1].type = RP}}
<1>1. PackagesCoherent <=> \A rp \in packages : Coherent(ParentsOf(rp))
  BY DEF PackagesCoherent, Coherent
<1>2. (\A rp \in packages : Coherent(ParentsOf(rp)))
        <=> \A a \in parents : a[1].type = RP => Coherent(ParentsOf(a[1]))
  <2>. HIDE DEF packages
  <2>1. \A rp : rp \in packages <=> \E a \in parents : a[1].type = RP /\ rp = a[1]
    BY DEF packages
  <2>. QED
    BY <2>1
<1>. QED
  BY <1>1, <1>2

-----------------------------------------------------------------------------
\* The tables of the graph fit together

\* What a node leaves settled, and does not set, derives from nothing it sets.
LEMMA SourceShape ==
  ASSUME NEW n \in SavingNodes \ {"approved"}
  PROVE  /\ \A k \in (Settled(Edge[n]) \cap Pinned) \ KeysOf(n) : SourceKeys[k] \cap KeysOf(n) = {}
         /\ Edge[n] \in PastMapping => n \in PastMapping
<1>. USE DEF Edge, Settled, KeysOf, Keys, Pinned, SourceKeys, PastMapping
<1>1. CASE n = "ensure_br"
  BY <1>1
<1>2. CASE n = "generate_tr"
  BY <1>2
<1>3. CASE n = "persist_mapping"
  BY <1>3
<1>4. CASE n = "modelling"
  BY <1>4
<1>5. CASE n = "generate_pipeline"
  BY <1>5
<1>6. CASE n = "generate_metrics"
  BY <1>6
<1>7. CASE n = "assemble_rp"
  BY <1>7
<1>. QED
  BY <1>1, <1>2, <1>3, <1>4, <1>5, <1>6, <1>7 DEF SavingNodes

\* A decision leads past the mapping's approval only from behind it, or by it.
LEMMA PastShape ==
  ASSUME NEW g \in Gates, NEW d \in Decisions, AfterReview(g, d) \in PastMapping
  PROVE  g \in PastMapping \/ (g = "await_mapping_review" /\ d = "approve")
BY DEF Gates, Decisions, AfterReview, OnApprove, OnRevise, PastMapping

\* Sources move only with the versions they are of.
LEMMA SourcesSame ==
  ASSUME NEW k \in Pinned, \A j \in SourceKeys[k] : ver'[j] = ver[j]
  PROVE  SourcesOf(k)' = SourcesOf(k)
<1>. USE DEF SourcesOf, SourceKeys, Held, Before
<1>1. CASE k = "br"
  BY <1>1
<1>2. CASE k = "tr"
  BY <1>2
<1>3. CASE k = "dm"
  BY <1>3
<1>4. CASE k = "sm"
  BY <1>4
<1>5. CASE k = "pipeline"
  BY <1>5
<1>6. CASE k = "metrics"
  BY <1>6
<1>. QED
  BY <1>1, <1>2, <1>3, <1>4, <1>5, <1>6 DEF Pinned

\* No two rows of a node are the same version.
LEMMA RowsDiffer ==
  ASSUME NEW n \in SavingNodes
  PROVE  \A q, r \in RowsOf(n) : q.ref = r.ref => q = r
BY DEF SavingNodes, RowsOf, TrRows, MappingRows, ModellingRows, PipelineRows, MetricsRows,
   PackageRows, ApprovedRows, NewRow, NewRef, DM, SM

-----------------------------------------------------------------------------
\* What saved rows derive from

\* What the state refers to when a node runs.
LEMMA StateRefs ==
  ASSUME TypeOK, ReviewInv, ~failed, NEW k \in Keys, k \in Settled(node)
  PROVE  /\ StateRef(TypeOf[k], k) = {Held(k)} /\ Held(k) \in Ref
         /\ Held(k).type = TypeOf[k] /\ Held(k).version = latest[TypeOf[k]]
         /\ Held(k).version \in Nat
<1>1. ver[k] = latest[TypeOf[k]] /\ ver[k] >= 1 /\ ver[k] \in Nat
  BY DEF ReviewInv, StateFits, TypeOK
<1>2. TypeOf[k] \in ArtefactTypes
  BY DEF Keys, TypeOf, ArtefactTypes
<1>. QED
  BY <1>1, <1>2 DEF StateRef, Held, Ref

\* A version that the state refers to when it is settled is stored.
LEMMA StateRefStored ==
  ASSUME TypeOK, ReviewInv, ~failed, NEW k \in Keys, k \in Settled(node),
         NEW p \in StateRef(TypeOf[k], k)
  PROVE  p \in Ref /\ p.version <= latest[p.type]
<1>1. p = Held(k) /\ p \in Ref /\ p.version = latest[p.type] /\ p.version \in Nat
  BY StateRefs
<1>. QED
  BY <1>1

\* A row derives from what is stored, or from a row saved with it.
LEMMA RowSources ==
  ASSUME TypeOK, ReviewInv, DerivInv, NEW n \in SavingNodes, node = n, ~failed,
         NEW r \in RowsOf(n), NEW p \in r.parents
  PROVE  \/ p \in Ref /\ p.version <= latest[p.type]
         \/ \E q \in RowsOf(n) : p = q.ref
<1>. USE DEF Settled, Keys, TypeOf
<1>1. CASE n = "ensure_br"
  BY <1>1 DEF RowsOf, NewRow
<1>2. CASE n = "generate_tr"
  BY <1>2, StateRefStored DEF RowsOf, TrRows, NewRow
<1>3. CASE n = "persist_mapping"
  BY <1>3, StateRefStored DEF RowsOf, MappingRows, NewRow
<1>4. CASE n = "modelling"
  <2>1. \A x \in ModellingParents : x \in Ref /\ x.version <= latest[x.type]
    BY <1>4, StateRefStored DEF ModellingParents
  <2>2. NewRow(DM, ModellingParents) \in RowsOf(n) /\ NewRow(DM, ModellingParents).ref = NewRef(DM)
    BY <1>4 DEF RowsOf, ModellingRows, NewRow
  <2>3. p \in ModellingParents \cup {NewRef(DM)}
    BY <1>4 DEF RowsOf, ModellingRows, NewRow
  <2>. QED
    BY <2>1, <2>2, <2>3
<1>5. CASE n = "generate_pipeline"
  BY <1>5, StateRefStored DEF RowsOf, PipelineRows, NewRow
<1>6. CASE n = "generate_metrics"
  BY <1>6, StateRefStored DEF RowsOf, MetricsRows, NewRow
<1>7. CASE n = "assemble_rp"
  <2>1. p \in PackagePins
    BY <1>7 DEF RowsOf, PackageRows, NewRow
  <2>. QED
    BY <1>7, <2>1, StateRefStored DEF PackagePins
<1>8. CASE n = "approved"
  <2>1. \E x : p \in ParentsOf(x)
    BY <1>8 DEF RowsOf, ApprovedRows, NewRow
  <2>2. PICK a \in parents : p = a[2]
    BY <2>1 DEF ParentsOf
  <2>. QED
    BY <2>2 DEF DerivInv, SourcesStored, TypeOK
<1>. QED
  BY <1>1, <1>2, <1>3, <1>4, <1>5, <1>6, <1>7, <1>8 DEF SavingNodes

\* Nothing derives from a version that is not stored, when a row is saved only
\* after those it derives from.
LEMMA SourcesGrow ==
  ASSUME TypeOK, ReviewInv, DerivInv, NEW n \in SavingNodes, node = n, ~failed,
         NEW rows \in SUBSET RowsOf(n), SaveRows(rows),
         \A r \in rows : \A q \in RowsOf(n) : q.ref \in r.parents => q \in rows
  PROVE  SourcesStored'
<1>1. /\ latest \in [ArtefactTypes -> Nat] /\ parents \subseteq Ref \X Ref
      /\ \A t \in ArtefactTypes : latest'[t] \in Nat /\ latest'[t] >= latest[t]
      /\ parents' = parents \cup Links(rows)
  BY SavedRows DEF TypeOK
<1>2. ASSUME NEW p \in Ref, p.version <= latest[p.type] PROVE p.version <= latest'[p.type]
  <2>1. p.type \in ArtefactTypes /\ p.version \in Nat
    BY DEF Ref
  <2>. QED
    BY <1>1, <1>2, <2>1
<1>3. ASSUME NEW a \in parents PROVE a[2].version <= latest'[a[2].type]
  <2>1. a[2] \in Ref /\ a[2].version <= latest[a[2].type]
    BY <1>1 DEF DerivInv, SourcesStored
  <2>. QED
    BY <1>2, <2>1
<1>4. ASSUME NEW q \in rows PROVE q.ref.version <= latest'[q.ref.type]
  <2>1. q.ref.type \in ArtefactTypes /\ q.ref = NewRef(q.ref.type)
    BY RowsTyped
  <2>2. q.ref.version = latest[q.ref.type] + 1
    BY <2>1 DEF NewRef
  <2>3. latest'[q.ref.type] = latest[q.ref.type] + 1
    BY <2>1 DEF SaveRows
  <2>. QED
    BY <1>1, <2>1, <2>2, <2>3
<1>5. ASSUME NEW a \in Links(rows) PROVE a[2].version <= latest'[a[2].type]
  <2>1. PICK r \in rows : a[2] \in r.parents
    BY DEF Links
  <2>2. CASE a[2] \in Ref /\ a[2].version <= latest[a[2].type]
    BY <1>2, <2>2
  <2>3. CASE \E q \in RowsOf(n) : a[2] = q.ref
    BY <1>4, <2>1, <2>3
  <2>. QED
    BY <2>1, <2>2, <2>3, RowSources
<1>. QED
  BY <1>1, <1>3, <1>5 DEF SourcesStored

-----------------------------------------------------------------------------
\* Packages

\* The pins of the package that the state describes.
LEMMA PinsHeld ==
  ASSUME TypeOK, ReviewInv, ~failed, node \in {"assemble_rp", "approved"}
  PROVE  /\ PackagePins = {Held(k) : k \in Pinned}
         /\ \A k \in Pinned : Held(k) \in Ref /\ Held(k).version <= latest[Held(k).type]
<1>1. Pinned \subseteq Settled(node) \cap Keys
  BY DEF Pinned, Settled, Keys
<1>2. \A k \in Pinned : StateRef(TypeOf[k], k) = {Held(k)}
  BY <1>1, StateRefs
<1>3. \A k \in Pinned : Held(k) \in Ref /\ Held(k).version <= latest[Held(k).type]
  BY <1>1, <1>2, StateRefStored
<1>4. PackagePins = {Held(k) : k \in Pinned}
  BY <1>2 DEF PackagePins, Pinned, TypeOf
<1>. QED
  BY <1>3, <1>4

\* They are one version of each type, and derive from each other.
LEMMA PinsCoherent ==
  ASSUME TypeOK, ReviewInv, DerivInv, ~failed, node \in {"assemble_rp", "approved"}
  PROVE  Coherent(PackagePins)
<1>1. PackagePins = {Held(k) : k \in Pinned}
  BY PinsHeld
<1>2. \A k \in Pinned : ParentsOf(Held(k)) = SourcesOf(k)
  <2>1. Pinned \subseteq Settled(node)
    BY DEF Pinned, Settled, Keys
  <2>. QED
    BY <2>1 DEF DerivInv, Derives
<1>3. \A k \in Pinned : Held(k).type = TypeOf[k]
  BY DEF Held
<1>4. \A i, j \in Pinned : TypeOf[i] = TypeOf[j] => i = j
  BY DEF Pinned, TypeOf, BR, TR, SM, DM, PIPELINE, METRICS
<1>5. {TypeOf[k] : k \in Pinned} = ArtefactTypes \ {RP}
  BY DEF Pinned, TypeOf, ArtefactTypes, BR, TR, SM, DM, PIPELINE, METRICS, RP
<1>6. ASSUME NEW i \in Pinned, NEW j \in Pinned, i # j,
             NEW a \in SourcesOf(i), a.type = TypeOf[j]
      PROVE  Held(j) \in SourcesOf(i)
  <2>. USE DEF SourcesOf, Held, Before, TypeOf, BR, TR, SM, DM, PIPELINE, METRICS
  <2>1. CASE i = "br"
    BY <1>6, <2>1
  <2>2. CASE i = "tr"
    BY <1>6, <2>2 DEF Pinned
  <2>3. CASE i = "dm"
    BY <1>6, <2>3 DEF Pinned
  <2>4. CASE i = "sm"
    BY <1>6, <2>4 DEF Pinned
  <2>5. CASE i = "pipeline"
    BY <1>6, <2>5 DEF Pinned
  <2>6. CASE i = "metrics"
    BY <1>6, <2>6 DEF Pinned
  <2>. QED
    BY <2>1, <2>2, <2>3, <2>4, <2>5, <2>6 DEF Pinned
<1>7. {p.type : p \in PackagePins} = ArtefactTypes \ {RP}
  BY <1>1, <1>3, <1>5
<1>8. \A p, q \in PackagePins : p.type = q.type => p = q
  BY <1>1, <1>3, <1>4
<1>9. ASSUME NEW p \in PackagePins, NEW q \in PackagePins, p.type # q.type,
             NEW a \in ParentsOf(p), a.type = q.type
      PROVE  q \in ParentsOf(p)
  <2>1. PICK i \in Pinned : p = Held(i)
    BY <1>1
  <2>2. PICK j \in Pinned : q = Held(j)
    BY <1>1
  <2>. QED
    BY <1>2, <1>3, <1>6, <1>9, <2>1, <2>2
<1>. QED
  BY <1>7, <1>8, <1>9 DEF Coherent

\* Stored pins that derive from each other do so after any save.
LEMMA CoherentKept ==
  ASSUME TypeOK, NEW n \in SavingNodes, NEW rows \in SUBSET RowsOf(n), SaveRows(rows),
         NEW pins, \A p \in pins : p \in Ref /\ p.version <= latest[p.type], Coherent(pins)
  PROVE  Coherent(pins)'
<1>1. \A p \in pins : ParentsOf(p)' = ParentsOf(p)
  BY ParentsKept
<1>. QED
  BY <1>1 DEF Coherent

\* A package is saved with the pins that the state describes.
LEMMA PackageRow ==
  ASSUME TypeOK, ReviewInv, ~failed, NEW n \in SavingNodes, node = n,
         NEW r \in RowsOf(n), r.ref.type = RP
  PROVE  n \in {"assemble_rp", "approved"} /\ r.parents = PackagePins
<1>1. n \in {"assemble_rp", "approved"}
  BY RowsTyped DEF SavingNodes, TypesOf, BR, TR, SM, DM, PIPELINE, METRICS, RP
<1>2. CASE n = "assemble_rp"
  BY <1>2 DEF RowsOf, PackageRows, NewRow
<1>3. CASE n = "approved"
  <2>1. ver["rp"] = latest[RP] /\ Package(ver["rp"]) = PackagePins
    BY <1>3 DEF ReviewInv, StateFits, Settled, Keys, TypeOf
  <2>2. r.parents = ParentsOf([type |-> RP, version |-> latest[RP]])
    BY <1>3 DEF RowsOf, ApprovedRows, NewRow
  <2>. QED
    BY <1>1, <2>1, <2>2 DEF Package
<1>. QED
  BY <1>1, <1>2, <1>3

\* Saves leave every package coherent, the new one included.
LEMMA PackagesGrow ==
  ASSUME TypeOK, ReviewInv, DerivInv, NEW n \in SavingNodes, node = n, ~failed,
         NEW rows \in SUBSET RowsOf(n), SaveRows(rows)
  PROVE  PackagesCoherent'
<1>1. parents' = parents \cup Links(rows) /\ parents \subseteq Ref \X Ref
  BY SavedRows DEF TypeOK
<1>2. ASSUME NEW a \in parents, a[1].type = RP PROVE Coherent(ParentsOf(a[1]))'
  <2>1. PICK x : x = a[1]
    OBVIOUS
  <2>2. x \in Ref /\ x.version <= latest[x.type]
    BY <1>1, <2>1 DEF ReviewInv, Stored
  <2>3. ParentsOf(x)' = ParentsOf(x)
    BY <2>2, ParentsKept
  <2>4. PICK pins : pins = ParentsOf(x)
    OBVIOUS
  <2>5. Coherent(pins)
    BY <1>2, <2>1, <2>4, CoherentPackages DEF DerivInv
  <2>6. \A p \in pins : p \in Ref /\ p.version <= latest[p.type]
    BY <1>1, <2>4 DEF ParentsOf, DerivInv, SourcesStored
  <2>7. Coherent(pins)'
    BY <2>5, <2>6, CoherentKept
  <2>. QED
    BY <2>1, <2>3, <2>4, <2>7
<1>3. ASSUME NEW a \in Links(rows), a[1].type = RP PROVE Coherent(ParentsOf(a[1]))'
  <2>1. PICK r \in rows : a[1] = r.ref
    BY DEF Links
  <2>2. n \in {"assemble_rp", "approved"} /\ r.parents = PackagePins
    BY <1>3, <2>1, PackageRow
  <2>3. PICK pins : pins = PackagePins
    OBVIOUS
  <2>4. ParentsOf(r.ref)' = pins
    <3>1. r.ref \in Ref /\ r.ref.version = latest[r.ref.type] + 1
      <4>1. r.ref = NewRef(r.ref.type) /\ r.ref \in Ref
        BY RowsTyped
      <4>. QED
        BY <4>1 DEF NewRef
    <3>. QED
      BY <2>2, <2>3, <3>1, RowsDiffer, ParentsNew DEF ReviewInv
  <2>5. Coherent(pins)
    BY <2>2, <2>3, PinsCoherent
  <2>6. \A p \in pins : p \in Ref /\ p.version <= latest[p.type]
    BY <2>2, <2>3, PinsHeld
  <2>7. Coherent(pins)'
    BY <2>5, <2>6, CoherentKept
  <2>. QED
    BY <2>1, <2>4, <2>7
<1>4. \A a \in parents' : a[1].type = RP => Coherent(ParentsOf(a[1]))'
  BY <1>1, <1>2, <1>3
<1>5. (PackagesCoherent <=> \A a \in parents : a[1].type = RP => Coherent(ParentsOf(a[1])))'
  BY CoherentPackages, PTL
<1>. QED
  BY <1>4, <1>5

-----------------------------------------------------------------------------
\* The state

\* A row that a node has completed derives from what the state then holds.
LEMMA NewSources ==
  ASSUME TypeOK, ReviewInv, NEW n \in SavingNodes \ {"approved"}, node = n, ~failed,
         \A k \in Keys : ver'[k] = IF k \in KeysOf(n) THEN latest[TypeOf[k]] + 1 ELSE ver[k],
         NEW k \in KeysOf(n) \cap Pinned
  PROVE  \E r \in RowsOf(n) : r.ref = Held(k)' /\ r.parents = SourcesOf(k)'
<1>1. ASSUME NEW t, NEW refs, NewRow(t, refs) \in RowsOf(n), TypeOf[k] = t, refs = SourcesOf(k)'
      PROVE  \E r \in RowsOf(n) : r.ref = Held(k)' /\ r.parents = SourcesOf(k)'
  <2>1. k \in Keys /\ ver'[k] = latest[t] + 1
    BY <1>1 DEF Pinned, Keys
  <2>2. Held(k)' = NewRef(t)
    BY <1>1, <2>1 DEF Held, NewRef
  <2>. QED
    BY <1>1, <2>2 DEF NewRow
<1>. USE DEF Settled, Keys, KeysOf, TypeOf, Pinned
<1>2. CASE n = "ensure_br"
  <2>1. k = "br" /\ NewRow(BR, {}) \in RowsOf(n) /\ {} = SourcesOf(k)'
    BY <1>2 DEF RowsOf, SourcesOf
  <2>. QED
    BY <1>1, <2>1
<1>3. CASE n = "generate_tr"
  <2>1. StateRef(BR, "br") = {Held("br")} /\ Held("br")' = Held("br")
    BY <1>3, StateRefs DEF Held
  <2>2. k = "tr" /\ NewRow(TR, {Held("br")}) \in RowsOf(n) /\ {Held("br")} = SourcesOf(k)'
    BY <1>3, <2>1 DEF RowsOf, TrRows, SourcesOf
  <2>. QED
    BY <1>1, <2>2
<1>4. CASE n = "persist_mapping"
  BY <1>4
<1>5. CASE n = "modelling"
  <2>1. StateRef(TR, "tr") = {Held("tr")} /\ StateRef(DM, "mapping") = {Held("mapping")}
    BY <1>5, StateRefs
  <2>2. ModellingParents = {Held("tr"), Held("mapping")}
    BY <2>1 DEF ModellingParents
  <2>3. ver["mapping"] = latest[DM] /\ latest[DM] \in Nat
    BY <1>5 DEF ReviewInv, StateFits, TypeOK, ArtefactTypes
  <2>4. ver'["dm"] = latest[DM] + 1 /\ ver'["tr"] = ver["tr"]
    BY <1>5
  <2>5. Held("tr")' = Held("tr") /\ Before("dm")' = Held("mapping") /\ Held("dm")' = NewRef(DM)
    BY <2>3, <2>4 DEF Held, Before, NewRef
  <2>6. CASE k = "dm"
    <3>1. NewRow(DM, ModellingParents) \in RowsOf(n) /\ ModellingParents = SourcesOf(k)'
      BY <1>5, <2>2, <2>5, <2>6 DEF RowsOf, ModellingRows, SourcesOf
    <3>. QED
      BY <1>1, <2>6, <3>1
  <2>7. CASE k = "sm"
    <3>1. /\ NewRow(SM, ModellingParents \cup {NewRef(DM)}) \in RowsOf(n)
          /\ ModellingParents \cup {NewRef(DM)} = SourcesOf(k)'
      BY <1>5, <2>2, <2>5, <2>7 DEF RowsOf, ModellingRows, SourcesOf
    <3>. QED
      BY <1>1, <2>7, <3>1
  <2>. QED
    BY <1>5, <2>6, <2>7
<1>6. CASE n = "generate_pipeline"
  <2>1. /\ StateRef(SM, "sm") = {Held("sm")} /\ StateRef(DM, "dm") = {Held("dm")}
        /\ Held("sm")' = Held("sm") /\ Held("dm")' = Held("dm")
    BY <1>6, StateRefs DEF Held
  <2>2. k = "pipeline" /\ NewRow(PIPELINE, {Held("sm"), Held("dm")}) \in RowsOf(n)
    <3>1. {Held("sm")} \cup {Held("dm")} = {Held("sm"), Held("dm")}
      OBVIOUS
    <3>. QED
      BY <1>6, <2>1, <3>1 DEF RowsOf, PipelineRows
  <2>3. {Held("sm"), Held("dm")} = SourcesOf(k)'
    BY <2>1, <2>2 DEF SourcesOf
  <2>. QED
    BY <1>1, <2>2, <2>3
<1>7. CASE n = "generate_metrics"
  <2>1. /\ StateRef(SM, "sm") = {Held("sm")} /\ StateRef(PIPELINE, "pipeline") = {Held("pipeline")}
        /\ Held("sm")' = Held("sm") /\ Held("pipeline")' = Held("pipeline")
    BY <1>7, StateRefs DEF Held
  <2>2. k = "metrics" /\ NewRow(METRICS, {Held("sm"), Held("pipeline")}) \in RowsOf(n)
    <3>1. {Held("sm")} \cup {Held("pipeline")} = {Held("sm"), Held("pipeline")}
      OBVIOUS
    <3>. QED
      BY <1>7, <2>1, <3>1 DEF RowsOf, MetricsRows
  <2>3. {Held("sm"), Held("pipeline")} = SourcesOf(k)'
    BY <2>1, <2>2 DEF SourcesOf
  <2>. QED
    BY <1>1, <2>2, <2>3
<1>8. CASE n = "assemble_rp"
  BY <1>8
<1>. QED
  BY <1>2, <1>3, <1>4, <1>5, <1>6, <1>7, <1>8 DEF SavingNodes

\* A save leaves a chain of data models as it is.
LEMMA ContinuesKept ==
  ASSUME TypeOK, NEW n \in SavingNodes, NEW rows \in SUBSET RowsOf(n), SaveRows(rows),
         reviews \subseteq reviews', NEW v \in Nat, v <= latest[DM], ContinuesMapping(v)
  PROVE  ContinuesMapping(v)'
<1>1. PICK r \in reviews :
        /\ r.gate = "await_mapping_review" /\ r.decision = "approve"
        /\ \A k \in r.artefact.version + 1 .. v : DataModel(k - 1) \in ParentsOf(DataModel(k))
  BY DEF ContinuesMapping
<1>2. r.artefact.version \in Nat /\ latest[DM] \in Nat
  BY DEF TypeOK, Review, Ref, ArtefactTypes
<1>3. ASSUME NEW k \in r.artefact.version + 1 .. v
      PROVE  DataModel(k - 1) \in ParentsOf(DataModel(k))'
  <2>1. k \in Nat /\ k <= latest[DM]
    BY <1>2
  <2>2. PICK x : x = DataModel(k)
    OBVIOUS
  <2>3. x \in Ref /\ x.version <= latest[x.type]
    BY <2>1, <2>2 DEF DataModel, Ref, ArtefactTypes
  <2>4. ParentsOf(x)' = ParentsOf(x)
    BY <2>3, ParentsKept
  <2>. QED
    BY <1>1, <2>2, <2>4
<1>. QED
  BY <1>1, <1>3 DEF ContinuesMapping, DataModel

\* The enriched data model continues the chain of the version it replaces.
LEMMA ContinuesFurther ==
  ASSUME TypeOK, ReviewInv, node = "modelling", ~failed, SaveRows(RowsOf("modelling")),
         reviews' = reviews, NEW v, v = latest[DM], ContinuesMapping(v)
  PROVE  ContinuesMapping(v + 1)'
<1>1. v \in Nat /\ ver["mapping"] = v
  BY DEF TypeOK, ArtefactTypes, ReviewInv, StateFits, Settled, Keys, TypeOf
<1>2. ContinuesMapping(v)'
  BY <1>1, ContinuesKept DEF SavingNodes
<1>3. DataModel(v) \in ParentsOf(DataModel(v + 1))'
  <2>1. DataModel(v) \in ModellingParents
    BY <1>1, StateRefs DEF ModellingParents, Settled, Keys, TypeOf, Held, DataModel
  <2>2. PICK r : r = NewRow(DM, ModellingParents)
    OBVIOUS
  <2>3. /\ r \in RowsOf("modelling") /\ r.ref = DataModel(v + 1) /\ r.parents = ModellingParents
        /\ r.ref \in Ref /\ r.ref.version = latest[r.ref.type] + 1
    BY <1>1, <2>2
    DEF RowsOf, ModellingRows, NewRow, NewRef, DataModel, Ref, ArtefactTypes
  <2>4. ParentsOf(r.ref)' = r.parents
    BY <2>3, RowsDiffer, ParentsNew DEF ReviewInv, SavingNodes
  <2>. QED
    BY <2>1, <2>3, <2>4
<1>4. PICK r \in reviews :
        /\ r.gate = "await_mapping_review" /\ r.decision = "approve"
        /\ \A k \in Nat : k \in r.artefact.version + 1 .. v =>
             DataModel(k - 1) \in ParentsOf(DataModel(k))'
  BY <1>2 DEF ContinuesMapping, DataModel
<1>5. r.artefact.version \in Nat
  BY DEF TypeOK, Review, Ref
<1>6. ASSUME NEW k \in r.artefact.version + 1 .. v + 1
      PROVE  DataModel(k - 1) \in ParentsOf(DataModel(k))'
  <2>1. k \in Nat /\ (k = v + 1 \/ k \in r.artefact.version + 1 .. v)
    BY <1>1, <1>5
  <2>2. CASE k = v + 1
    <3>1. k - 1 = v
      BY <1>1, <2>2
    <3>. QED
      BY <1>3, <2>2, <3>1
  <2>. QED
    BY <1>4, <2>1, <2>2
<1>. QED
  BY <1>4, <1>6 DEF ContinuesMapping, DataModel

\* What a node that completes leaves settled derives from what it leaves.
LEMMA SaveDerives ==
  ASSUME TypeOK, ReviewInv, DerivInv, NEW n \in SavingNodes \ {"approved"},
         Sets(n)
  PROVE  Derives'
<1>1. /\ node = n /\ node' = Edge[n] /\ ~failed /\ reviews' = reviews
      /\ SaveRows(RowsOf(n)) /\ n \in SavingNodes
      /\ \A k \in Keys : ver'[k] = IF k \in KeysOf(n) THEN latest[TypeOf[k]] + 1 ELSE ver[k]
  BY DEF Sets, Completes, SavesLinked
<1>2. /\ \A k \in Settled(n) : k \in Keys
      /\ \A k \in Pinned : k \in Keys /\ SourceKeys[k] \subseteq Keys
  <2>1. Settled(n) \subseteq Keys
    BY DEF Settled, Keys
  <2>2. \A k \in Pinned : k \in Keys /\ SourceKeys[k] \subseteq Keys
    BY DEF Pinned, Keys, SourceKeys
  <2>. QED
    BY <2>1, <2>2
<1>3. ASSUME NEW k \in Settled(node') \cap Pinned
      PROVE  ParentsOf(Held(k))' = SourcesOf(k)'
  <2>1. CASE k \in KeysOf(n)
    <3>1. PICK r \in RowsOf(n) : r.ref = Held(k)' /\ r.parents = SourcesOf(k)'
      BY <1>1, <2>1, NewSources
    <3>2. r.ref \in Ref /\ r.ref.version = latest[r.ref.type] + 1
      <4>1. r.ref = NewRef(r.ref.type) /\ r.ref \in Ref
        BY <1>1, RowsTyped
      <4>. QED
        BY <4>1 DEF NewRef
    <3>3. ParentsOf(r.ref)' = r.parents
      BY <1>1, <3>2, RowsDiffer, ParentsNew DEF ReviewInv
    <3>. QED
      BY <3>1, <3>3 DEF ParentsOf
  <2>2. CASE k \notin KeysOf(n)
    <3>1. k \in Settled(n) /\ SourceKeys[k] \cap KeysOf(n) = {}
      BY <1>1, <2>2, SavingShape, SourceShape
    <3>2. SourcesOf(k)' = SourcesOf(k)
      <4>1. \A j \in SourceKeys[k] : ver'[j] = ver[j]
        BY <1>1, <1>2, <3>1
      <4>. QED
        BY <4>1, SourcesSame
    <3>3. PICK x : x = Held(k)
      OBVIOUS
    <3>4. Held(k)' = x
      BY <1>1, <1>2, <2>2, <3>3 DEF Held
    <3>5. x \in Ref /\ x.version <= latest[x.type]
      BY <1>1, <1>2, <3>1, <3>3, StateRefs, StateRefStored
    <3>6. ParentsOf(x)' = ParentsOf(x)
      BY <1>1, <3>5, ParentsKept
    <3>7. ParentsOf(Held(k)) = SourcesOf(k)
      BY <1>1, <3>1 DEF DerivInv, Derives
    <3>. QED
      BY <3>2, <3>3, <3>4, <3>6, <3>7 DEF ParentsOf
  <2>. QED
    BY <2>1, <2>2
<1>4. ASSUME node' \in PastMapping PROVE ContinuesMapping(ver["mapping"])'
  <2>1. n \in PastMapping /\ ContinuesMapping(ver["mapping"])
    BY <1>1, <1>4, SourceShape DEF DerivInv, Derives
  <2>2. "mapping" \in Settled(n) /\ "mapping" \in Keys /\ TypeOf["mapping"] = DM
    BY <2>1 DEF PastMapping, Settled, Keys, TypeOf
  <2>3. ver["mapping"] = latest[DM] /\ latest[DM] \in Nat
    BY <1>1, <2>2 DEF ReviewInv, StateFits, TypeOK, ArtefactTypes
  <2>4. CASE n = "modelling"
    <3>1. PICK v : v = latest[DM]
      OBVIOUS
    <3>2. ver'["mapping"] = v + 1
      BY <1>1, <2>2, <2>4, <3>1 DEF KeysOf
    <3>3. ContinuesMapping(v + 1)'
      BY <1>1, <2>1, <2>3, <2>4, <3>1, ContinuesFurther
    <3>. QED
      BY <3>2, <3>3 DEF ContinuesMapping
  <2>5. CASE n # "modelling"
    <3>1. PICK v : v = ver["mapping"]
      OBVIOUS
    <3>2. ver'["mapping"] = v
      BY <1>1, <2>1, <2>2, <2>5, <3>1 DEF KeysOf, PastMapping
    <3>3. ContinuesMapping(v)'
      BY <1>1, <2>1, <2>3, <3>1, ContinuesKept
    <3>. QED
      BY <3>2, <3>3 DEF ContinuesMapping
  <2>. QED
    BY <2>4, <2>5
<1>. QED
  BY <1>3, <1>4 DEF Derives

-----------------------------------------------------------------------------
\* Publishing

\* What the approved copy of the package pins without a gate is covered.
LEMMA PublishCovers ==
  ASSUME TypeOK, ReviewInv, DerivInv, ~failed, node = "approved", SaveRows(RowsOf("approved")),
         published' = published \cup {latest[RP] + 1}, reviews' = reviews
  PROVE  UngatedPinsAreCovered'
<1>1. PICK v : v = latest[RP] + 1
  OBVIOUS
<1>2. published' = {v}
  BY <1>1, NothingYet DEF END
<1>3. PICK pins : pins = PackagePins
  OBVIOUS
<1>4. Package(v)' = pins
  <2>1. PICK r : r = NewRow(RP, ParentsOf([type |-> RP, version |-> latest[RP]]))
    OBVIOUS
  <2>2. RowsOf("approved") = {r} /\ r.ref = [type |-> RP, version |-> v]
    BY <1>1, <2>1 DEF RowsOf, ApprovedRows, NewRow, NewRef
  <2>3. r.parents = pins
    BY <1>3, <2>2, PackageRow DEF SavingNodes
  <2>4. r.ref \in Ref /\ r.ref.version = latest[r.ref.type] + 1
    BY <1>1, <2>2 DEF TypeOK, Ref, ArtefactTypes
  <2>5. ParentsOf(r.ref)' = r.parents
    BY <2>2, <2>4, ParentsNew DEF ReviewInv
  <2>. QED
    BY <2>2, <2>3, <2>5 DEF Package
<1>5. pins = {Held(k) : k \in Pinned}
  BY <1>3, PinsHeld
<1>6. \A k \in Pinned : ParentsOf(Held(k)) = SourcesOf(k)
  <2>1. Pinned \subseteq Settled(node)
    BY DEF Pinned, Settled, Keys
  <2>. QED
    BY <2>1 DEF DerivInv, Derives
<1>7. \A p \in pins : ParentsOf(p)' = ParentsOf(p)
  BY <1>5, PinsHeld, ParentsKept DEF SavingNodes
<1>8. Held("sm") \in pins /\ Held("sm").type = SM /\ Held("dm") \in ParentsOf(Held("sm"))
  BY <1>5, <1>6 DEF Pinned, SourcesOf, Held, TypeOf
<1>9. /\ Held("metrics") \in pins /\ Held("metrics").type = METRICS
      /\ Held("pipeline") \in ParentsOf(Held("metrics"))
  BY <1>5, <1>6 DEF Pinned, SourcesOf, Held, TypeOf
<1>10. ASSUME NEW pin \in pins, pin.type = DM
       PROVE  pin = Held("dm") /\ pin.version = ver["mapping"]
  <2>1. PICK k \in Pinned : pin = Held(k)
    BY <1>5
  <2>2. k = "dm"
    BY <1>10, <2>1 DEF Held, Pinned, TypeOf, BR, TR, SM, DM, PIPELINE, METRICS
  <2>3. ver["dm"] = latest[DM] /\ ver["mapping"] = latest[DM]
    BY DEF ReviewInv, StateFits, Settled, Keys, TypeOf
  <2>. QED
    BY <2>1, <2>2, <2>3 DEF Held
<1>11. ASSUME NEW pin \in pins, pin.type = PIPELINE PROVE pin = Held("pipeline")
  <2>1. PICK k \in Pinned : pin = Held(k)
    BY <1>5
  <2>. QED
    BY <1>11, <2>1 DEF Held, Pinned, TypeOf, BR, TR, SM, DM, PIPELINE, METRICS
<1>12. ASSUME NEW pin \in pins, pin.type = DM PROVE ContinuesMapping(pin.version)'
  <2>1. PICK w : w = ver["mapping"]
    OBVIOUS
  <2>2. w \in Nat /\ w <= latest[DM]
    BY <2>1 DEF TypeOK, ArtefactTypes, ReviewInv, StateFits, Settled, Keys, TypeOf
  <2>3. ContinuesMapping(w)
    BY <2>1 DEF DerivInv, Derives, PastMapping
  <2>4. ContinuesMapping(w)'
    BY <2>2, <2>3, ContinuesKept DEF SavingNodes
  <2>. QED
    BY <1>10, <1>12, <2>1, <2>4
<1>13. ASSUME NEW pin \in pins, pin.type = DM
       PROVE  \E sm \in pins : sm.type = SM /\ pin \in ParentsOf(sm)'
  <2>1. Held("sm") \in pins /\ Held("sm").type = SM
    BY <1>8
  <2>2. PICK sm \in pins : sm = Held("sm")
    BY <2>1
  <2>3. pin \in ParentsOf(sm)'
    BY <1>7, <1>8, <1>10, <1>13, <2>2
  <2>. QED
    BY <2>1, <2>2, <2>3
<1>14. ASSUME NEW pin \in pins, pin.type = PIPELINE
       PROVE  \E m \in pins : m.type = METRICS /\ pin \in ParentsOf(m)'
  <2>1. PICK m \in pins : m = Held("metrics")
    BY <1>9
  <2>2. pin \in ParentsOf(m)'
    BY <1>7, <1>9, <1>11, <1>14, <2>1
  <2>. QED
    BY <1>9, <2>1, <2>2
<1>. QED
  BY <1>2, <1>4, <1>12, <1>13, <1>14 DEF UngatedPinsAreCovered, ContinuesMapping

\* While nothing is published, there is nothing to cover.
LEMMA NothingToCover == ASSUME published' = {} PROVE UngatedPinsAreCovered'
BY DEF UngatedPinsAreCovered

-----------------------------------------------------------------------------
\* The steps, one lemma each

\* A node that saves and goes on.
LEMMA SavingDerives ==
  ASSUME TypeOK, ReviewInv, DerivInv, NEW n \in SavingNodes \ {"approved"},
         Sets(n)
  PROVE  DerivInv'
<1>1. node = n /\ ~failed /\ SaveRows(RowsOf(n)) /\ published' = published /\ n # END
  BY DEF Sets, Completes, SavesLinked, SavingNodes, END
<1>2. SourcesStored' /\ PackagesCoherent'
  BY <1>1, SourcesGrow, PackagesGrow
<1>3. UngatedPinsAreCovered'
  BY <1>1, NothingYet, NothingToCover
<1>. QED
  BY <1>2, <1>3, SaveDerives DEF DerivInv

\* A node that saves nothing.
LEMMA QuietDerives ==
  ASSUME TypeOK, ReviewInv, DerivInv,
         \/ ResetMappingRetries \/ Discovery \/ DataMapping \/ JudgeMapping \/ ValidatePipeline
         \/ MarkTerminated
  PROVE  DerivInv'
<1>1. UNCHANGED <<ver, latest, parents, published, reviews>> /\ ~failed /\ node # END
  BY DEF ResetMappingRetries, Discovery, DataMapping, JudgeMapping, ValidatePipeline,
     MarkTerminated, Completes, store, END
<1>2. Settled(node') \subseteq Settled(node) /\ (node' \in PastMapping => node \in PastMapping)
  <2>1. CASE JudgeMapping
    <3>1. /\ node = "mapping_judge"
          /\ node' \in {"mapping_discovery", "mapping_data_mapping", "persist_mapping"}
      BY <2>1, Completed DEF JudgeMapping, NodeCompletes
    <3>. QED
      BY <3>1 DEF Settled, PastMapping
  <2>2. CASE ~JudgeMapping
    <3>1. /\ node \in {"reset_mapping_retries", "mapping_discovery", "mapping_data_mapping",
                       "validate_pipeline", "terminated"}
          /\ node' = Edge[node]
      BY <2>2 DEF ResetMappingRetries, Discovery, DataMapping, ValidatePipeline, MarkTerminated,
         Completes
    <3>. QED
      BY <3>1 DEF Edge, Settled, PastMapping, END
  <2>. QED
    BY <2>1, <2>2
<1>3. published' = {}
  BY <1>1, NothingYet
<1>4. SourcesStored' /\ PackagesCoherent'
  BY <1>1 DEF DerivInv, SourcesStored, PackagesCoherent, ParentsOf
<1>5. Derives'
  <2>1. \A k \in Settled(node') \cap Pinned : ParentsOf(Held(k))' = SourcesOf(k)'
    <3>1. ASSUME NEW k \in Settled(node') \cap Pinned PROVE ParentsOf(Held(k))' = SourcesOf(k)'
      <4>1. ParentsOf(Held(k)) = SourcesOf(k)
        BY <1>1, <1>2 DEF DerivInv, Derives
      <4>2. SourcesOf(k)' = SourcesOf(k)
        BY <1>1, SourcesSame
      <4>3. ParentsOf(Held(k))' = ParentsOf(Held(k))
        BY <1>1 DEF ParentsOf, Held
      <4>. QED
        BY <4>1, <4>2, <4>3
    <3>. QED
      BY <3>1
  <2>2. node' \in PastMapping => ContinuesMapping(ver["mapping"])'
    <3>1. node' \in PastMapping => ContinuesMapping(ver["mapping"])
      BY <1>1, <1>2 DEF DerivInv, Derives
    <3>. QED
      BY <1>1, <3>1 DEF ContinuesMapping, ParentsOf, DataModel
  <2>. QED
    BY <2>1, <2>2 DEF Derives
<1>. QED
  BY <1>3, <1>4, <1>5, NothingToCover DEF DerivInv

\* mark_approved.
LEMMA ApprovedDerives == ASSUME TypeOK, ReviewInv, DerivInv, MarkApproved PROVE DerivInv'
<1>1. /\ ~failed /\ node = "approved" /\ node' = END /\ reviews' = reviews
      /\ SaveRows(RowsOf("approved")) /\ published' = published \cup {latest[RP] + 1}
  BY DEF MarkApproved, Completes, Edge
<1>2. SourcesStored' /\ PackagesCoherent'
  BY <1>1, SourcesGrow, PackagesGrow DEF SavingNodes
<1>3. UngatedPinsAreCovered'
  BY <1>1, PublishCovers
<1>4. Derives'
  BY <1>1 DEF Derives, Settled, PastMapping, END
<1>. QED
  BY <1>2, <1>3, <1>4 DEF DerivInv

\* A node that raises, with the rows it has saved.
LEMMA RaisesDerives == ASSUME TypeOK, ReviewInv, DerivInv, NodeRaises PROVE DerivInv'
<1>1. failed' = TRUE /\ reviews' = reviews /\ ~failed
  BY RaisesTyped
<1>2. Derives'
  BY <1>1 DEF Derives
<1>3. CASE DiscoveryRefused
  <2>1. UNCHANGED <<latest, parents, published>> /\ node # END
    BY <1>3 DEF DiscoveryRefused, store, END
  <2>2. UngatedPinsAreCovered'
    BY <1>1, <2>1, NothingYet, NothingToCover
  <2>3. SourcesStored' /\ PackagesCoherent'
    BY <2>1 DEF DerivInv, SourcesStored, PackagesCoherent, ParentsOf
  <2>. QED
    BY <1>2, <2>2, <2>3 DEF DerivInv
<1>4. ASSUME NEW n \in SavingNodes, SaveRaises(n) PROVE DerivInv'
  <2>1. PICK saved \in SUBSET RowsOf(n) :
          /\ \A r \in saved : \A q \in RowsOf(n) : q.ref \in r.parents => q \in saved
          /\ SaveRows(saved)
          /\ published' = IF n = "approved" /\ saved # {}
                          THEN published \cup {latest[RP] + 1} ELSE published
    BY <1>4 DEF SaveRaises
  <2>2. node = n /\ published = {}
    BY <1>1, <1>4, NothingYet DEF SaveRaises, SavingNodes, END
  <2>3. SourcesStored' /\ PackagesCoherent'
    BY <1>1, <2>1, <2>2, SourcesGrow, PackagesGrow
  <2>4. UngatedPinsAreCovered'
    <3>1. CASE published' = {}
      BY <3>1, NothingToCover
    <3>2. CASE published' # {}
      <4>1. n = "approved" /\ saved # {}
        BY <2>1, <2>2, <3>2
      <4>2. saved = RowsOf("approved")
        BY <2>1, <4>1 DEF RowsOf, ApprovedRows
      <4>. QED
        BY <1>1, <2>1, <2>2, <4>1, <4>2, PublishCovers
    <3>. QED
      BY <3>1, <3>2
  <2>. QED
    BY <1>2, <2>3, <2>4 DEF DerivInv
<1>. QED
  BY <1>3, <1>4 DEF NodeRaises

\* A review: approving the mapping starts the chain of data models.
LEMMA ReviewDerives ==
  ASSUME TypeOK, ReviewInv, DerivInv, NEW gate \in Gates, NEW d \in Decisions,
         AwaitReview(gate, d)
  PROVE  DerivInv'
<1>1. /\ node = gate /\ node' = AfterReview(gate, d)
      /\ UNCHANGED <<ver, latest, parents, published>>
      /\ reviews' = reviews \cup {[gate |-> gate, artefact |-> pending, decision |-> d]}
  BY DEF AwaitReview, store
<1>2. ~failed /\ node # END
  BY <1>1 DEF TypeOK, WorkNodes, Gates, END
<1>3. SourcesStored' /\ PackagesCoherent'
  BY <1>1 DEF DerivInv, SourcesStored, PackagesCoherent, ParentsOf
<1>4. UngatedPinsAreCovered'
  BY <1>1, <1>2, NothingYet, NothingToCover
<1>5. ASSUME NEW k \in Settled(node') \cap Pinned PROVE ParentsOf(Held(k))' = SourcesOf(k)'
  <2>1. ParentsOf(Held(k)) = SourcesOf(k)
    BY <1>1, <1>2, ReviewShape DEF DerivInv, Derives
  <2>2. SourcesOf(k)' = SourcesOf(k)
    BY <1>1, SourcesSame
  <2>3. ParentsOf(Held(k))' = ParentsOf(Held(k))
    BY <1>1 DEF ParentsOf, Held
  <2>. QED
    BY <2>1, <2>2, <2>3
<1>6. ASSUME node' \in PastMapping PROVE ContinuesMapping(ver["mapping"])'
  <2>1. CASE node \in PastMapping
    <3>1. ContinuesMapping(ver["mapping"])
      BY <1>2, <2>1 DEF DerivInv, Derives
    <3>. QED
      BY <1>1, <3>1 DEF ContinuesMapping, ParentsOf, DataModel
  <2>2. CASE gate = "await_mapping_review" /\ d = "approve"
    <3>1. pending = Held("mapping")
      BY <1>1, <1>2, <2>2 DEF ReviewInv, StateFits, KeyOf
    <3>2. PICK w : w = ver["mapping"]
      OBVIOUS
    <3>3. w \in Nat /\ pending.version = w
      BY <3>1, <3>2 DEF Held, TypeOK, Keys
    <3>4. PICK r : r = [gate |-> gate, artefact |-> pending, decision |-> d]
      OBVIOUS
    <3>5. /\ r \in reviews' /\ r.artefact.version = w
          /\ r.gate = "await_mapping_review" /\ r.decision = "approve"
      BY <1>1, <2>2, <3>3, <3>4
    <3>6. w + 1 .. w = {}
      BY <3>3
    <3>7. ContinuesMapping(w)'
      BY <3>5, <3>6 DEF ContinuesMapping
    <3>. QED
      BY <1>1, <3>2, <3>7 DEF ContinuesMapping
  <2>. QED
    BY <1>1, <1>6, <2>1, <2>2, PastShape
<1>7. Derives'
  BY <1>5, <1>6 DEF Derives
<1>. QED
  BY <1>3, <1>4, <1>7 DEF DerivInv

\* No step breaks what derives from what.
LEMMA NextDerives == TypeOK /\ ReviewInv /\ DerivInv /\ [Next]_vars => DerivInv'
<1>. SUFFICES ASSUME TypeOK, ReviewInv, DerivInv, [Next]_vars PROVE DerivInv'
  OBVIOUS
<1>1. CASE NodeCompletes
  BY <1>1, SavingSets, SavingDerives, QuietDerives, ApprovedDerives DEF NodeCompletes
<1>2. CASE NodeRaises
  BY <1>2, RaisesDerives
<1>3. CASE Reviewed
  BY <1>3, ReviewDerives DEF Reviewed
<1>4. CASE UNCHANGED vars
  <2>1. UNCHANGED <<node, failed, ver, latest, parents, published, reviews>>
    BY <1>4 DEF vars, control, store
  <2>2. SourcesStored' /\ PackagesCoherent'
    BY <2>1 DEF DerivInv, SourcesStored, PackagesCoherent, ParentsOf
  <2>3. UngatedPinsAreCovered'
    BY <2>1 DEF DerivInv, UngatedPinsAreCovered, Package, ParentsOf, DataModel
  <2>4. Derives'
    <3>1. \A k \in Pinned : SourcesOf(k)' = SourcesOf(k)
      BY <2>1, SourcesSame
    <3>. QED
      BY <2>1, <3>1 DEF DerivInv, Derives, ContinuesMapping, ParentsOf, Held, DataModel
  <2>. QED
    BY <2>2, <2>3, <2>4 DEF DerivInv
<1>. QED
  BY <1>1, <1>2, <1>3, <1>4 DEF Next

-----------------------------------------------------------------------------
\* The theorems

\* The inductive invariant behind what derives from what.
THEOREM Derivation == Spec => [](TypeOK /\ ReviewInv /\ DerivInv)
<1>1. Init => TypeOK /\ DerivInv
  <2>. SUFFICES ASSUME Init PROVE DerivInv
    BY InitTyped
  <2>1. node = "ensure_br" /\ parents = {} /\ published = {}
    BY DEF Init
  <2>2. Settled(node) = {} /\ node \notin PastMapping
    BY <2>1 DEF Settled, PastMapping
  <2>. QED
    BY <2>1, <2>2 DEF DerivInv, SourcesStored, Derives, PackagesCoherent, UngatedPinsAreCovered
<1>2. (TypeOK /\ ReviewInv /\ DerivInv) /\ [Next]_vars => DerivInv'
  BY NextDerives
<1>. QED
  BY <1>1, <1>2, ReviewInvariance, PTL DEF Spec

\* Every package, reviewed or not, pins one version of each type, and its pins
\* derive from each other.
THEOREM CoherentByConstruction == Spec => []PackagesCoherent
<1>1. DerivInv => PackagesCoherent
  BY DEF DerivInv
<1>. QED
  BY <1>1, Derivation, PTL

\* What is published without a gate of its own derives from, or is a parent
\* of, what a reviewer approved.
THEOREM NothingUncovered == Spec => []UngatedPinsAreCovered
<1>1. DerivInv => UngatedPinsAreCovered
  BY DEF DerivInv
<1>. QED
  BY <1>1, Derivation, PTL

-----------------------------------------------------------------------------
(***************************************************************************)
(* The graph implements the review lifecycle, but for its fairness: every  *)
(* node and every decision is a step of it, or shows nothing of it.        *)
(***************************************************************************)

\* The nodes behind the gates.
Over == {"approved", "terminated", END}

\* The stage of a node before them.
StageOf(n) ==
  CASE n \in {"ensure_br", "generate_tr", "await_tr_review"} -> 1
    [] n \in {"reset_mapping_retries", "mapping_discovery", "mapping_data_mapping",
              "mapping_judge", "persist_mapping", "await_mapping_review"} -> 2
    [] n \in {"modelling", "await_modelling_review"} -> 3
    [] n \in {"generate_pipeline", "validate_pipeline", "generate_metrics",
              "await_implementation_review"} -> 4
    [] OTHER -> 5

\* CurrentStage, by node and type of the pending artefact.
StageFor(n, t) ==
  CHOOSE i \in 1 .. 5 :
    \/ \E nodes \in StageNodes : {n, Gate[i]} \subseteq nodes
    \/ n \in {"approved", "terminated", END} /\ t = ReviewedType[Gate[i]]

\* The types that the gates review, stage by stage.
StageType == <<TR, DM, SM, METRICS, RP>>

\* The state holds the latest version of what each stage presents, none of
\* which is there before its stage; publication is of the package.
LifeInv ==
  ~failed =>
    /\ \A i \in 1 .. 5 : ver[StageKey[i]] = latest[StageType[i]]
    /\ node \notin Over => \A i \in 1 .. 5 : i > StageOf(node) => ver[StageKey[i]] = 0
    /\ node \in Over => \E i \in 1 .. 5 : pending.type = StageType[i]
    /\ node = "approved" => pending.type = RP

\* The tables of the graph fit the stages.
LEMMA StageTables ==
  /\ \A i \in 1 .. 5 : ReviewedType[Gate[i]] = StageType[i] /\ Gate[i] \in Gates
  /\ \A i \in 1 .. 5 : StageKey[i] \in Keys /\ TypeOf[StageKey[i]] = StageType[i]
  /\ \A i \in 1 .. 5 : StageType[i] \in ArtefactTypes
  /\ \A i, j \in 1 .. 5 : StageType[i] = StageType[j] => i = j
  /\ \A g \in Gates : StageOf(g) \in 1 .. 5 /\ Gate[StageOf(g)] = g
<1>. USE DEF ReviewedType, Gate, StageType, Gates, StageKey, Keys, TypeOf, ArtefactTypes,
         BR, TR, SM, DM, PIPELINE, METRICS, RP
<1>1. 1 .. 5 = {1, 2, 3, 4, 5}
  OBVIOUS
<1>2. \A g \in Gates : StageOf(g) \in 1 .. 5 /\ Gate[StageOf(g)] = g
  BY <1>1 DEF StageOf
<1>. QED
  BY <1>1, <1>2

\* Before the end of the run the node tells the stage ...
LEMMA StageByNode ==
  ASSUME NEW n \in Nodes \ Over, NEW t
  PROVE  StageFor(n, t) = StageOf(n) /\ StageOf(n) \in 1 .. 5
<1>. DEFINE P(i) == \E nodes \in StageNodes : {n, Gate[i]} \subseteq nodes
<1>1. 1 .. 5 = {1, 2, 3, 4, 5} /\ n \notin {"approved", "terminated", END}
  BY DEF Over
<1>2. StageOf(n) \in 1 .. 5 /\ P(StageOf(n)) /\ \A i \in 1 .. 5 : P(i) => i = StageOf(n)
  <2>. USE DEF StageOf, StageNodes, Gate
  <2>1. CASE n \in {"ensure_br", "generate_tr", "await_tr_review"}
    BY <1>1, <2>1
  <2>2. CASE n \in {"reset_mapping_retries", "mapping_discovery", "mapping_data_mapping",
                    "mapping_judge", "persist_mapping", "await_mapping_review"}
    BY <1>1, <2>2
  <2>3. CASE n \in {"modelling", "await_modelling_review"}
    BY <1>1, <2>3
  <2>4. CASE n \in {"generate_pipeline", "validate_pipeline", "generate_metrics",
                    "await_implementation_review"}
    BY <1>1, <2>4
  <2>5. CASE n \in {"assemble_rp", "await_rp_review"}
    BY <1>1, <2>5
  <2>. QED
    BY <1>1, <2>1, <2>2, <2>3, <2>4, <2>5 DEF Nodes, WorkNodes, Gates
<1>. HIDE DEF P
<1>3. \A i \in 1 .. 5 : P(i) <=> i = StageOf(n)
  BY <1>2
<1>4. StageFor(n, t) = CHOOSE i \in 1 .. 5 : P(i)
  BY <1>1 DEF StageFor, P
<1>. QED
  BY <1>2, <1>3, <1>4

\* ... and then the artefact presented last.
LEMMA StageByType ==
  ASSUME NEW n \in Over, NEW i \in 1 .. 5
  PROVE  StageFor(n, StageType[i]) = i
<1>1. \A nodes \in StageNodes : n \notin nodes
  BY DEF Over, StageNodes, END
<1>2. \A j \in 1 .. 5 :
        (\/ \E nodes \in StageNodes : {n, Gate[j]} \subseteq nodes
         \/ n \in {"approved", "terminated", END} /\ StageType[i] = ReviewedType[Gate[j]])
        <=> j = i
  BY <1>1, StageTables DEF Over
<1>. QED
  BY <1>2 DEF StageFor

\* The drafts of the stage put before the reviewer (the mapping of drafts).
ShownDrafts ==
  IF CurrentPhase = "approved" THEN ver.rp - 1 ELSE ver[StageKey[CurrentStage]]

\* The stage and the phase of a run that drafts, now ...
LEMMA DraftingNow ==
  ASSUME ~failed, node \in Nodes \ (Over \cup Gates)
  PROVE  /\ CurrentPhase = "drafting" /\ CurrentStage = StageOf(node)
         /\ ShownDrafts = ver[StageKey[StageOf(node)]]
<1>1. CurrentPhase = "drafting"
  BY DEF CurrentPhase, Over
<1>2. CurrentStage = StageFor(node, pending.type)
  BY DEF CurrentStage, StageFor
<1>. QED
  BY <1>1, <1>2, StageByNode DEF ShownDrafts

\* ... and after the step ...
LEMMA DraftingNext ==
  ASSUME ~failed', node' \in Nodes \ (Over \cup Gates)
  PROVE  /\ CurrentPhase' = "drafting" /\ CurrentStage' = StageOf(node')
         /\ ShownDrafts' = ver'[StageKey[StageOf(node')]]
<1>1. CurrentPhase' = "drafting"
  BY DEF CurrentPhase, Over
<1>2. CurrentStage' = StageFor(node', pending'.type)
  BY DEF CurrentStage, StageFor
<1>. QED
  BY <1>1, <1>2, StageByNode DEF ShownDrafts

\* ... of one that is in review ...
LEMMA ReviewNow ==
  ASSUME ~failed, node \in Gates
  PROVE  /\ CurrentPhase = "in_review" /\ CurrentStage = StageOf(node)
         /\ ShownDrafts = ver[StageKey[StageOf(node)]]
<1>1. CurrentPhase = "in_review" /\ node \in Nodes \ Over
  BY DEF CurrentPhase, Over, Gates, Nodes, END
<1>2. CurrentStage = StageFor(node, pending.type)
  BY DEF CurrentStage, StageFor
<1>. QED
  BY <1>1, <1>2, StageByNode DEF ShownDrafts

\* ... (now and after the step) ...
LEMMA ReviewNext ==
  ASSUME ~failed', node' \in Gates
  PROVE  /\ CurrentPhase' = "in_review" /\ CurrentStage' = StageOf(node')
         /\ ShownDrafts' = ver'[StageKey[StageOf(node')]]
<1>1. CurrentPhase' = "in_review" /\ node' \in Nodes \ Over
  BY DEF CurrentPhase, Over, Gates, Nodes, END
<1>2. CurrentStage' = StageFor(node', pending'.type)
  BY DEF CurrentStage, StageFor
<1>. QED
  BY <1>1, <1>2, StageByNode DEF ShownDrafts

\* ... and of one that stays where it is, or past the gates.
LEMMA StageKept ==
  ASSUME pending'.type = pending.type,
         \/ node = node'
         \/ {node, node'} \subseteq Over /\ \E i \in 1 .. 5 : pending.type = StageType[i]
  PROVE  CurrentStage' = CurrentStage
<1>1. /\ CurrentStage = StageFor(node, pending.type)
      /\ CurrentStage' = StageFor(node', pending'.type)
  BY DEF CurrentStage, StageFor
<1>. QED
  BY <1>1, StageByType

\* A step of the lifecycle is one of its three variables.
LEMMA LifecycleQuiet ==
  ASSUME CurrentPhase' = CurrentPhase, CurrentStage' = CurrentStage, ShownDrafts' = ShownDrafts
  PROVE  UNCHANGED Lifecycle!vars
BY DEF Lifecycle!vars, ShownDrafts

-----------------------------------------------------------------------------
\* The nodes as steps of the lifecycle

\* A node that saves stays in its stage, saves the keys of no later one, and
\* that of its own stage just before the gate.
LEMMA SavingStage ==
  ASSUME NEW n \in SavingNodes \ {"approved"}
  PROVE  /\ n \in Nodes \ (Over \cup Gates) /\ Edge[n] \in Nodes \ Over
         /\ StageOf(Edge[n]) = StageOf(n) /\ StageOf(n) \in 1 .. 5
         /\ \A i \in 1 .. 5 : StageKey[i] \in KeysOf(n) <=> StageType[i] \in TypesOf(n)
         /\ \A i \in 1 .. 5 : StageKey[i] \in KeysOf(n) => i <= StageOf(n)
         /\ StageKey[StageOf(n)] \in KeysOf(n) <=> Edge[n] \in Gates
<1>. USE DEF Over, Nodes, WorkNodes, Gates, END, Edge, StageOf, StageKey, KeysOf, StageType, TypesOf,
         BR, TR, SM, DM, PIPELINE, METRICS, RP
<1>0. 1 .. 5 = {1, 2, 3, 4, 5}
  OBVIOUS
<1>1. CASE n = "ensure_br"
  BY <1>0, <1>1
<1>2. CASE n = "generate_tr"
  BY <1>0, <1>2
<1>3. CASE n = "persist_mapping"
  BY <1>0, <1>3
<1>4. CASE n = "modelling"
  BY <1>0, <1>4
<1>5. CASE n = "generate_pipeline"
  BY <1>0, <1>5
<1>6. CASE n = "generate_metrics"
  BY <1>0, <1>6
<1>7. CASE n = "assemble_rp"
  BY <1>0, <1>7
<1>. QED
  BY <1>1, <1>2, <1>3, <1>4, <1>5, <1>6, <1>7 DEF SavingNodes

\* A node that saves presents the next draft of its stage, or goes on drafting.
LEMMA SavingIsStep ==
  ASSUME TypeOK, LifeInv, NEW n \in SavingNodes \ {"approved"}, Sets(n)
  PROVE  LifeInv' /\ (Lifecycle!Next \/ UNCHANGED Lifecycle!vars)
<1>. DEFINE s == StageOf(n)
<1>1. /\ ~failed /\ ~failed' /\ node = n /\ node' = Edge[n] /\ node \in Nodes \ (Over \cup Gates)
      /\ node' \in Nodes \ Over /\ StageOf(node') = s /\ s \in 1 .. 5
      /\ ver \in [Keys -> Nat] /\ latest \in [ArtefactTypes -> Nat]
  BY SavingStage DEF Sets, Completes, TypeOK
<1>2. \A i \in 1 .. 5 :
        /\ ver[StageKey[i]] = latest[StageType[i]] /\ latest[StageType[i]] \in Nat
        /\ i > s => ver[StageKey[i]] = 0
  BY <1>1, StageTables DEF LifeInv
<1>3. \A i \in 1 .. 5 :
        /\ ver'[StageKey[i]] = IF StageKey[i] \in KeysOf(n)
                               THEN latest[StageType[i]] + 1 ELSE ver[StageKey[i]]
        /\ latest'[StageType[i]] = IF StageKey[i] \in KeysOf(n)
                                   THEN latest[StageType[i]] + 1 ELSE latest[StageType[i]]
  <2>1. SaveRows(RowsOf(n))
    BY DEF Sets, SavesLinked
  <2>2. \A i \in 1 .. 5 : latest'[StageType[i]] = IF StageType[i] \in TypesOf(n)
                          THEN latest[StageType[i]] + 1 ELSE latest[StageType[i]]
    BY <2>1, SavedTypes, StageTables
  <2>. QED
    BY <2>2, SavingStage, StageTables DEF Sets
<1>4. LifeInv'
  <2>1. node' # "approved" /\ node' \notin Over
    BY <1>1 DEF Over
  <2>2. \A i \in 1 .. 5 : i > s => StageKey[i] \notin KeysOf(n)
    BY <1>1, SavingStage
  <2>. QED
    BY <1>1, <1>2, <1>3, <2>1, <2>2 DEF LifeInv
<1>5. CurrentPhase = "drafting" /\ CurrentStage = s /\ ShownDrafts = ver[StageKey[s]]
  BY <1>1, DraftingNow
<1>6. CASE Edge[n] \in Gates
  <2>1. CurrentPhase' = "in_review" /\ CurrentStage' = s /\ ShownDrafts' = ver'[StageKey[s]]
    BY <1>1, <1>6, ReviewNext
  <2>2. ver'[StageKey[s]] = ver[StageKey[s]] + 1
    BY <1>1, <1>2, <1>3, <1>6, SavingStage
  <2>3. Lifecycle!PresentDraft
    BY <1>5, <2>1, <2>2 DEF Lifecycle!PresentDraft, ShownDrafts
  <2>. QED
    BY <1>4, <2>3 DEF Lifecycle!Next
<1>7. CASE Edge[n] \notin Gates
  <2>1. CurrentPhase' = "drafting" /\ CurrentStage' = s /\ ShownDrafts' = ver'[StageKey[s]]
    BY <1>1, <1>7, DraftingNext
  <2>2. ver'[StageKey[s]] = ver[StageKey[s]]
    BY <1>1, <1>3, <1>7, SavingStage
  <2>. QED
    BY <1>4, <1>5, <2>1, <2>2, LifecycleQuiet
<1>. QED
  BY <1>6, <1>7

\* A node between them goes on drafting.
LEMMA QuietIsStutter ==
  ASSUME TypeOK, LifeInv,
         ResetMappingRetries \/ Discovery \/ DataMapping \/ JudgeMapping \/ ValidatePipeline
  PROVE  LifeInv' /\ UNCHANGED Lifecycle!vars
<1>1. /\ ~failed /\ ~failed' /\ UNCHANGED <<ver, latest>>
      /\ {node, node'} \subseteq Nodes \ (Over \cup Gates) /\ StageOf(node') = StageOf(node)
  <2>. USE DEF Over, Nodes, WorkNodes, Gates, END, StageOf
  <2>1. CASE JudgeMapping
    <3>1. /\ node = "mapping_judge" /\ ~failed /\ failed' = failed /\ UNCHANGED <<ver, latest>>
          /\ node' \in {"mapping_discovery", "mapping_data_mapping", "persist_mapping"}
      BY <2>1, Completed DEF JudgeMapping, NodeCompletes, store
    <3>. QED
      BY <3>1
  <2>2. CASE ~JudgeMapping
    <3>1. /\ node \in {"reset_mapping_retries", "mapping_discovery", "mapping_data_mapping",
                       "validate_pipeline"}
          /\ node' = Edge[node] /\ ~failed /\ failed' = failed /\ UNCHANGED <<ver, latest>>
      BY <2>2 DEF Completes, ResetMappingRetries, Discovery, DataMapping, ValidatePipeline, store
    <3>. QED
      BY <3>1 DEF Edge
  <2>. QED
    BY <2>1, <2>2
<1>2. LifeInv'
  <2>1. node \notin Over /\ node' \notin Over /\ node' # "approved"
    BY <1>1 DEF Over
  <2>. QED
    BY <1>1, <2>1 DEF LifeInv
<1>3. UNCHANGED Lifecycle!vars
  BY <1>1, DraftingNow, DraftingNext, LifecycleQuiet
<1>. QED
  BY <1>2, <1>3

\* A rejected run ends; that it does shows nowhere.
LEMMA TerminatedIsStutter ==
  ASSUME TypeOK, LifeInv, MarkTerminated
  PROVE  LifeInv' /\ UNCHANGED Lifecycle!vars
<1>1. /\ node = "terminated" /\ node' = END /\ ~failed /\ ~failed' /\ decision' = "reject"
      /\ UNCHANGED <<ver, latest, pending>>
  BY DEF MarkTerminated, Completes, Edge, store
<1>2. {node, node'} \subseteq Over /\ node' # "approved"
  BY <1>1 DEF Over, END
<1>3. LifeInv'
  BY <1>1, <1>2 DEF LifeInv
<1>4. CurrentStage' = CurrentStage
  BY <1>1, <1>2, StageKept DEF LifeInv
<1>5. CurrentPhase = "rejected" /\ CurrentPhase' = "rejected"
  BY <1>1 DEF CurrentPhase, Gates, END
<1>6. ShownDrafts' = ShownDrafts
  BY <1>1, <1>4, <1>5 DEF ShownDrafts
<1>. QED
  BY <1>3, <1>4, <1>5, <1>6, LifecycleQuiet

\* mark_approved publishes: the copy is one version past the draft approved.
LEMMA ApprovedIsPublish ==
  ASSUME TypeOK, LifeInv, MarkApproved
  PROVE  LifeInv' /\ Lifecycle!Publish
<1>1. /\ node = "approved" /\ node' = END /\ ~failed /\ ~failed' /\ decision' = "approve"
      /\ SaveRows(RowsOf("approved")) /\ ver' = [ver EXCEPT !.rp = latest[RP] + 1]
      /\ pending' = [pending EXCEPT !.version = latest[RP] + 1]
      /\ ver \in [Keys -> Nat] /\ latest \in [ArtefactTypes -> Nat] /\ pending \in Ref
  BY DEF MarkApproved, Completes, Edge, TypeOK
<1>2. {node, node'} \subseteq Over /\ node' # "approved" /\ pending'.type = pending.type
      /\ pending.type = StageType[5] /\ pending.type = RP /\ StageKey[5] = "rp" /\ 5 \in 1 .. 5
  BY <1>1 DEF Over, END, Ref, LifeInv, StageType, StageKey
<1>3. \A i \in 1 .. 5 : ver[StageKey[i]] = latest[StageType[i]]
  BY <1>1 DEF LifeInv
<1>4. \A i \in 1 .. 5 : latest'[StageType[i]] = IF i = 5 THEN latest[RP] + 1 ELSE latest[StageType[i]]
  <2>1. \A i \in 1 .. 5 : StageType[i] = RP <=> i = 5
    <3>1. StageType[5] = RP /\ 5 \in 1 .. 5
      BY <1>2
    <3>2. \A i, j \in 1 .. 5 : StageType[i] = StageType[j] => i = j
      BY StageTables
    <3>. QED
      BY <3>1, <3>2
  <2>2. \A t \in ArtefactTypes : latest'[t] = IF t = RP THEN latest[t] + 1 ELSE latest[t]
    <3>1. TypesOf("approved") = {RP} /\ "approved" \in SavingNodes
      BY DEF TypesOf, SavingNodes
    <3>. QED
      BY <1>1, <3>1, SavedTypes
  <2>. QED
    BY <2>1, <2>2, StageTables
<1>5. \A i \in 1 .. 5 : ver'[StageKey[i]] = IF i = 5 THEN latest[RP] + 1 ELSE ver[StageKey[i]]
  <2>1. \A i \in 1 .. 5 : StageKey[i] = "rp" <=> i = 5
    BY DEF StageKey
  <2>. QED
    BY <1>1, <2>1, StageTables
<1>6. LifeInv'
  BY <1>1, <1>2, <1>3, <1>4, <1>5 DEF LifeInv
<1>7. CurrentStage = 5 /\ CurrentStage' = 5
  <2>1. /\ CurrentStage = StageFor(node, pending.type)
        /\ CurrentStage' = StageFor(node', pending'.type)
    BY DEF CurrentStage, StageFor
  <2>. QED
    BY <1>2, <2>1, StageByType
<1>8. CurrentPhase = "publishing" /\ CurrentPhase' = "approved"
  BY <1>1 DEF CurrentPhase, Gates, END
<1>9. ShownDrafts' = ShownDrafts
  <2>1. ShownDrafts = latest[RP] /\ ShownDrafts' = ver'.rp - 1
    BY <1>2, <1>3, <1>7, <1>8 DEF ShownDrafts
  <2>2. latest[RP] \in Nat /\ ver'.rp = latest[RP] + 1
    BY <1>1 DEF Keys, ArtefactTypes
  <2>. QED
    BY <2>1, <2>2
<1>. QED
  BY <1>6, <1>7, <1>8, <1>9 DEF Lifecycle!Publish, ShownDrafts

\* A node that raises fails the run where it is.
LEMMA RaisesIsFail ==
  ASSUME TypeOK, LifeInv, NodeRaises
  PROVE  LifeInv' /\ Lifecycle!Fail
<1>1. UNCHANGED <<node, ver, pending>> /\ failed' = TRUE /\ ~failed
  BY RaisesTyped
<1>2. node \in SavingNodes \cup {"mapping_discovery"}
  BY DEF NodeRaises, SaveRaises, DiscoveryRefused
<1>3. CurrentStage' = CurrentStage
  BY <1>1, StageKept
<1>4. CurrentPhase \in {"drafting", "publishing"} /\ CurrentPhase' = "failed"
  BY <1>1, <1>2 DEF CurrentPhase, SavingNodes, Gates, END
<1>5. ShownDrafts' = ShownDrafts
  BY <1>1, <1>3, <1>4 DEF ShownDrafts
<1>. QED
  BY <1>1, <1>3, <1>4, <1>5 DEF LifeInv, Lifecycle!Fail, ShownDrafts

\* Where the decisions of a gate lead.
LEMMA GateStage ==
  ASSUME NEW g \in Gates
  PROVE  /\ StageOf(g) \in 1 .. 5
         /\ IF StageOf(g) < 5
            THEN /\ OnApprove[g] \in Nodes \ (Over \cup Gates)
                 /\ StageOf(OnApprove[g]) = StageOf(g) + 1
            ELSE OnApprove[g] = "approved"
         /\ OnRevise[g] \in Nodes \ (Over \cup Gates) /\ StageOf(OnRevise[g]) = StageOf(g)
         /\ Held(KeyOf[g]).type = StageType[StageOf(g)]
         /\ StageOf(g) = 5 => Held(KeyOf[g]).type = RP
<1>. USE DEF Over, Nodes, WorkNodes, Gates, END, OnApprove, OnRevise, StageOf, Held, KeyOf, TypeOf,
         StageType, BR, TR, SM, DM, PIPELINE, METRICS, RP
<1>1. CASE g = "await_tr_review"
  BY <1>1
<1>2. CASE g = "await_mapping_review"
  BY <1>2
<1>3. CASE g = "await_modelling_review"
  BY <1>3
<1>4. CASE g = "await_implementation_review"
  BY <1>4
<1>5. CASE g = "await_rp_review"
  BY <1>5
<1>. QED
  BY <1>1, <1>2, <1>3, <1>4, <1>5

\* A decision approves the stage, rejects the run or sends the stage back.
LEMMA ReviewIsStep ==
  ASSUME TypeOK, ReviewInv, LifeInv, NEW gate \in Gates, NEW d \in Decisions, AwaitReview(gate, d)
  PROVE  LifeInv' /\ Lifecycle!Next
<1>. DEFINE s == StageOf(gate)
<1>1. /\ node = gate /\ node' = AfterReview(gate, d) /\ ~failed /\ ~failed' /\ decision' = d
      /\ UNCHANGED <<ver, latest, pending>> /\ node \notin Over
  BY DEF AwaitReview, store, TypeOK, WorkNodes, Gates, Over, END
<1>2. s \in 1 .. 5 /\ pending.type = StageType[s] /\ (s = 5 => pending.type = RP)
  BY <1>1, GateStage DEF ReviewInv, StateFits
<1>3. /\ \A i \in 1 .. 5 : ver'[StageKey[i]] = latest'[StageType[i]]
      /\ \A i \in 1 .. 5 : i > s => ver'[StageKey[i]] = 0
  BY <1>1 DEF LifeInv
<1>4. CurrentPhase = "in_review" /\ CurrentStage = s /\ ShownDrafts = ver[StageKey[s]]
  BY <1>1, ReviewNow
<1>5. CASE d = "approve" /\ s < 5
  <2>1. node' \in Nodes \ (Over \cup Gates) /\ StageOf(node') = s + 1
    BY <1>1, <1>5, GateStage DEF AfterReview
  <2>2. CurrentPhase' = "drafting" /\ CurrentStage' = s + 1 /\ ShownDrafts' = ver'[StageKey[s + 1]]
    BY <1>1, <2>1, DraftingNext
  <2>3. ver'[StageKey[s + 1]] = 0
    BY <1>2, <1>3, <1>5
  <2>4. LifeInv'
    <3>1. node' \notin Over /\ node' # "approved"
      BY <2>1 DEF Over
    <3>. QED
      BY <1>2, <1>3, <2>1, <3>1 DEF LifeInv
  <2>5. Lifecycle!Approve
    BY <1>4, <1>5, <2>2, <2>3 DEF Lifecycle!Approve, ShownDrafts
  <2>. QED
    BY <2>4, <2>5 DEF Lifecycle!Next
<1>6. CASE d = "request_revisions"
  <2>1. node' \in Nodes \ (Over \cup Gates) /\ StageOf(node') = s
    BY <1>1, <1>6, GateStage DEF AfterReview
  <2>2. CurrentPhase' = "drafting" /\ CurrentStage' = s /\ ShownDrafts' = ver'[StageKey[s]]
    BY <1>1, <2>1, DraftingNext
  <2>3. LifeInv'
    <3>1. node' \notin Over /\ node' # "approved"
      BY <2>1 DEF Over
    <3>. QED
      BY <1>3, <2>1, <3>1 DEF LifeInv
  <2>4. Lifecycle!RequestRevisions
    BY <1>1, <1>4, <2>2 DEF Lifecycle!RequestRevisions, ShownDrafts
  <2>. QED
    BY <2>3, <2>4 DEF Lifecycle!Next
<1>7. CASE d = "reject" \/ (d = "approve" /\ s = 5)
  <2>1. node' = IF d = "reject" THEN "terminated" ELSE "approved"
    BY <1>1, <1>7, GateStage DEF AfterReview
  <2>2. CurrentStage' = s
    <3>1. CurrentStage' = StageFor(node', pending'.type)
      BY DEF CurrentStage, StageFor
    <3>. QED
      BY <1>1, <1>2, <2>1, <3>1, StageByType DEF Over
  <2>3. CurrentPhase' = IF d = "reject" THEN "rejected" ELSE "publishing"
    BY <1>1, <2>1 DEF CurrentPhase, Gates, END
  <2>4. ShownDrafts' = ver[StageKey[s]]
    BY <1>1, <2>2, <2>3 DEF ShownDrafts
  <2>5. LifeInv'
    BY <1>1, <1>2, <1>3, <1>7, <2>1 DEF LifeInv, Over
  <2>6. CASE d = "reject"
    <3>1. Lifecycle!Reject
      BY <1>4, <2>2, <2>3, <2>4, <2>6 DEF Lifecycle!Reject, ShownDrafts
    <3>. QED
      BY <2>5, <3>1 DEF Lifecycle!Next
  <2>7. CASE d = "approve" /\ s = 5
    <3>1. Lifecycle!Approve
      BY <1>4, <2>2, <2>3, <2>4, <2>7 DEF Lifecycle!Approve, ShownDrafts
    <3>. QED
      BY <2>5, <3>1 DEF Lifecycle!Next
  <2>. QED
    BY <1>7, <2>6, <2>7
<1>. QED
  BY <1>2, <1>5, <1>6, <1>7 DEF Decisions

\* Every step of the graph is a step of the lifecycle, or shows nothing of it.
LEMMA NextLife ==
  TypeOK /\ ReviewInv /\ LifeInv /\ [Next]_vars => LifeInv' /\ [Lifecycle!Next]_(Lifecycle!vars)
<1>. SUFFICES ASSUME TypeOK, ReviewInv, LifeInv, [Next]_vars
              PROVE  LifeInv' /\ (Lifecycle!Next \/ UNCHANGED Lifecycle!vars)
  OBVIOUS
<1>1. CASE NodeCompletes
  <2>1. CASE \E n \in SavingNodes \ {"approved"} : Sets(n)
    BY <2>1, SavingIsStep
  <2>2. CASE ResetMappingRetries \/ Discovery \/ DataMapping \/ JudgeMapping \/ ValidatePipeline
    BY <2>2, QuietIsStutter
  <2>3. CASE MarkApproved
    BY <2>3, ApprovedIsPublish DEF Lifecycle!Next
  <2>4. CASE MarkTerminated
    BY <2>4, TerminatedIsStutter
  <2>. QED
    BY <1>1, <2>1, <2>2, <2>3, <2>4, SavingSets DEF NodeCompletes
<1>2. CASE NodeRaises
  BY <1>2, RaisesIsFail DEF Lifecycle!Next
<1>3. CASE Reviewed
  BY <1>3, ReviewIsStep DEF Reviewed
<1>4. CASE UNCHANGED vars
  <2>1. UNCHANGED <<node, failed, ver, pending, decision, latest>>
    BY <1>4 DEF vars, control, store
  <2>2. LifeInv'
    BY <2>1 DEF LifeInv
  <2>3. CurrentPhase' = CurrentPhase /\ CurrentStage' = CurrentStage
    BY <2>1 DEF CurrentPhase, CurrentStage
  <2>4. ShownDrafts' = ShownDrafts
    BY <2>1, <2>3 DEF ShownDrafts
  <2>. QED
    BY <2>2, <2>3, <2>4, LifecycleQuiet
<1>. QED
  BY <1>1, <1>2, <1>3, <1>4 DEF Next

\* Reviewers see the five stages in order, one fresh draft at a time, and only
\* the last approval publishes: the graph implements the safety part of the
\* review lifecycle.
THEOREM GraphRefinesLifecycle == Spec => Lifecycle!Safety
<1>1. Init => LifeInv /\ Lifecycle!Init
  <2>. SUFFICES ASSUME Init PROVE LifeInv /\ Lifecycle!Init
    OBVIOUS
  <2>1. /\ node = "ensure_br" /\ ~failed /\ ver = [k \in Keys |-> 0]
        /\ latest = [t \in ArtefactTypes |-> 0]
    BY DEF Init
  <2>2. node \in Nodes \ (Over \cup Gates) /\ node # "approved" /\ StageOf(node) = 1
    BY <2>1 DEF Nodes, WorkNodes, Over, Gates, END, StageOf
  <2>3. \A i \in 1 .. 5 : ver[StageKey[i]] = 0 /\ latest[StageType[i]] = 0
    BY <2>1, StageTables
  <2>4. LifeInv
    BY <2>2, <2>3 DEF LifeInv
  <2>5. CurrentPhase = "drafting" /\ CurrentStage = 1 /\ ShownDrafts = 0
    BY <2>1, <2>2, <2>3, DraftingNow
  <2>. QED
    BY <2>4, <2>5 DEF Lifecycle!Init, ShownDrafts
<1>2. TypeOK /\ ReviewInv /\ LifeInv /\ [Next]_vars => LifeInv' /\ [Lifecycle!Next]_(Lifecycle!vars)
  BY NextLife
<1>. QED
  BY <1>1, <1>2, ReviewInvariance, PTL DEF Spec, Lifecycle!Safety

=============================================================================
