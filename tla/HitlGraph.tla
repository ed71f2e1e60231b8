------------------------------ MODULE HitlGraph ------------------------------
(***************************************************************************)
(* One run of the HITL workflow graph: its checkpointed state              *)
(* (HitlGraphState), the nodes that read and update it, and the rows they  *)
(* leave in the artefact store.  One invocation of the graph is under way  *)
(* at a time, which is what the runner's status check is for; HitlService  *)
(* drops that assumption.                                                  *)
(*                                                                         *)
(* A node is one action: it reads the state, saves its artefacts with      *)
(* their lineage, and returns its updates, which the checkpointer commits  *)
(* together with the next node.  A node that raises may have saved some of *)
(* its rows; its updates are lost and the run stays at that node.          *)
(*                                                                         *)
(* An artefact is a reference [type, version]: the store gives each type   *)
(* of a run a single artefact id (ArtefactStore, OneIdPerType).  Payloads  *)
(* and the agents that write them are abstracted away.                     *)
(***************************************************************************)
EXTENDS Naturals, HitlTopology, MappingJudge

CONSTANTS
  Hooks,       \* values of the test hook force_judge_outcome, None among them
  MaxVersion   \* bound: no revisions are requested past this version

ASSUME HooksAssumption == None \in Hooks /\ Hooks \subseteq JudgeOutcomes \cup {None}
ASSUME BoundAssumption == MaxVersion \in Nat

VARIABLES
  node,        \* the node in `next` of the latest checkpoint
  failed,      \* the invocation at that node raised
  user,        \* user context of the run: identity present, objects visible
  ver,         \* <x>_artefact_version of the graph state; 0 is None
  pending,     \* artefact_type and artefact_version: what a gate presents
  decision,    \* decision of the graph state
  feedback,    \* gate at which the feedback was written, or None
  mapping,     \* the mapping subgraph's part of the graph state
  latest,      \* store: highest version of each type
  parents,     \* store: parent_versions column, as <<child, parent>> pairs
  edges,       \* store: lineage_edges table, as <<child, parent>> pairs
  published,   \* store: RP versions whose decision_state is "approved"
  reviews,     \* audit trail: the review decisions taken
  attempts     \* history: discovery and mapping runs since the subgraph was entered,
               \* counted up to one more than the judge can ask for

control == <<node, failed, user, decision, feedback>>
store == <<latest, parents, edges, published>>
vars == <<control, ver, pending, mapping, store, reviews, attempts>>

Ref == [type : ArtefactTypes, version : Nat]

ASSUME NoneAssumption ==
  /\ None \notin JudgeOutcomes \cup Decisions \cup Gates
  /\ None \notin Ref
  /\ None \notin Proposals

Keys == {"br", "tr", "mapping", "sm", "dm", "pipeline", "metrics", "rp"}

Review == [gate : Gates, artefact : Ref, decision : Decisions]

-----------------------------------------------------------------------------
\* Saving artefacts

\* The row save_artefact will insert for type t.
NewRef(t) == [type |-> t, version |-> latest[t] + 1]

NewRow(t, refs) == [ref |-> NewRef(t), parents |-> refs]

\* The reference a node builds from the graph state, when the version is set.
StateRef(t, key) ==
  IF ver[key] = 0 THEN {} ELSE {[type |-> t, version |-> ver[key]]}

Links(rows) == UNION {{<<r.ref, p>> : p \in r.parents} : r \in rows}

ParentsOf(ref) == {a[2] : a \in {x \in parents : x[1] = ref}}

\* The artefacts each node saves, with their parent_versions.
TrRows == {NewRow(TR, StateRef(BR, "br"))}

MappingRows == {NewRow(DM, StateRef(TR, "tr"))}

ModellingParents == StateRef(TR, "tr") \cup StateRef(DM, "mapping")

ModellingRows ==
  {NewRow(DM, ModellingParents),
   NewRow(SM, ModellingParents \cup {NewRef(DM)})}

PipelineRows ==
  {NewRow(PIPELINE, StateRef(SM, "sm") \cup StateRef(DM, "dm"))}

\* Mutant: the pipeline is not among the parents of the metrics.
MetricsRowsWithoutPipeline == {NewRow(METRICS, StateRef(SM, "sm"))}

MetricsRows ==
  {NewRow(METRICS, StateRef(SM, "sm") \cup StateRef(PIPELINE, "pipeline"))}

PackagePins ==
  StateRef(BR, "br") \cup StateRef(TR, "tr") \cup StateRef(SM, "sm")
    \cup StateRef(DM, "dm") \cup StateRef(PIPELINE, "pipeline")
    \cup StateRef(METRICS, "metrics")

PackageRows == {NewRow(RP, PackagePins)}

\* Mutant: mark_approved saves the package without parent_versions.
ApprovedRowsWithoutPins == {NewRow(RP, {})}

\* mark_approved copies the pins of the latest stored package.
ApprovedRows == {NewRow(RP, ParentsOf([type |-> RP, version |-> latest[RP]]))}

RowsOf(n) ==
  CASE n = "ensure_br" -> {NewRow(BR, {})}
    [] n = "generate_tr" -> TrRows
    [] n = "persist_mapping" -> MappingRows
    [] n = "modelling" -> ModellingRows
    [] n = "generate_pipeline" -> PipelineRows
    [] n = "generate_metrics" -> MetricsRows
    [] n = "assemble_rp" -> PackageRows
    [] n = "approved" -> ApprovedRows
    [] OTHER -> {}

SaveRows(rows) ==
  /\ latest' = [t \in ArtefactTypes |->
                  IF \E r \in rows : r.ref.type = t THEN latest[t] + 1 ELSE latest[t]]
  /\ parents' = parents \cup Links(rows)

-----------------------------------------------------------------------------
Init ==
  /\ node = "ensure_br"
  /\ failed = FALSE
  /\ user \in [known : BOOLEAN, sees : BOOLEAN]
  /\ ver = [k \in Keys |-> 0]
  /\ pending = None
  /\ decision = None
  /\ feedback = None
  /\ \E hook \in Hooks, empty \in BOOLEAN :
       mapping = [stage |-> None, retries |-> [schema |-> 0, logic |-> 0],
                  escalated |-> FALSE, discovered |-> FALSE,
                  proposal |-> None, hook |-> hook,
                  emptyHook |-> empty /\ Hooks # {None}]
  /\ latest = [t \in ArtefactTypes |-> 0]
  /\ parents = {} /\ edges = {} /\ published = {}
  /\ reviews = {}
  /\ attempts = [discovery |-> 0, mapping |-> 0]

\* The node `n` runs to its end and the graph moves on along its edge.
Completes(n) ==
  /\ node = n /\ ~failed
  /\ node' = Edge[n]
  /\ UNCHANGED <<failed, user, reviews>>

\* Mutant: one parent is linked per row, as generate_tr and persist_mapping do.
SavesFirstLinked(n) ==
  /\ SaveRows(RowsOf(n))
  /\ edges' = edges \cup {<<r.ref, CHOOSE p \in r.parents : TRUE>> :
                            r \in {x \in RowsOf(n) : x.parents # {}}}
  /\ UNCHANGED published

\* Saves of node n, every one followed by its lineage edges.
SavesLinked(n) ==
  /\ SaveRows(RowsOf(n))
  /\ edges' = edges \cup Links(RowsOf(n))
  /\ UNCHANGED published

\* The saved artefact becomes the one the next gate presents.
Presents(t) == pending' = NewRef(t) /\ decision' = None

NoRetries == [schema |-> 0, logic |-> 0]

AttemptsShown == SchemaCap + LogicCap + 2

OneMore(n) == IF n < AttemptsShown THEN n + 1 ELSE n

EnsureBusinessRequirement ==
  /\ Completes("ensure_br")
  /\ SavesLinked("ensure_br")
  /\ ver' = [ver EXCEPT !.br = latest[BR] + 1]
  /\ decision' = None /\ feedback' = None
  /\ mapping' = [mapping EXCEPT !.retries = NoRetries, !.escalated = FALSE]
  /\ UNCHANGED <<pending, attempts>>

GenerateTechnicalRequirement ==
  /\ Completes("generate_tr")
  /\ SavesLinked("generate_tr")
  /\ ver' = [ver EXCEPT !.tr = latest[TR] + 1]
  /\ Presents(TR)
  /\ UNCHANGED <<feedback, mapping, attempts>>

-----------------------------------------------------------------------------
\* The mapping subgraph

ResetMappingRetries ==
  /\ Completes("reset_mapping_retries")
  /\ mapping' = [mapping EXCEPT !.retries = NoRetries, !.escalated = FALSE]
  /\ decision' = None
  /\ UNCHANGED <<feedback, ver, pending, store, attempts>>

\* discovery_node: fails closed without a user identity (see DiscoveryRefused).
Discovery ==
  /\ user.known
  /\ Completes("mapping_discovery")
  /\ mapping' = [mapping EXCEPT !.discovered = user.sees, !.stage = "data_mapping"]
  /\ attempts' = [attempts EXCEPT !.discovery = OneMore(@)]
  /\ UNCHANGED <<decision, feedback, ver, pending, store>>

\* data_mapping_node: sources and entities come one per discovered object.
DataMapping ==
  /\ Completes("mapping_data_mapping")
  /\ mapping' = [mapping EXCEPT
       !.proposal = [hasSources |-> mapping.discovered /\ ~mapping.emptyHook,
                     sourcesKnown |-> TRUE,
                     hasEntities |-> mapping.discovered],
       !.stage = "judge"]
  /\ attempts' = [attempts EXCEPT !.mapping = OneMore(@)]
  /\ UNCHANGED <<decision, feedback, ver, pending, store>>

\* mapping_judge_node and route_after_judge.
JudgeMapping ==
  /\ node = "mapping_judge" /\ ~failed
  /\ LET result == Evaluate(mapping.proposal, mapping.retries, mapping.hook) IN
       /\ mapping' = [mapping EXCEPT
            !.retries = result.retries,
            !.escalated = result.outcome = "escalate",
            !.stage = StageAfter(result.outcome)]
       /\ node' = AfterJudge(StageAfter(result.outcome))
  /\ UNCHANGED <<failed, user, decision, feedback, ver, pending, store, reviews, attempts>>

PersistMapping ==
  /\ Completes("persist_mapping")
  /\ SavesLinked("persist_mapping")
  /\ ver' = [ver EXCEPT !.mapping = latest[DM] + 1]
  /\ Presents(DM)
  /\ mapping' = [mapping EXCEPT !.stage = "done", !.hook = None, !.emptyHook = FALSE]
  /\ UNCHANGED <<feedback, attempts>>

-----------------------------------------------------------------------------
\* Modelling, implementation and the review package

\* Mutant: the state keeps the first data model version it was given.
GenerateModellingKeepingDm ==
  /\ Completes("modelling")
  /\ SavesLinked("modelling")
  /\ ver' = [ver EXCEPT !.sm = latest[SM] + 1, !.mapping = latest[DM] + 1,
                        !.dm = IF ver.dm = 0 THEN latest[DM] + 1 ELSE ver.dm]
  /\ Presents(SM)
  /\ UNCHANGED <<feedback, mapping, attempts>>

\* The enriched data model continues the mapping's artefact, and takes over
\* both the mapping and the data model version of the state.
GenerateModelling ==
  /\ Completes("modelling")
  /\ SavesLinked("modelling")
  /\ ver' = [ver EXCEPT !.sm = latest[SM] + 1, !.dm = latest[DM] + 1,
                        !.mapping = latest[DM] + 1]
  /\ Presents(SM)
  /\ UNCHANGED <<feedback, mapping, attempts>>

GeneratePipeline ==
  /\ Completes("generate_pipeline")
  /\ SavesLinked("generate_pipeline")
  /\ ver' = [ver EXCEPT !.pipeline = latest[PIPELINE] + 1]
  /\ decision' = None
  /\ UNCHANGED <<feedback, pending, mapping, attempts>>

ValidatePipeline ==
  /\ Completes("validate_pipeline")
  /\ UNCHANGED <<decision, feedback, ver, pending, mapping, store, attempts>>

\* Mutant: the saved metrics do not become the artefact under review.
GenerateMetricsUnpresented ==
  /\ Completes("generate_metrics")
  /\ SavesLinked("generate_metrics")
  /\ ver' = [ver EXCEPT !.metrics = latest[METRICS] + 1]
  /\ decision' = None
  /\ UNCHANGED <<pending, feedback, mapping, attempts>>

GenerateMetrics ==
  /\ Completes("generate_metrics")
  /\ SavesLinked("generate_metrics")
  /\ ver' = [ver EXCEPT !.metrics = latest[METRICS] + 1]
  /\ Presents(METRICS)
  /\ UNCHANGED <<feedback, mapping, attempts>>

AssembleReviewPackage ==
  /\ Completes("assemble_rp")
  /\ SavesLinked("assemble_rp")
  /\ ver' = [ver EXCEPT !.rp = latest[RP] + 1]
  /\ Presents(RP)
  /\ UNCHANGED <<feedback, mapping, attempts>>

\* mark_approved saves an approved copy of the package, without lineage.
MarkApproved ==
  /\ Completes("approved")
  /\ SaveRows(RowsOf("approved"))
  /\ published' = published \cup {latest[RP] + 1}
  /\ UNCHANGED edges
  /\ ver' = [ver EXCEPT !.rp = latest[RP] + 1]
  /\ pending' = [pending EXCEPT !.version = latest[RP] + 1]
  /\ decision' = "approve"
  /\ UNCHANGED <<feedback, mapping, attempts>>

MarkTerminated ==
  /\ Completes("terminated")
  /\ decision' = "reject"
  /\ UNCHANGED <<feedback, ver, pending, mapping, store, attempts>>

-----------------------------------------------------------------------------
\* Reviewers

\* Mutant: an approval leaves earlier feedback in the state.
AwaitReviewKeepingFeedback(gate, d) ==
  /\ node = gate
  /\ d = "request_revisions" => pending.version < MaxVersion
  /\ decision' = d
  /\ feedback' = IF d = "request_revisions" THEN gate ELSE feedback
  /\ node' = AfterReview(gate, d)
  /\ reviews' = reviews \cup {[gate |-> gate, artefact |-> pending, decision |-> d]}
  /\ attempts' = [discovery |-> 0, mapping |-> 0]
  /\ UNCHANGED <<failed, user, ver, pending, mapping, store>>

\* The gate's interrupt returns the reviewer's decision and the conditional
\* edge routes on it; comments become feedback only when revisions are asked.
\* The history of attempts starts over where the mapping subgraph is entered.
AwaitReview(gate, d) ==
  /\ node = gate
  /\ d = "request_revisions" => pending.version < MaxVersion
  /\ decision' = d
  /\ feedback' = IF d = "request_revisions" THEN gate ELSE None
  /\ node' = AfterReview(gate, d)
  /\ reviews' = reviews \cup {[gate |-> gate, artefact |-> pending, decision |-> d]}
  /\ attempts' = [discovery |-> 0, mapping |-> 0]
  /\ UNCHANGED <<failed, user, ver, pending, mapping, store>>

-----------------------------------------------------------------------------
\* Failures

Raises == failed' = TRUE /\ UNCHANGED <<node, user, decision, feedback, ver, pending,
                                        mapping, reviews, attempts>>

\* DiscoveryPermissionError: no authenticated user in the graph state.
DiscoveryRefused ==
  /\ node = "mapping_discovery" /\ ~failed /\ ~user.known
  /\ Raises
  /\ UNCHANGED store

(***************************************************************************)
(* A node that saves raises: the model client cannot be built, or the      *)
(* database is gone.  Each save and each edge is a commit of its own, so a *)
(* prefix of them is there: some rows, a later one only after those it     *)
(* derives from, and some of their edges.                                  *)
(***************************************************************************)
SaveRaises(n) ==
  /\ node = n /\ ~failed
  /\ \E saved \in SUBSET RowsOf(n) :
       /\ \A r \in saved : \A q \in RowsOf(n) : q.ref \in r.parents => q \in saved
       /\ SaveRows(saved)
       /\ published' = IF n = "approved" /\ saved # {}
                       THEN published \cup {latest[RP] + 1}
                       ELSE published
       /\ \E linked \in SUBSET (IF n = "approved" THEN {} ELSE Links(saved)) :
            /\ edges' = edges \cup linked
            /\ \A r \in saved : \A q \in saved :
                 q.ref \in r.parents => Links({q}) \subseteq linked
  /\ Raises

SavingNodes == {"ensure_br", "generate_tr", "persist_mapping", "modelling",
                "generate_pipeline", "generate_metrics", "assemble_rp", "approved"}

-----------------------------------------------------------------------------
NodeCompletes ==
  \/ EnsureBusinessRequirement
  \/ GenerateTechnicalRequirement
  \/ ResetMappingRetries
  \/ Discovery
  \/ DataMapping
  \/ JudgeMapping
  \/ PersistMapping
  \/ GenerateModelling
  \/ GeneratePipeline
  \/ ValidatePipeline
  \/ GenerateMetrics
  \/ AssembleReviewPackage
  \/ MarkApproved
  \/ MarkTerminated

NodeRaises == DiscoveryRefused \/ \E n \in SavingNodes : SaveRaises(n)

Reviewed == \E gate \in Gates, d \in Decisions : AwaitReview(gate, d)

Next == NodeCompletes \/ NodeRaises \/ Reviewed

\* The event loop keeps running an invocation that has been started; nobody
\* forces a reviewer to decide.
Fairness == WF_vars(NodeCompletes \/ NodeRaises)

Spec == Init /\ [][Next]_vars /\ Fairness

-----------------------------------------------------------------------------
\* Properties

\* Every variable has its type, with what the nodes and the gates rely on: a
\* gate never fails, and an artefact is there for it to present and for
\* mark_approved to replace.
TypeOK ==
  /\ node \in Nodes
  /\ failed \in BOOLEAN /\ (failed => node \in WorkNodes)
  /\ user \in [known : BOOLEAN, sees : BOOLEAN]
  /\ ver \in [Keys -> Nat]
  /\ pending \in Ref \cup {None}
  /\ decision \in Decisions \cup {None}
  /\ feedback \in Gates \cup {None}
  /\ mapping \in [stage : {None, "data_mapping", "judge", "discovery", "persist_mapping", "done"},
                  retries : Retries, escalated : BOOLEAN, discovered : BOOLEAN,
                  proposal : Proposals \cup {None}, hook : Hooks, emptyHook : BOOLEAN]
  /\ latest \in [ArtefactTypes -> Nat]
  /\ parents \subseteq Ref \X Ref
  /\ edges \subseteq Ref \X Ref
  /\ published \subseteq Nat
  /\ reviews \subseteq Review
  /\ attempts \in [discovery : Nat, mapping : Nat]
  /\ node \in Gates \cup {"approved"} => pending # None
  /\ node = "mapping_judge" => mapping.proposal # None

\* A reviewer approved exactly this version.
ApprovedAt(gate, ref) == [gate |-> gate, artefact |-> ref, decision |-> "approve"] \in reviews

Latest(t) == [type |-> t, version |-> latest[t]]

Package(v) == ParentsOf([type |-> RP, version |-> v])

DataModel(v) == [type |-> DM, version |-> v]

\* What is published was reviewed: an approved package is a copy of one a
\* reviewer approved, and each gated artefact it pins is the very version
\* approved at its gate (mark_approved copies whatever package is latest).
PublishedWasReviewed ==
  \A v \in published :
    /\ ApprovedAt("await_rp_review", [type |-> RP, version |-> v - 1])
    /\ Package(v) = Package(v - 1)
    /\ \A gate \in Gates, pin \in Package(v) :
         pin.type = ReviewedType[gate] /\ pin.type # DM => ApprovedAt(gate, pin)

\* The artefacts no gate presents are published only under one that does: the
\* reviewed semantic model derives from the pinned data model, the reviewed
\* metrics from the pinned pipeline, and the data model, enrichment by
\* enrichment, from the mapping a reviewer approved.
UngatedPinsAreCovered ==
  \A v \in published : \A pin \in Package(v) :
    /\ pin.type = DM =>
         /\ \E sm \in Package(v) : sm.type = SM /\ pin \in ParentsOf(sm)
         /\ \E r \in reviews :
              /\ r.gate = "await_mapping_review" /\ r.decision = "approve"
              /\ \A k \in r.artefact.version + 1 .. pin.version :
                   DataModel(k - 1) \in ParentsOf(DataModel(k))
    /\ pin.type = PIPELINE =>
         \E m \in Package(v) : m.type = METRICS /\ pin \in ParentsOf(m)

\* A package is complete and coherent: it pins one version of each of the six
\* types, and a pin that derives from another type derives from the pinned
\* version of it, however many revisions each stage went through.
PackagesCoherent ==
  \A rp \in {a[1] : a \in {x \in parents : x[1].type = RP}} :
    /\ {p.type : p \in ParentsOf(rp)} = ArtefactTypes \ {RP}
    /\ \A p, q \in ParentsOf(rp) : p.type = q.type => p = q
    /\ \A p, q \in ParentsOf(rp) :
         p.type # q.type /\ (\E a \in ParentsOf(p) : a.type = q.type) => q \in ParentsOf(p)

\* export_run exports the latest version of every type: on an approved run
\* these are the pins of the approved package.
ExportIsThePackage ==
  latest[RP] \in published =>
    Package(latest[RP]) = {Latest(t) : t \in ArtefactTypes \ {RP}}

\* A gate presents the newest version of the type it reviews, one no reviewer
\* has decided on: nobody is asked twice about the same version.
GatePresentsFreshDraft ==
  node \in Gates =>
    /\ pending = Latest(ReviewedType[node])
    /\ \A r \in reviews : r.artefact # pending

\* Feedback reaches the generators of the stage it was written for, never
\* those of a later one.
FeedbackStaysInStage ==
  feedback # None => \E nodes \in StageNodes : feedback \in nodes /\ node \in nodes \cup {"terminated", END}

\* The judge's retry loop is bounded, over both kinds of retry together.
RetriesBounded ==
  /\ attempts.discovery <= 1 + SchemaCap
  /\ attempts.mapping <= attempts.discovery + LogicCap

\* A mapping goes to review unflagged only if this round's proposal passed,
\* and flagged only if a cap was used up or the escalation was forced: the
\* flag and the counters of an earlier round do not leak into this one.
VerdictIsEarned ==
  node = "persist_mapping" =>
    IF mapping.escalated
    THEN \/ mapping.hook = "escalate"
         \/ attempts.discovery = 1 + SchemaCap
         \/ attempts.mapping = attempts.discovery + LogicCap
    ELSE Complaint(mapping.proposal, mapping.hook) = "pass"

\* The lineage table and the parent_versions of the rows agree, but for what
\* an interrupted save left behind and the approved copy of the package.
LineageMirrorsParents ==
  /\ edges \subseteq parents
  /\ ~failed => \A a \in parents \ edges : a[1].type = RP /\ a[1].version \in published

\* Every version of an artefact is linked in the lineage table when its node
\* has finished.
EveryVersionLinked == ~failed => parents \subseteq edges

\* Rejecting is final: no artefact is saved after it.
NothingSavedAfterReject ==
  [][(\E r \in reviews : r.decision = "reject") => UNCHANGED <<latest, edges, published>>]_vars

\* An invocation always comes to rest: at a gate, at the end, or by raising.
ComesToRest == node \in WorkNodes ~> (node \in Gates \cup {END} \/ failed)

-----------------------------------------------------------------------------
(***************************************************************************)
(* The graph implements the review lifecycle.  The stage is that of the    *)
(* node, or after the gates that of the artefact last presented; the       *)
(* drafts of a stage are the versions of the artefact it presents.         *)
(***************************************************************************)
Gate == <<"await_tr_review", "await_mapping_review", "await_modelling_review",
          "await_implementation_review", "await_rp_review">>

StageKey == <<"tr", "mapping", "sm", "metrics", "rp">>

CurrentStage ==
  CHOOSE i \in 1 .. 5 :
    \/ \E nodes \in StageNodes : {node, Gate[i]} \subseteq nodes
    \/ node \in {"approved", "terminated", END} /\ pending.type = ReviewedType[Gate[i]]

CurrentPhase ==
  IF failed THEN "failed" ELSE
    CASE node \in Gates -> "in_review"
      [] node = "approved" -> "publishing"
      [] node = END /\ decision = "approve" -> "approved"
      [] node = END /\ decision # "approve" -> "rejected"
      [] node = "terminated" -> "rejected"
      [] OTHER -> "drafting"

Lifecycle == INSTANCE ReviewLifecycle WITH
  Stages <- 5,
  phase <- CurrentPhase,
  stage <- CurrentStage,
  drafts <- IF CurrentPhase = "approved" THEN ver.rp - 1 ELSE ver[StageKey[CurrentStage]]

\* Whatever the agents, the judge and the store do, reviewers see the five
\* stages in order, one fresh draft at a time.
ImplementsLifecycle == Lifecycle!Spec

=============================================================================
