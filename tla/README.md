# Formal models of the Agentic Data Product accelerator

TLA+ modules, TLC configurations and TLAPS proofs about the accelerator: the
human-in-the-loop (HITL) core (artefact store, LangGraph workflow, the runner
that connects both to the API), the reviewer's page in front of it, and what
runs below it (connection pools, migrations, start and stop of processes).
Paths below are relative to `src/src/agentic_data_product/`.

Running a check and a proof:

    tlc -workers 2 -config StoreRace.cfg MCRunExport
    tlapm ArtefactStoreProofs.tla

## 1. The system

| Component | State | Operations | Hard about it |
| --- | --- | --- | --- |
| Artefact store (`persistence/store.py`, `models.py`) | tables `workflow_runs`, `artefacts`, `lineage_edges`, `audit_events` | `create_run`, `update_run_status`, `record_review`, `save_artefact`, `create_lineage_edge`, queries | `save_artefact` reads the next version, reads the artefact id and inserts in three statements at READ COMMITTED; only the version is protected by a unique constraint |
| HITL graph (`orchestration/graph.py`, `state.py`) | `HitlGraphState`, checkpointed after every node | 19 nodes, five of them gates that `interrupt()`; routing after each gate | revisions at every gate; versions carried in the state; each save and each lineage edge is a commit of its own; a node may raise half-way |
| Mapping subgraph, judge (`orchestration/mapping/`) | retry counters, stage, escalation flag | discovery, data mapping, judge, persist | a loop with two retry counters and two targets |
| Implementation path (`orchestration/implementation/`) | pipeline and metrics versions | generate, validate, generate metrics | revisions regenerate the metrics only |
| Runner and API (`orchestration/runner.py`, `app/routes/runs.py`) | the run's status row | `start_run`, `apply_review`, `_sync_and_detail`, `export_run` | a request is a coroutine with many awaits between the check of the status and its effects; crash in between |
| Checkpointer (`orchestration/checkpointer.py`, LangGraph) | latest checkpoint of each thread | load, write | last writer wins |
| Lifespan, health (`app/main.py`, `app/routes/health.py`) | engine, pool and runner of the process | start, stop | a start in several steps each of which may raise; several processes; a start without a database |
| Database and pools (`persistence/db.py`, `orchestration/checkpointer.py`) | two pools of connections | draw, give back | a request holds a connection of one while it waits for one of the other |
| Migrations (`persistence/migrate.py`) | `schema_migrations` | `apply_migrations` | read once, applied later; two runners; a kill between two files |
| Web UI (`ui/static/app.js`) | `state.detail`, the disabled buttons | start, refresh, decide | what is shown against what is decided on |
| Adapter and export (`adapters/`) | none | `to_platform` | exports only an approved package; reads many rows in many transactions |
| Pipeline validation (`agents/pipeline_validation.py`) | `visiting`, `visited` | structure checks, cycle search | duplicate names; one pair of sets for all starting points |
| Agents, LLM clients (`agents/`, `integrations/llm/`) | none | write payloads | may raise |
| Discovery (`integrations/discovery/`) | fixture catalogue | filter by user | fails closed |
| Developer API (`app/routes/dev.py`) | the store | save with explicit version and id | bypasses the numbering |
| Domain models, configuration, logging | none | | see section 8 |

They interact as follows. `POST /runs` and `POST /runs/{id}/reviews` enter the
runner. The runner writes the run row and the audit trail through the store,
invokes the graph on the run's thread, and afterwards copies what the latest
checkpoint stands for into the run row. Graph nodes open store sessions of
their own. The graph's state is visible to others only through checkpoints, the
checkpoint and the tables are never written in one transaction, and no lock is
held across them: the check of `status == waiting_for_review` at the start of
`apply_review` is the only thing that keeps two invocations of one run apart.

Around them: pages in browsers are the clients of the API and hold the last
answer they were given; every handler draws sessions from one pool and the
checkpointer connections from another; migration runners and other API
processes share nothing with a process but the database.

What makes each of them correct:

* store: versions of a type are 1..n, one artefact id per type, a lookup by id
  and version is unambiguous, and a save is an atomic append;
* graph: what is published is what reviewers approved, coherent across rounds
  of revisions; nobody is asked twice about a version; rejecting is final;
* judge: the retry loop ends, and its verdict belongs to its round;
* runner: status row, audit trail and checkpoint agree; a decision acts on the
  artefact it was recorded for; a final status was earned and stays; a run does
  not stay RUNNING;
* export: what leaves is the store at one moment, under an approved package;
* page: a decision is taken on the artefact that was shown;
* pools: no circle of waits, every request is answered;
* migrations and lifespan: the schema is what its record says; a runner that is
  reachable has what it needs, and a process that starts comes to serve;
* pipeline validation: a pipeline fails exactly when it cannot be run.

## 2. Modules

| Module | Models | State in the code |
| --- | --- | --- |
| `VersionLog` | abstract: one append-only log per artefact type | – |
| `ArtefactStore` | `save_artefact` by concurrent sessions, one action per statement | `rows` = table `artefacts` of one run; `save[s]` = the locals `kind_str`, `version`, `resolved_artefact_id` |
| `ArtefactStoreProofs` | TLAPS theorems about `ArtefactStore` and `RunExport` | |
| `ReviewLifecycle` | abstract: stages in order, drafts reviewed one at a time, publish at the end | – |
| `HitlTopology` | nodes, edges, gates, routes (no state) | `build_hitl_graph`, `route_after_*` |
| `MappingJudge` | `evaluate_mapping_proposal` (no state) | |
| `HitlGraph` | every node of one run, one action each; reviewers; nodes that raise | `node` = `next` of the checkpoint; `ver`, `pending`, `decision`, `feedback`, `mapping` = `HitlGraphState`; `latest`, `parents`, `edges`, `published` = the tables |
| `HitlGraphProofs` | TLAPS theorems about `HitlGraph` and its use of `MappingJudge`, and that it implements the safety part of `ReviewLifecycle` | |
| `HitlService` | concurrent requests, one action per await point; crash and restart | `status` = the run row; `recorded` = `review_submitted` events; `checkpoint` = latest checkpoint; `local[r]` = variables of a request |
| `HitlServiceProofs` | TLAPS theorems about `HitlService` with racing requests | |
| `HitlSerialProofs` | TLAPS theorems about clients that wait for each response, and that `HitlService` then implements `ReviewLifecycle` | |
| `RunExport` | `export_run` and `to_platform` beside the saves; extends `ArtefactStore` | `listed`, `fetched` = the locals of the export; what it returns or refuses |
| `ReviewPage` | pages as the clients of `HitlService`: clicks, the request behind each, answers that are late or lost | `state.detail`, the disabled buttons and the awaited answers of each page |
| `ReviewPageProofs` | TLAPS theorems about one patient page, on top of those of `HitlSerialProofs` | |
| `ConnectionPools` | every handler as the sequence of connections it holds and waits for | the two pools; the place of each request in its handler |
| `ConnectionPoolsProofs` | TLAPS theorems about `ConnectionPools` | |
| `Deployment` | migration runners, API processes, outages, kills | `schema_migrations`, the locals of `apply_migrations`; `app.state` of each process |
| `DeploymentProofs` | TLAPS theorems about `Deployment` | |
| `PipelineValidation` | the structural checks and the depth-first search, one action per call and return | `visiting`, `visited`; the call stack of `_dfs` |
| `PipelineValidationProofs` | TLAPS theorems about `PipelineValidation` | |
| `MC*` | constants and symmetry for TLC | |

`ReviewPage` composes with `HitlService`, `RunExport` with `ArtefactStore`: the
composed module extends the component, keeps its actions as they are and adds
its own variables to them. The modules also form two refinement pairs
(`ArtefactStore` implements `VersionLog`; `HitlGraph` and `HitlService`
implement `ReviewLifecycle`) and one assumption chain: `HitlGraph` names an
artefact by type and version, which is sound because `OneIdPerType` and
`GapFree` hold in `ArtefactStore`; `HitlService` abstracts the graph to its
stages, which is what `HitlGraph!ImplementsLifecycle` shows of it; and
`HitlGraph` has one invocation at a time, which `HitlService` does not take for
granted.

Choices a reader of the code should know of:

* A payload that does not validate never reaches the store, and payloads are
  not modelled: an artefact is its type, version and `parent_versions`.
* INSERT, audit event and COMMIT of `save_artefact` are one transaction and one
  action. The SELECTs before it are separate actions, since READ COMMITTED gives
  each its own snapshot.
* `uuid4` returns an id that no row and no save in progress carries.
* In `update_run_status`, SQLAlchemy reads the row again (the identity map is
  weak and `get_run` has dropped its row), and its UPDATE omits the `status`
  column when the value equals the one read: a concurrent change survives. Both
  are in `ReadStatus` and `WriteStatus`.
* LangGraph is external. An invocation runs on the checkpoint it loaded, writes
  one after every node, and the last one written is the latest; a resume that
  finds the graph at no gate runs the next node again, and at the end does nothing.
* A node that raises leaves a prefix of its saves and edges (`SaveRaises`); the
  run stays at the node, and no request can get it to run again
  (`apply_review` refuses a run that is RUNNING).
* A gate can only return a decision of the enumeration: FastAPI refuses others.
  The gates' `TypeError` and the routes' `ValueError` are therefore unreachable.
* `ensure_br` passes no artefact id and every other node the id of its last
  save, which `ArtefactStore!Begin` allows for both.
* A request of `ConnectionPools` chooses the path it takes through its handler
  (export or refusal, number of nodes run) before it waits for anything. Were
  the choice left open, a request that waits in vain for one connection could
  be saved by a path that needs none, and a deadlock would go unseen.
* Both pools give up a wait after 30 seconds. Those timeouts are left out: the
  question is whether the requests need them.
* `app.js` disables the decision buttons while it posts a decision, and nothing
  else: Refresh can be clicked at any time. In `ReviewPage` a patient user
  (`Patient`) waits for whatever the page awaits; an impatient one, a second
  page and a second slot are there to see what depends on it (section 5).
* Export: sensitivity labels, classifications and access notes are merged in
  the same way and stand as one set of labels.

## 3. Runs

| Run | Instance | Shows |
| --- | --- | --- |
| `StoreRace` | 2 sessions, 2 types, 3 ids, versions up to 2, one export | the store is a log (`ImplementsLog`), the invariants behind it, and that an export is the store at one moment |
| `GraphReviews` | all forced outcomes of the judge, caps 2 and 1, up to two rounds of revisions per artefact, nodes that raise | publication, coherence, export, freshness, feedback, lineage, retries, finality of a rejection, `ImplementsLifecycle` with liveness |
| `ServiceSerial` | 3 stages, 4 reviews, one crash, nodes raise, clients wait | status, audit trail and checkpoint agree; lifecycle; what is not interrupted ends |
| `ServiceConcurrent` | 2 stages, 3 reviews racing, one crash, nodes raise | what survives the race |
| `ReviewPage` | one patient page, 2 stages, 4 decisions, 2 refreshes; one refresh, or the answer to the start, is lost | decisions are applied to what was shown, as long as the page learns how each went |
| `ConnectionPools` | 3 requests of any kind, nodes with sessions of their own, one connection in each pool | no circle of waits, every request answered |
| `Deployment` | 2 migration runners, 2 files, 2 processes, one outage, one kill | schema and record agree, races have a winner, runners are usable |
| `Pipelines` | every pipeline of up to 3 stages over 3 names | the verdict is right, the search ends |
| `GraphLineage`, `PageStaleReview`, `ServiceRejectRace`, `ServiceRestart` | violations | section 5 |

### Properties

* `GapFree`, `OneIdPerType`, `LookupUnambiguous`, `ImplementsLog`: a save whose
  reads interleave with others either fails on the unique constraint or is an
  atomic append. That the constraint on the *version* also protects the
  *artefact id* is not obvious: two first saves that drew different ids both
  read version 1, so only one of them gets in.
* `ExportIsAMoment`: the export reads the list and then each artefact in a
  transaction of its own while saves go on. What it returns was the latest of
  every type at one moment, under a package that was approved then; what it
  refuses was rightly refused; every asset carries the labels of what it is
  made from.
* `PublishedWasReviewed`: `mark_approved` copies whatever package is latest; it
  is the one approved, and every gated artefact it pins is the version approved
  at its gate.
* `UngatedPinsAreCovered`: the data model and the pipeline have no gate of
  their own at the version that is published; they are published only under a
  reviewed semantic model, or reviewed metrics, derived from them.
* `PackagesCoherent`: a package has one version of each type, and the pins
  derive from each other, after any revisions.
* `ExportIsThePackage`: the latest versions, which `export_run` exports, are
  the pins of the approved package.
* `GatePresentsFreshDraft`, `FeedbackStaysInStage`, `NothingSavedAfterReject`:
  about the state that stays behind when the run moves on.
* `LineageMirrorsParents`: `lineage_edges` and `parent_versions` are two copies
  of one relation, written in separate transactions. They agree but for
  interrupted saves and the approved copy of the package (section 5).
* `RetriesBounded`, `VerdictIsEarned`, `ComesToRest`: the judge loop; the verdict
  belongs to the proposal of its round and not to counters or flags left over
  from an earlier one.
* `WaitingAtAGate`, `StatusTellsTheTruth`, `FinalStatusStays`,
  `FinalStatusIsEarned`, `RunningEnds`, `UninterruptedRunEnds`: the run row
  against the checkpoint. `RunningEnds` fails (section 5); `UninterruptedRunEnds`
  says that crashes and nodes that raise are the only reasons.
* `AppliedAsRecorded`, `AppliedWasRecorded`, `OneDecisionPerDraft`: the audit
  trail against what the graph did. `ServiceSerial` excludes races, so what it
  checks is about crashes, nodes that raise and the order of the writes; what
  racing requests cannot break is checked by `ServiceConcurrent`, and what they
  can is listed in section 5.
* `AppliedAsShown`: what the graph decided on is what the page showed when its
  user clicked. In the passing run the answer to a decision arrives and the
  refresh that ends it succeeds (`MayMiss` is FALSE); `PageStaleReview` drops that.
* `NoStageSkipped`, `RejectIsTerminal`, `GatesPresentStoredDrafts`,
  `ImplementsLifecycle`: the review process.
* `NoCircularWait`, `EveryRequestAnswered`: handlers hold a session while they
  wait for a connection of the checkpointer, and graph nodes draw sessions
  inside an invocation. There is no circle because nothing that holds a
  connection of the checkpointer waits for a session, and no session is held
  across `ainvoke`. A handler's session and a node's count as two connections, so
  that the second would be seen waiting for the first.
* `SchemaMatchesRecord`, `RaceHasAWinner`: `schema_migrations` is read once per
  invocation, long before the inserts that rely on it. Losing a race costs an
  invocation, never a statement; undisturbed, somebody completes the schema.
* `RunnerIsUsable`, `StartsServing`: a runner that requests can reach has engine,
  pool and tables, also in a process that is half-way through its start or its
  shutdown; a start is bounded, and has a runner unless disturbed or raced.
* `CycleVerdictIsRight`, `VerdictIsRight`, `Terminates`: the search against a
  reference definition (a set of stages each of which waits for another of the
  set), and the verdict of the whole validation against the existence of an
  order to run the stages in. That the dict forgets a stage whose name occurs
  twice hides cycles from the search and never from the verdict.

`ImplementsLifecycle` is checked twice: in `HitlGraph` with liveness (a run that
is drafting reaches its gate or fails), in `HitlService` for safety, since a run
interrupted by a crash stays where it is.

### Bounds, and why they are enough

* `MaxVersion` in `ArtefactStore` is compared when a save begins, so that
  sessions that read the same version, conflicts and retries all occur; with two
  types, a package and an artefact it covers, lookups can confuse types and an
  export can be overtaken between any two of its reads. The theorems of section 6
  remove the bounds from the store's properties.
* `MaxVersion` in `HitlGraph` stops requests for revisions, and nothing else,
  once the presented artefact has that version. Two rounds at each gate let the
  state hold versions from an earlier, the previous and the current round. The
  theorems of section 6 hold for any bound and any caps.
* Caps 2 and 1 make the two retry counters differ, so that neither can stand for
  the other. They never alternate: discovery and the proposal are deterministic,
  and the test hooks change only when a mapping is saved, so all complaints of one
  round are of one kind. Later rounds start with the counters reset.
  `attempts` is a history variable that saturates one above what the judge may
  ask for (`AttemptsShown`), so that a judge that never gives up has a finite
  state space and still violates `RetriesBounded`.
* Two stages and three requests show every race of `HitlService`: one request
  in front, one behind, one that returns late, at an inner and at the last gate.
  Three stages have a first, an inner and a last gate, and four reviews cover a
  complete run with one revision or refusal.
* `MaxCrashes = 1`: after a crash a run that was under way is stuck (this is the
  finding), so a second crash meets nothing new.
* Three requests on one connection per pool: one holds it, one waits for it and
  holds the other, one comes late; `MaxWork = 1` lets an invocation draw a
  session and a connection from within. The proof covers the general case.
* One outage and one kill hit every step of the migrators and processes. Two
  files are a first one and one that finds it applied.
* Three stages make cycles of length one, two and three, duplicates that hide
  them, and a search that starts more than once.

Symmetry is used for sessions and review requests in safety runs only.
`CHECK_DEADLOCK FALSE` is set because every model may stop: runs end, and
nobody has to send another request. `ConnectionPools` has its deadlock check as
the invariant `NoCircularWait`, which finds a deadlock of some requests also
while others go on.

## 4. Fairness

`HitlGraph` has weak fairness on the nodes together: asyncio keeps running a
started invocation. There is none on reviewers, and none that prefers success
over an exception. `HitlService` has weak fairness on the steps of each request
that was accepted, none on clients and none on crashes. `ReviewLifecycle` has
the corresponding fairness on the system's own steps. `ConnectionPools` has weak
fairness on the steps of each request; the requests are finitely many, so a
request is not overtaken for ever, and the pools' order of service is left open.
`Deployment` has it on the steps of a start-up only, each of which ends, if only
by a timeout: `StartsServing` asks nothing of migrators, of shutdowns or of the
database. `PipelineValidation` is a sequential program that keeps running.
`ArtefactStore`, `RunExport` and `ReviewPage` have none: their properties are
about safety.

## 5. Where code and documents disagree

* `PageStaleReview`: `submitDecision` (`ui/static/app.js`) posts the decision and
  refreshes in one `try`. When the decision was taken and its answer is lost, or
  the refresh after it fails, the error path enables the buttons by the detail of before the decision (line
  317), and the page offers the decided artefact for decision again. The next
  click is applied at the next gate, to an artefact its reviewer never saw: the
  request names no artefact. ADR 005 line 18: "Each AI-generated artefact is
  reviewed before progressing"; ARCHITECTURE.md line 193 has an `artefact_ref`
  in the decision, `ReviewDecisionRequest` has none.
* `ServiceRejectRace`: in the same way generation goes on after a rejection was
  applied. ADR 005 line 34, "Reject is terminal"; ARCHITECTURE.md line 199, "no
  further generation".
* `ServiceRestart`: a crash between the commit of RUNNING and the final status
  leaves the run RUNNING for ever. PRODUCT_SPEC.md line 53, "HITL workflows
  survive process restarts".
* `GraphLineage`: the approved version of the package has no lineage edges.
  PRODUCT_SPEC.md line 807, "lineage edges update when artefact versions are
  created".

Seen while modelling, without a run of their own:

* A node that raises leaves the run RUNNING too; FAILED is never written
  (`FinalStatusIsEarned` includes that it never is), against NFR-5
  (PRODUCT_SPEC.md line 436: failed steps are visible and restartable).
* `AppliedAsShown` also fails with two pages, or with a user who clicks Refresh
  while a decision is posted (`Patient` false): the refresh enables the decision
  buttons again, and refreshes are neither numbered nor cancelled.
  The server has the same gap without any page: `apply_review` checks the status
  and resumes many awaits later, so with racing requests `AppliedAsRecorded` and
  `OneDecisionPerDraft` fail and the audit trail names the earlier artefact.
* With racing requests `StatusTellsTheTruth` fails and, without any crash, a
  late status write can leave the row at RUNNING although the graph waits.
* With `CallerIds` not empty (`POST /dev/artefacts`), `OneIdPerType` and
  `LookupUnambiguous` fail, and an id shared by two types lets `export_run`
  drop one of them (`latest_by_id`).
* A start without a database (`app/main.py` line 87) never creates the runner
  later: `/ready` becomes ready when the database returns, while every HITL
  endpoint stays unavailable until the process is restarted. The log message of
  lines 98-101 promises that "/ready will report unavailable until connectivity
  is restored", which says nothing of the runner.
* When `setup()` raises, the pool that was opened for it is not closed before the
  process ends (lines 41-46).
* `_merge_governance` lets the `extra` of another artefact override the asset's
  own (`extra.update`); nothing else in the merge is overridden.
* The audit trail is listed by `created_at`, a clock read before the commit, and
  not in the order in which decisions were recorded.
* Revisions at the implementation gate regenerate the metrics, not the pipeline
  (graph.py line 503 says so; ARCHITECTURE.md line 177 draws both), and the
  business requirement has no gate (graph.py line 99; ARCHITECTURE.md line 158).

## 6. Proofs

`ArtefactStoreProofs` proves, for every set of types, sessions and ids and with
no bound on versions, that `Spec` implies `[]TypeOK`, `[]GapFree`,
`[]OneIdPerType`, `[]LookupUnambiguous` and `Log!Spec`. The assumptions are
those that `ArtefactStore` declares (`None` is neither an id nor a number; the
callers' values are of the right kind) and `AutoNumbered`, that is, callers pass
neither explicit versions nor foreign ids. The graph nodes satisfy it; the
developer API does not, and without it the properties are false.

None of the four is inductive on its own. `IInv` adds what sessions in flight
know: a version read is at most one past the highest stored (`SavesInRange`); an
id in hand is one the type already owns, or the session is about to insert
version 1 (`IdsSettled`); and no two types share an id, in rows or in saves under
way (`IdsApart`). `IdsSettled` is the heart of the argument: the version is read
before the id, so a session that found no row to take an id from had found none
when it read its version either, its version is 1, and the unique constraint
lets only one session insert version 1. A code change that swapped the two
reads would break exactly this conjunct. The proof has one lemma per action, and
under it one step per conjunct of `IInv` that the action can disturb. For the
refinement, an `Insert` that commits maps to `Append` and every other step to a
stutter; `OneIdPerType` makes the mapped `owner` well defined.

`HitlGraphProofs` proves every safety property of the run `GraphReviews` and the
safety part of its refinement, with no assumption beyond those that the
modules declare: for any two caps, any hooks, any number of revisions at any
gate (`MaxVersion` is any number), and nodes that raise half-way through their
saves. The invariant comes in parts, each about some of the variables:

* `Control`: a rejected run is at `terminated` or at the end, and neither saves;
  an edge out of a stage with feedback in the state is taken only by a decision,
  which replaces the feedback.
* `CountersTell`: at each node of the mapping subgraph the two retry counters say
  how often discovery and mapping have run since the subgraph was entered.
  `RetriesBounded` and `VerdictIsEarned` do not follow from the caps without it:
  what bounds the loop is that every entry goes through
  `reset_mapping_retries`.
* `LineageMirrorsParents` is inductive as it stands.
* `ReviewInv`: two tables say what each node relies on. At node `n` the keys of
  `Settled(n)` hold the latest stored version, and what the state holds for the
  gates of `Passed(n)` is what was approved there. `SavingShape`, `OtherShape`
  and `ReviewShape` show that the edges of the graph respect the tables (no node
  saves what a gate behind it has approved, except the data model), and `Stored`
  that nothing refers to a version past the latest, so that a new version is one
  nobody has seen. At `approved` the tables name all keys and all gates but that
  of the mapping, which is `PublishedWasReviewed`.
* `DerivInv`: for each settled key the parents of the artefact it holds are those
  that `SourcesOf` lists, in terms of what the state holds *now*. A revision
  regenerates an artefact together with all that derives from it, or before any
  of it exists, which is `SourceShape`; a package pins what the state holds, and
  is coherent for that reason. The data model has no gate of its own at the
  version published, so `ContinuesMapping` follows it back, version by version,
  to a mapping that was approved: chains grow only at their end
  (`ContinuesFurther`), and no save changes the parents of a stored version
  (`ParentsKept`).
* `LifeInv`, for `Spec => Lifecycle!Safety`: the state holds the latest version
  of what each stage presents (also past the gates, and through the enrichment
  that moves the mapping's version on), none of which exists before its stage,
  and only the package can be published. The mapped stage is a `CHOOSE` over two
  conditions; `StageByNode` and `StageByType` show that it is the stage of the
  node before the end of the run and of the artefact presented last after it.
  A node that saves what its stage presents is `PresentDraft`, one that raises
  `Fail`, `mark_approved` is `Publish`, a decision is one of the three decisions,
  and every other node a stutter. `LifeInv` is what gives an approval its
  `drafts' = 0`: the next stage has no version yet.
* `InvocationsAreShort` is the variant of an invocation. `NodesLeft` counts the
  nodes it may still run from the node it is at and the retry counters, is 0
  exactly at a gate and at the end, and goes down with every node that completes,
  from `3 * (SchemaCap + LogicCap) + 5` at the most. It says of `ComesToRest` what
  is not fairness: no path through the graph, and no run of verdicts, avoids rest.

`HitlServiceProofs` proves, for every number of stages, set of concurrent
reviews and number of crashes, clients that wait or do not, nodes that raise or
do not, that `Spec` implies `[]TypeOK`, `[]NoStageSkipped`,
`[]AppliedWasRecorded`, `[]FinalStatusIsEarned` and
`[]GatesPresentStoredDrafts`. It assumes at least one stage and that `None` and
`Start` are values apart.

These are the properties that hold in spite of the races, and a stale
invocation that overwrites a newer checkpoint is what makes them hard: nothing
orders the checkpoints. The argument is that a graph state carries its own
justification (`Sound`): beyond stage `s` there is an approval taken at `s`, a
terminated state has a rejection, a gate has a stored draft. Approvals,
rejections, versions and packages only ever accumulate, so a state that was
sound when it was made is sound whenever it is written back (`SoundGrows`), and
the status worked out from it is still earned when it is written late (`Earned`,
`EarnedGrows`). The rest of `IInv` is one conjunct per request: which request can
be where (`Placed`), that reviews come after the first draft and never work on
the initial state (`Opened`: only `start_run` writes it, before anybody can be
let through), and that a request's decision is recorded before it is applied,
once (`Decided`). `OthersOK` shows once that a step of one request (`Grows`)
leaves what is known of the others; each action then has one lemma about its
own request. `ReturnsOK` is common to the nodes. The properties that the races
do break (section 5) are not consequences of this invariant.

`HitlSerialProofs` proves those from `Serial`, that is, from clients that send a
request only when none is in flight (a crash answers the requests it ends):
`[]WaitingAtAGate`, `[]AppliedAsRecorded`, `[]OneDecisionPerDraft`,
`[]StatusTellsTheTruth`, `FinalStatusStays` and `RejectIsTerminal`. With one
request at a time nothing is overtaken; what is left is that a request may be cut
off at any of its steps, by a crash or a node that raises, and that the next one
must not build on what it left behind. `SInv` says what it can rely on:
`OneAtATime`; `Alone`, what the request in flight has read or loaded is still
so; and `Agreement`, status row, audit trail and checkpoint agree between any two
steps. Its heart is the order of the writes: a review is recorded and the row
set to RUNNING before the graph is touched, so a request cut off later leaves a
run nobody is let into; one cut off earlier leaves the run waiting at its gate
with a recorded decision that was not applied, and the review that follows is
the first to be applied to that draft (`Fresh`). A new draft has a version above
all that were decided on, which makes `OneDecisionPerDraft` inductive.

It also proves `Serial => (Spec => ImplementsLifecycle)`. A
checkpoint write is the lifecycle's step and a raise is its `Fail`; everything
else maps to a stutter. `LInv` adds that the state about to be written follows
on the checkpoint it replaces (`Follows`), and that the versions the store gave a
stage are the drafts the state has seen (`Counted`); a node that raised after
its save breaks the count, and then nobody works on the run again.

Of the export `ArtefactStoreProofs` proves `AutoNumbered /\ LabelsAreNotNone =>
(ExportSpec => []ExportIsAMoment)`, for any number of sessions, types, ids and
assets, on top of `IInv`. `LabelsAreNotNone` says that a merged set of labels is
a value apart from `None`. An id and a type belong to each other at every moment
(`RowsNamed`), so the latest rows by id, which the export lists, are the latest
of each type, which it promises (`HighestIsLatest`). A listed row stays, and is
the only one with its id and version, so what is fetched later is what was
listed (`InHand`). Saves in between change neither, and an approval comes with
the insert of the row, so a row listed unapproved is not approved by the time it
is fetched.

`PipelineValidationProofs` proves, for any set of names and any number of
stages, that `Spec` implies `[]TypeOK`, `[]CycleVerdictIsRight` and
`[]VerdictIsRight`. The invariant is that of a depth-first search: `visiting` is
exactly the stack, which is a path without repetitions (`StackOK`, `PathOK`);
what a call has dealt with is visited or is the call within (`DealtWith`); no
visited node is in a circular set (`NoneCircular`); every key is still to come,
under way or visited (`KeysCovered`). A cycle reported is the path from the node
found in `visiting` to the top (`PathCloses`); a node is marked visited when all
its dependencies are, so that a circular set with it would have held a visited
node before. The sets are shared between the starting points of the search,
which is why the invariant speaks of all keys and not of one call. The proof
needs no induction over the graph: a circular set is one in which each member
waits for another, which quantifies over sets of nodes in place of paths.

The verdict on the whole pipeline needs an order to run the stages in, whose
existence is an induction over the stages. The search does that induction: the
order in which its calls return is such an order, because a call returns after
its dependencies have (`VisitedOrdered`, `LeaveOrdered`). When a pipeline passes,
names are unique, every dependency is a stage and every stage is visited, so
that order runs it (`PassedRuns`). When an order runs it, the stage of a circular
set that comes first would have to come after another of the set
(`RunsPasses`, with the least element from the library's well-founded sets).

`SearchIsShort` does the same for `Terminates`, and assumes that there are finitely many
names. `Ahead` is what the search has ahead of it: keys to come to, dependencies
to look at, calls to return from. It is finite, and every step takes
something from it and puts nothing back (`StepShrinks`).

`ConnectionPoolsProofs` proves `[]NoCircularWait` for any number of requests and
any sizes of the two pools. It has three cases: somebody holds a connection of
the checkpointer, and needs nothing more to give it back; nobody does, and
somebody holds a session: what it may wait for is free; or nobody holds
anything. `OneSessionAtATime` and `GoalIsAMove` are the facts about the handlers
and the nodes it rests on: no request holds two sessions, a node's included, and every place has a step that does
not wait, or waits for one pool.

`DeploymentProofs` proves `[]SchemaMatchesRecord`, `[]RaceHasAWinner` and
`[]RunnerIsUsable` for any number of migrators, processes and files, and any
number of outages and kills. `SchemaMatchesRecord` is not inductive: that a
statement is executed once depends on what a migrator read long before.
`MigrationInv` says that what is recorded, and what each migrator has read, are
the first files, the one a subset of the other; so the next file of a migrator is
unrecorded only if it has read the whole record (`NextUnapplied`), and whoever
has not fails on the statement or on the version row and takes both back.
`RaceHasAWinner` rests on `InTheLead`: while nothing is disturbed, some migrator is
up to date or about to read. When another one commits, the lead passes to it;
who fails was not in the lead (`FailsKeeps`). `ServiceInv` says what a process
has at each step of its lifespan; a shutdown takes the runner away first, and an
outage takes the database and no runner.

`ReviewPageProofs` proves `OnePatientPage => (PageSpec => []AppliedAsShown)` for
any number of stages, reviews, refreshes, failing refreshes and slots. The
hypothesis is that there is one page, whose user clicks when nothing is awaited
(`Patient`), and that the answer to a decision arrives and the refresh which ends
`submitDecision` succeeds (`~MayMiss`); `ReviewPage` itself assumes no crash and no node that raises
(`PageAssumption`). None of the three can be dropped: TLC finds `AppliedAsShown`
violated with two pages, with an impatient user, and with a lost answer or a
closing refresh that fails, which is the finding of section 5. The argument has two halves. The page
is a client that waits for each response, which `ReviewPage` does not assume
(`~Serial`) and the proof derives: when a button is enabled no request is in
flight, so that every step of the service satisfies what `HitlSerialProofs` asks
of a step (`HandleSerial`), and `SInv` holds; `PageIsSerial` states what follows.
And what the page offers is what the run is at (`PageOK`): a refresh reads the
run row and the checkpoint in two transactions (`UpToDate`), but nothing moves in
between while no request is out; and from the click on, the decision carries the
draft the checkpoint presents until the graph has taken it (`Shown`).

Model-checked only: all liveness, which is outside the prover (`ComesToRest`,
`UninterruptedRunEnds`, `Terminates`, `EveryRequestAnswered`, `StartsServing`, and
the fairness part of `HitlGraph!ImplementsLifecycle`, whose safety part is
`GraphRefinesLifecycle`). Of `ComesToRest` and `Terminates` the bound on the steps is
proved (`InvocationsAreShort`, `SearchIsShort`); that a step can be taken before
the end, and is, needs ENABLED and fairness. Every safety property that a passing run checks is
proved. The violations of section 5 are TLC's counterexamples.

## 7. Plan

Done: the store, the graph, the judge, the service with its races and its pages,
export, pools, lifespan, migrations, pipeline validation, and the proofs of
section 6. What would come next:

1. Weaker promises of the store that survive the developer API, and the export
   of such a store.
2. `ReviewPage` with crashes and nodes that raise, which `PageAssumption` leaves
   out.

## 8. Not modelled

* Payload generation by agents and LLM clients, payload validation, the text of
  validation results, the adapter's rendering and its refusal of another
  platform, logging, configuration loading: data and formatting. That agents
  may raise is modelled.
* The read-only endpoints, the probes included: they change no state. What a
  page makes of `get_run_detail` is in `ReviewPage`, what `export_run` reads in
  `RunExport`.
* The artefact viewer and the export panel of the page: display.
* Two migration files with one version prefix, and the splitting of a file into
  statements at semicolons: parsing of files that are part of the release.
* Which objects a user may see: discovery is a boolean, and the filter is a
  lookup in a fixture file.
* The connection pools' timeouts and reconnects; TCP.
