----------------------------- MODULE HitlService -----------------------------
(***************************************************************************)
(* HitlRunner: the API requests that start one run and review it, each a   *)
(* coroutine of its own.  A request reads and writes the run's status row, *)
(* the audit trail and the graph's latest checkpoint in separate           *)
(* transactions, and nothing but the status check at its start keeps two   *)
(* of them apart.  A process crash ends every request under way; a restart *)
(* recovers nothing.                                                       *)
(*                                                                         *)
(* The graph is abstracted to its stages (HitlTopology's StageNodes): one  *)
(* node that generates the stage's artefact, and the gate that presents    *)
(* it.  What happens between two gates is in HitlGraph.  LangGraph is      *)
(* external: an invocation runs on the checkpoint it loaded, writes one    *)
(* after every node, and the last one written is the latest.               *)
(***************************************************************************)
EXTENDS Naturals

CONSTANTS
  Stages,      \* number of review stages; the graph has five
  Reviews,     \* the review requests clients may send
  Start,       \* the request that starts the run
  None,        \* no value
  Serial,      \* whether clients wait for each response before the next request
  MayRaise,    \* whether a node may raise
  MaxCrashes   \* bound on process crashes

Requests == Reviews \cup {Start}

Decisions == {"approve", "reject", "request_revisions"}

ASSUME StagesAssumption == Stages \in Nat \ {0}
ASSUME RequestAssumption == Start \notin Reviews
ASSUME ServiceAssumption == Serial \in BOOLEAN /\ MayRaise \in BOOLEAN /\ MaxCrashes \in Nat

VARIABLES
  status,      \* workflow_runs.status, None before the run is created
  checkpoint,  \* the latest checkpoint of the run's thread
  latest,      \* store: highest version of the artefact each stage presents
  published,   \* store: versions of the approved review package
  recorded,    \* audit trail: review_submitted events, with their request
  applied,     \* history: decisions the graph took at a gate, with their request
  pc,          \* pc[r]: where request r is
  local,       \* local[r]: its variables (see NoLocals)
  raised,      \* history: a node raised
  crashes      \* process crashes so far

data == <<status, checkpoint, latest, published, recorded, applied>>
vars == <<data, pc, local, raised, crashes>>

Statuses == {"created", "running", "waiting_for_review", "approved", "terminated", "failed"}

\* A version of the artefact a stage presents.
Draft == [stage : 1 .. Stages, version : Nat]

\* The part of a checkpoint the runner looks at: the next node, and the
\* artefact and decision among the state's values.
Checkpoints == [node : {"generate", "gate", "approved", "terminated", "end"},
                stage : 1 .. Stages, draft : Draft \cup {None},
                decision : Decisions \cup {None}]

ASSUME NoneAssumption ==
  /\ None \notin Requests \cup Decisions \cup Statuses
  /\ None \notin Draft
  /\ None \notin Checkpoints

Initial == [node |-> "generate", stage |-> 1, draft |-> None, decision |-> None]

Steps == {"ready", "create", "check", "snapshot", "record", "read_status",
          "write_status", "load", "checkpoint", "resume", "run",
          "sync_snapshot", "sync_check", "done", "dead"}

\* The variables of a request: the decision it carries, the artefact under
\* review in the snapshot it read, the status it is to write and the one it
\* read before, and the graph state of its invocation.  What it does not need
\* any more is None again.
NoLocals == [asked |-> None, seen |-> None, target |-> None, previous |-> None,
             graph |-> None]

\* Requests in flight.
Active == {r \in Requests : pc[r] \notin {"ready", "done", "dead"}}

-----------------------------------------------------------------------------
Init ==
  /\ status = None /\ checkpoint = None
  /\ latest = [s \in 1 .. Stages |-> 0]
  /\ published = {} /\ recorded = {} /\ applied = {}
  /\ pc = [r \in Requests |-> "ready"]
  /\ local = [r \in Requests |-> NoLocals]
  /\ raised = FALSE /\ crashes = 0

Goto(r, step) == pc' = [pc EXCEPT ![r] = step]

\* The request is answered; its variables are gone.
Ends(r) == Goto(r, "done") /\ local' = [local EXCEPT ![r] = NoLocals]

\* The request of a client: POST /runs once, then POST /runs/{id}/reviews.
Send(r) ==
  /\ pc[r] = "ready"
  /\ Serial => Active = {}
  /\ IF r = Start
     THEN Goto(r, "create") /\ UNCHANGED local
     ELSE /\ status # None
          /\ Goto(r, "check")
          /\ \E d \in Decisions : local' = [local EXCEPT ![r].asked = d]
  /\ UNCHANGED <<data, raised, crashes>>

\* start_run: create_run commits, then update_run_status(RUNNING).
CreateRun(r) ==
  /\ pc[r] = "create"
  /\ status' = "created"
  /\ local' = [local EXCEPT ![r].target = "running"]
  /\ Goto(r, "read_status")
  /\ UNCHANGED <<checkpoint, latest, published, recorded, applied, raised, crashes>>

\* Mutant: a request is refused only when there is nothing to review.
CheckStatusNotTerminated(r) ==
  /\ pc[r] = "check"
  /\ IF status # "terminated" THEN Goto(r, "snapshot") /\ UNCHANGED local ELSE Ends(r)
  /\ UNCHANGED <<data, raised, crashes>>

\* Mutant: an approved run accepts another review.
CheckStatusOrApproved(r) ==
  /\ pc[r] = "check"
  /\ IF status \in {"waiting_for_review", "approved"}
     THEN Goto(r, "snapshot") /\ UNCHANGED local
     ELSE Ends(r)
  /\ UNCHANGED <<data, raised, crashes>>

\* apply_review: refuses (409) unless the run waits for review.
CheckStatus(r) ==
  /\ pc[r] = "check"
  /\ IF status = "waiting_for_review"
     THEN Goto(r, "snapshot") /\ UNCHANGED local
     ELSE Ends(r)
  /\ UNCHANGED <<data, raised, crashes>>

\* Mutant: the review event carries no artefact.
ReadSnapshotWithoutArtefact(r) ==
  /\ pc[r] = "snapshot"
  /\ Goto(r, "record")
  /\ UNCHANGED <<data, local, raised, crashes>>

\* Mutant: the graph is resumed before anything is recorded.
ReadSnapshotThenInvoke(r) ==
  /\ pc[r] = "snapshot"
  /\ local' = [local EXCEPT ![r].seen = checkpoint.draft]
  /\ Goto(r, "load")
  /\ UNCHANGED <<data, raised, crashes>>

\* aget_state: the artefact of the latest checkpoint, whatever node it is at.
ReadSnapshot(r) ==
  /\ pc[r] = "snapshot"
  /\ local' = [local EXCEPT ![r].seen = checkpoint.draft]
  /\ Goto(r, "record")
  /\ UNCHANGED <<data, raised, crashes>>

\* Mutant: the run is not marked RUNNING before the graph is resumed.
RecordReviewOnly(r) ==
  /\ pc[r] = "record"
  /\ recorded' = recorded \cup
       {[by |-> r, draft |-> local[r].seen, decision |-> local[r].asked]}
  /\ Goto(r, "load")
  /\ UNCHANGED <<status, checkpoint, latest, published, applied, local, raised, crashes>>

\* record_review commits the decision for the artefact of the snapshot.
RecordReview(r) ==
  /\ pc[r] = "record"
  /\ recorded' = recorded \cup
       {[by |-> r, draft |-> local[r].seen, decision |-> local[r].asked]}
  /\ local' = [local EXCEPT ![r].seen = None, ![r].target = "running"]
  /\ Goto(r, "read_status")
  /\ UNCHANGED <<status, checkpoint, latest, published, applied, raised, crashes>>

-----------------------------------------------------------------------------
\* update_run_status, from start_run, apply_review and _sync_and_detail

\* session.get reads the row again: the identity map holds rows weakly, and
\* get_run has kept none.
ReadStatus(r) ==
  /\ pc[r] = "read_status"
  /\ local' = [local EXCEPT ![r].previous = status]
  /\ Goto(r, "write_status")
  /\ UNCHANGED <<data, raised, crashes>>

\* The UPDATE leaves the status column out when its value has not changed
\* since it was read.  The request goes on to invoke the graph, or is over if
\* it has done so already.
WriteStatus(r) ==
  /\ pc[r] = "write_status"
  /\ status' = IF local[r].target = local[r].previous THEN status ELSE local[r].target
  /\ IF local[r].graph = None
     THEN /\ Goto(r, "load")
          /\ local' = [local EXCEPT ![r].target = None, ![r].previous = None]
     ELSE Ends(r)
  /\ UNCHANGED <<checkpoint, latest, published, recorded, applied, raised, crashes>>

-----------------------------------------------------------------------------
\* ainvoke

\* The invocation loads the latest checkpoint; start_run's begins with its
\* input.  A resume applies at a gate only: elsewhere the node runs again, and
\* at the end nothing does.
Load(r) ==
  /\ pc[r] = "load"
  /\ LET loaded == IF r = Start THEN Initial ELSE checkpoint IN
       /\ local' = [local EXCEPT ![r].graph = loaded]
       /\ Goto(r, CASE r = Start -> "checkpoint"
                    [] loaded.node = "gate" -> "resume"
                    [] loaded.node = "end" -> "sync_snapshot"
                    [] OTHER -> "run")
  /\ UNCHANGED <<data, raised, crashes>>

\* A node of r's invocation has returned its updates.
Returns(r, state) ==
  /\ local' = [local EXCEPT ![r].graph = state]
  /\ Goto(r, "checkpoint")
  /\ UNCHANGED <<status, checkpoint, recorded, raised, crashes>>

\* The updates are committed as the thread's latest checkpoint; the invocation
\* stops at a gate and at the end.
WriteCheckpoint(r) ==
  /\ pc[r] = "checkpoint"
  /\ checkpoint' = local[r].graph
  /\ Goto(r, IF local[r].graph.node \in {"gate", "end"} THEN "sync_snapshot" ELSE "run")
  /\ UNCHANGED <<status, latest, published, recorded, applied, local, raised, crashes>>

\* Mutant: any approval publishes.
AfterDecisionPublishing(s, d) ==
  CASE d = "approve" -> [node |-> "approved", stage |-> s]
    [] d = "reject" -> [node |-> "terminated", stage |-> s]
    [] d = "request_revisions" -> [node |-> "generate", stage |-> s]

\* Mutant: revisions lead back to the gate without a new draft.
AfterDecisionUnrevised(s, d) ==
  CASE d = "approve" /\ s < Stages -> [node |-> "generate", stage |-> s + 1]
    [] d = "approve" /\ s = Stages -> [node |-> "approved", stage |-> s]
    [] d = "reject" -> [node |-> "terminated", stage |-> s]
    [] d = "request_revisions" -> [node |-> "gate", stage |-> s]

\* Mutant: a rejection is routed like a request for revisions.
AfterDecisionNeverEnding(s, d) ==
  CASE d = "approve" /\ s < Stages -> [node |-> "generate", stage |-> s + 1]
    [] d = "approve" /\ s = Stages -> [node |-> "approved", stage |-> s]
    [] OTHER -> [node |-> "generate", stage |-> s]

\* route_after_*_review: where a decision leads from the gate of a stage.
AfterDecision(s, d) ==
  CASE d = "approve" /\ s < Stages -> [node |-> "generate", stage |-> s + 1]
    [] d = "approve" /\ s = Stages -> [node |-> "approved", stage |-> s]
    [] d = "reject" -> [node |-> "terminated", stage |-> s]
    [] d = "request_revisions" -> [node |-> "generate", stage |-> s]

\* The gate returns the decision and the graph routes on it.
Resume(r) ==
  /\ pc[r] = "resume"
  /\ LET next == AfterDecision(local[r].graph.stage, local[r].asked) IN
       Returns(r, [node |-> next.node, stage |-> next.stage,
                   draft |-> local[r].graph.draft, decision |-> local[r].asked])
  /\ applied' = applied \cup
       {[by |-> r, draft |-> local[r].graph.draft, decision |-> local[r].asked]}
  /\ UNCHANGED <<latest, published>>

NewVersion(s) == latest[s] + 1

\* Mutant: the version is presented, its save is lost.
GenerateUnsaved(r) ==
  /\ pc[r] = "run" /\ local[r].graph.node = "generate"
  /\ LET s == local[r].graph.stage IN
       Returns(r, [node |-> "gate", stage |-> s, decision |-> None,
                   draft |-> [stage |-> s, version |-> NewVersion(s)]])
  /\ UNCHANGED <<latest, published, applied>>

\* The generators of a stage save its artefact for the gate to present.
Generate(r) ==
  /\ pc[r] = "run" /\ local[r].graph.node = "generate"
  /\ LET s == local[r].graph.stage IN
       /\ latest' = [latest EXCEPT ![s] = NewVersion(s)]
       /\ Returns(r, [node |-> "gate", stage |-> s, decision |-> None,
                      draft |-> [stage |-> s, version |-> NewVersion(s)]])
  /\ UNCHANGED <<published, applied>>

\* mark_approved saves an approved copy of the latest review package.
MarkApproved(r) ==
  /\ pc[r] = "run" /\ local[r].graph.node = "approved"
  /\ latest' = [latest EXCEPT ![Stages] = NewVersion(Stages)]
  /\ published' = published \cup {NewVersion(Stages)}
  /\ Returns(r, [node |-> "end", stage |-> local[r].graph.stage, decision |-> "approve",
                 draft |-> [stage |-> Stages, version |-> NewVersion(Stages)]])
  /\ UNCHANGED applied

MarkTerminated(r) ==
  /\ pc[r] = "run" /\ local[r].graph.node = "terminated"
  /\ Returns(r, [local[r].graph EXCEPT !.node = "end", !.decision = "reject"])
  /\ UNCHANGED <<latest, published, applied>>

\* A generator raises, before the save of its artefact or at a lineage edge
\* after it, or mark_approved does: the request fails, the graph stays at the
\* node, and the status row is not touched again.
Raise(r) ==
  /\ MayRaise
  /\ pc[r] = "run"
  /\ \/ local[r].graph.node \in {"generate", "approved"} /\ UNCHANGED latest
     \/ /\ local[r].graph.node = "generate"
        /\ latest' = [latest EXCEPT ![local[r].graph.stage] = @ + 1]
  /\ raised' = TRUE
  /\ Ends(r)
  /\ UNCHANGED <<status, checkpoint, published, recorded, applied, crashes>>

-----------------------------------------------------------------------------
\* _sync_and_detail

\* Mutant: the decision counts although nodes are left to run.
StatusOfDecision(c) ==
  IF c.node = "gate" THEN "waiting_for_review"
  ELSE IF c.decision = "reject" THEN "terminated"
  ELSE IF c.decision = "approve" THEN "approved"
  ELSE "running"

\* The run status a checkpoint stands for.
StatusOf(c) ==
  IF c.node = "gate" THEN "waiting_for_review"
  ELSE IF c.node # "end" THEN "running"
  ELSE IF c.decision = "reject" THEN "terminated"
  ELSE IF c.decision = "approve" THEN "approved"
  ELSE "failed"

SyncSnapshot(r) ==
  /\ pc[r] = "sync_snapshot"
  /\ local' = [local EXCEPT ![r].target = StatusOf(checkpoint)]
  /\ Goto(r, "sync_check")
  /\ UNCHANGED <<data, raised, crashes>>

\* Mutant: the status row is left as it is.
SyncCheckOnly(r) ==
  /\ pc[r] = "sync_check"
  /\ Ends(r)
  /\ UNCHANGED <<data, raised, crashes>>

SyncCheck(r) ==
  /\ pc[r] = "sync_check"
  /\ IF status = local[r].target
     THEN Ends(r)
     ELSE Goto(r, "read_status") /\ UNCHANGED local
  /\ UNCHANGED <<data, raised, crashes>>

\* The process dies and comes back: no request survives, and the lifespan
\* handler looks at no run.
Crash ==
  /\ crashes < MaxCrashes
  /\ Active # {}
  /\ crashes' = crashes + 1
  /\ pc' = [r \in Requests |-> IF r \in Active THEN "dead" ELSE pc[r]]
  /\ local' = [r \in Requests |-> NoLocals]
  /\ UNCHANGED <<data, raised>>

-----------------------------------------------------------------------------
Handle(r) ==
  \/ CreateRun(r)
  \/ CheckStatus(r)
  \/ ReadSnapshot(r)
  \/ RecordReview(r)
  \/ ReadStatus(r)
  \/ WriteStatus(r)
  \/ Load(r)
  \/ WriteCheckpoint(r)
  \/ Resume(r)
  \/ Generate(r)
  \/ MarkApproved(r)
  \/ MarkTerminated(r)
  \/ Raise(r)
  \/ SyncSnapshot(r)
  \/ SyncCheck(r)

Next == Crash \/ \E r \in Requests : Send(r) \/ Handle(r)

\* The event loop runs every request it has accepted; clients need not send.
Fairness == \A r \in Requests : WF_vars(Handle(r))

Spec == Init /\ [][Next]_vars /\ Fairness

-----------------------------------------------------------------------------
\* Properties

\* Every variable has its type, and a request has what its step needs: a run
\* to read, a snapshot to record, a graph to run.
TypeOK ==
  /\ status \in Statuses \cup {None}
  /\ checkpoint \in Checkpoints \cup {None}
  /\ latest \in [1 .. Stages -> Nat]
  /\ published \subseteq Nat
  /\ recorded \subseteq [by : Reviews, draft : Draft, decision : Decisions]
  /\ applied \subseteq [by : Reviews, draft : Draft, decision : Decisions]
  /\ pc \in [Requests -> Steps]
  /\ local \in [Requests -> [asked : Decisions \cup {None}, seen : Draft \cup {None},
                            target : Statuses \cup {None}, previous : Statuses \cup {None},
                            graph : Checkpoints \cup {None}]]
  /\ raised \in BOOLEAN
  /\ crashes \in 0 .. MaxCrashes
  /\ \A r \in Requests :
       /\ pc[r] \in {"checkpoint", "resume", "run"} => local[r].graph # None
       /\ pc[r] \in {"snapshot", "record"} => checkpoint # None

\* The checkpoints that exist: the stored one and those of invocations.
States == ({checkpoint} \cup {local[r].graph : r \in Requests}) \ {None}

\* No stage is skipped, whoever races whom: beyond stage s somebody's approval
\* was applied at its gate, and a package is published past the last gate only.
NoStageSkipped ==
  /\ \A c \in States : \A s \in 1 .. c.stage - 1 :
       \E a \in applied : a.draft.stage = s /\ a.decision = "approve"
  /\ published # {} => \A s \in 1 .. Stages :
       \E a \in applied : a.draft.stage = s /\ a.decision = "approve"

\* A decision is in the audit trail before the graph acts on it, and a request
\* acts on the graph at most once.
AppliedWasRecorded ==
  /\ \A a \in applied : \E e \in recorded : e.by = a.by /\ e.decision = a.decision
  /\ \A a, b \in applied : a.by = b.by => a = b

\* A final status was earned: an approved run has a published package, a
\* terminated one a rejection that was applied.
FinalStatusIsEarned ==
  /\ status = "approved" => published # {}
  /\ status = "terminated" => \E a \in applied : a.decision = "reject"
  /\ status # "failed"

\* Every gate, the stored one and those of invocations still in memory,
\* presents a version of its own stage that is in the store.
GatesPresentStoredDrafts ==
  \A c \in States : c.node = "gate" =>
    /\ c.draft.stage = c.stage
    /\ c.draft.version \in 1 .. latest[c.stage]

\* A run that waits for review is at a gate, so that the next request's
\* decision is taken there and not dropped.
WaitingAtAGate == status = "waiting_for_review" => checkpoint.node = "gate"

\* What the audit trail says was reviewed is what the graph acted on: a
\* decision is applied to the version it was recorded for.
AppliedAsRecorded == applied \subseteq recorded

\* At most one decision is applied to a version.
OneDecisionPerDraft == \A a, b \in applied : a.draft = b.draft => a = b

\* Rejecting is terminal, as approving the package is: no artefact is saved
\* any more.
RejectIsTerminal ==
  [][(\E a \in applied : a.decision = "reject") => latest' = latest]_vars

\* A final status stays.
FinalStatusStays ==
  [][(status \in {"approved", "terminated"}) =>
       status' = status /\ checkpoint' = checkpoint /\ latest' = latest]_vars

\* When no request is in flight and none went wrong, clients are told what the
\* graph is at.
StatusTellsTheTruth ==
  Active = {} /\ ~raised /\ crashes = 0 /\ status # None => status = StatusOf(checkpoint)

\* A run does not stay RUNNING for ever ...
RunningEnds == status = "running" ~> status # "running"

\* ... unless a node raised or the process died: the last request to mark the
\* run RUNNING is followed by the write of what its invocation came to, over
\* all awaits in between.
UninterruptedRunEnds ==
  status = "running" ~> status # "running" \/ raised \/ crashes > 0

-----------------------------------------------------------------------------
(***************************************************************************)
(* With clients that wait for their responses the service implements the   *)
(* review lifecycle, crashes and failures included, on what is checkpointed *)
(* (safety only: a run that crashed stays where it is).                    *)
(***************************************************************************)
Current == IF checkpoint = None THEN Initial ELSE checkpoint

CurrentPhase ==
  IF raised THEN "failed" ELSE
    CASE Current.node = "generate" -> "drafting"
      [] Current.node = "gate" -> "in_review"
      [] Current.node = "approved" -> "publishing"
      [] Current.node = "end" /\ Current.decision = "approve" -> "approved"
      [] OTHER -> "rejected"

Drafts ==
  IF Current.draft = None \/ Current.draft.stage # Current.stage THEN 0
  ELSE IF CurrentPhase = "approved" THEN Current.draft.version - 1
  ELSE Current.draft.version

Lifecycle == INSTANCE ReviewLifecycle WITH
  phase <- CurrentPhase, stage <- Current.stage, drafts <- Drafts

ImplementsLifecycle == Lifecycle!Safety

=============================================================================
