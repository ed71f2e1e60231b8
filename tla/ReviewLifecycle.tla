--------------------------- MODULE ReviewLifecycle ---------------------------
(***************************************************************************)
(* What human-in-the-loop review promises of one run, before any graph:    *)
(* the run goes through Stages stages in order; in each stage drafts are   *)
(* made and put before a reviewer one at a time; approving moves on to the *)
(* next stage, asking for revisions makes another draft of the same stage, *)
(* rejecting ends the run for good.  Only the last approval publishes.     *)
(***************************************************************************)
EXTENDS Naturals

CONSTANT Stages   \* number of review stages, at least one

VARIABLES
  phase,   \* what the run is doing
  stage,   \* the stage it is in
  drafts   \* drafts of this stage put before the reviewer so far

vars == <<phase, stage, drafts>>

Phases == {"drafting", "in_review", "publishing", "approved", "rejected", "failed"}

Init == phase = "drafting" /\ stage = 1 /\ drafts = 0

\* A generator produces the next draft; it goes to review.
PresentDraft ==
  /\ phase = "drafting"
  /\ phase' = "in_review"
  /\ drafts' = drafts + 1
  /\ UNCHANGED stage

Approve ==
  /\ phase = "in_review"
  /\ IF stage < Stages
     THEN phase' = "drafting" /\ stage' = stage + 1 /\ drafts' = 0
     ELSE phase' = "publishing" /\ UNCHANGED <<stage, drafts>>

RequestRevisions ==
  /\ phase = "in_review"
  /\ phase' = "drafting"
  /\ UNCHANGED <<stage, drafts>>

Reject ==
  /\ phase = "in_review"
  /\ phase' = "rejected"
  /\ UNCHANGED <<stage, drafts>>

Publish ==
  /\ phase = "publishing"
  /\ phase' = "approved"
  /\ UNCHANGED <<stage, drafts>>

\* A generator raises; the run stays where it is.
Fail ==
  /\ phase \in {"drafting", "publishing"}
  /\ phase' = "failed"
  /\ UNCHANGED <<stage, drafts>>

Next ==
  \/ PresentDraft \/ Approve \/ RequestRevisions \/ Reject \/ Publish \/ Fail

\* The system never leaves a reviewer waiting for a draft; reviewers may be
\* as slow as they like.
Fairness == WF_vars(PresentDraft \/ Publish \/ Fail)

Safety == Init /\ [][Next]_vars

Spec == Safety /\ Fairness

=============================================================================
