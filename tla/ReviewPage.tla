------------------------------ MODULE ReviewPage ------------------------------
(***************************************************************************)
(* The review workspace (ui/static/app.js): pages open on one run, in the  *)
(* browsers of its reviewers, as the clients of HitlService.  A page shows *)
(* what its last refresh returned, and a click on a decision is about what *)
(* the page shows; the request it sends names the run and nothing else.    *)
(*                                                                         *)
(* GET /runs/{id} reads the status and the checkpoint one after the other; *)
(* its answer is applied some time later.  The other reads of a refresh    *)
(* are displayed only.  A GET, or the answer to a POST, may be lost        *)
(* (MaxFailures); a POST that is lost itself leaves the page as it was.    *)
(* The requests of HitlService do not crash or raise here                  *)
(* (PageAssumption), so that the runner answers with an error exactly when *)
(* it refuses.                                                             *)
(***************************************************************************)
EXTENDS HitlService

CONSTANTS
  Pages,        \* pages open on the run
  Slots,        \* bound: refreshes a page has under way
  MaxRefreshes, \* bound: clicks on Refresh
  MaxFailures,  \* bound: refreshes that fail and answers that are lost
  MayMiss,      \* whether these may be the answer to a decision or the refresh
                \* that ends submitDecision
  Patient       \* whether users click only when their page awaits nothing

ASSUME PageAssumption ==
  /\ ~Serial /\ ~MayRaise /\ MaxCrashes = 0
  /\ MaxRefreshes \in Nat /\ MaxFailures \in Nat
  /\ MayMiss \in BOOLEAN /\ Patient \in BOOLEAN

VARIABLES
  detail,    \* state.detail: status and pending artefact, None before the first
  enabled,   \* whether the decision buttons are enabled
  posting,   \* posting[p]: requests whose response page p awaits
  reading,   \* reading[p][k]: a refresh under way, else None
  decided,   \* history: what was shown when each decision was clicked
  refreshes, failures  \* clicks on Refresh and failures so far

page == <<detail, enabled, posting, reading, decided, refreshes, failures>>
pageVars == <<vars, page>>

\* A refresh: where it is, what it has read, whether submitDecision awaits it.
Read == [step : {"run", "pending", "answer"}, status : Statuses \cup {None},
         draft : Draft \cup {None}, submitted : BOOLEAN]

PageInit ==
  /\ Init
  /\ detail = [p \in Pages |-> None]
  /\ enabled = [p \in Pages |-> FALSE]
  /\ posting = [p \in Pages |-> {}]
  /\ reading = [p \in Pages |-> [k \in Slots |-> None]]
  /\ decided = {}
  /\ refreshes = 0 /\ failures = 0

Quiet(p) == posting[p] = {} /\ \A k \in Slots : reading[p][k] = None

\* The user of page p clicks.
Clicks(p) == Patient => Quiet(p)

\* setDecisionEnabled(detail?.run?.status === "waiting_for_review")
Reviewable(d) == d # None /\ d.status = "waiting_for_review"

-----------------------------------------------------------------------------
\* refreshRun begins in slot k.
BeginRefresh(p, k, submitted) ==
  /\ reading[p][k] = None
  /\ reading' = [reading EXCEPT ![p][k] =
       [step |-> "run", status |-> None, draft |-> None, submitted |-> submitted]]

\* The form is submitted: POST /runs.
StartRun(p) ==
  /\ Send(Start)
  /\ posting' = [posting EXCEPT ![p] = @ \cup {Start}]
  /\ UNCHANGED <<detail, enabled, reading, decided, refreshes, failures>>

\* The Refresh button, or the page opened by its link.
Refresh(p) ==
  /\ status # None /\ Clicks(p)
  /\ refreshes < MaxRefreshes
  /\ refreshes' = refreshes + 1
  /\ \E k \in Slots : BeginRefresh(p, k, FALSE)
  /\ UNCHANGED <<vars, detail, enabled, posting, decided, failures>>

\* A decision button: submitDecision disables the buttons and posts.
SubmitDecision(p, r) ==
  /\ enabled[p] /\ Clicks(p)
  /\ Send(r)
  /\ enabled' = [enabled EXCEPT ![p] = FALSE]
  /\ posting' = [posting EXCEPT ![p] = @ \cup {r}]
  /\ decided' = decided \cup {[by |-> r, draft |-> detail[p].draft]}
  /\ UNCHANGED <<detail, reading, refreshes, failures>>

\* The runner did not refuse the request.
Accepted(r) == r = Start \/ \E e \in recorded : e.by = r

\* Mutant: the buttons are enabled as soon as the response is there (finally).
ResponseEnabling(p, r) ==
  /\ r \in posting[p] /\ pc[r] = "done"
  /\ posting' = [posting EXCEPT ![p] = @ \ {r}]
  /\ enabled' = [enabled EXCEPT ![p] = Reviewable(detail[p])]
  /\ UNCHANGED <<vars, reading, detail, decided, refreshes, failures>>

\* The response: a refresh after success; after an error the buttons are
\* enabled again if the detail at hand says that the run waits.
Response(p, r) ==
  /\ r \in posting[p] /\ pc[r] = "done"
  /\ posting' = [posting EXCEPT ![p] = @ \ {r}]
  /\ IF Accepted(r)
     THEN (\E k \in Slots : BeginRefresh(p, k, r # Start)) /\ UNCHANGED enabled
     ELSE /\ enabled' = [enabled EXCEPT ![p] = Reviewable(detail[p])]
          /\ UNCHANGED reading
  /\ UNCHANGED <<vars, detail, decided, refreshes, failures>>

\* The answer to a POST is lost on its way: api() throws, whatever the runner
\* has done.  The user who started a run comes back to it by its link.  (A
\* connection that breaks while the runner is at work is not modelled: what a
\* second request then meets is the race of HitlService.)
AnswerLost(p, r) ==
  /\ failures < MaxFailures
  /\ failures' = failures + 1
  /\ r \in posting[p] /\ pc[r] = "done"
  /\ r \in Reviews => MayMiss
  /\ posting' = [posting EXCEPT ![p] = @ \ {r}]
  /\ enabled' = IF r \in Reviews
                THEN [enabled EXCEPT ![p] = Reviewable(detail[p])] ELSE enabled
  /\ UNCHANGED <<vars, detail, reading, decided, refreshes>>

\* get_run_detail reads the run row ...
ReadRun(p, k) ==
  /\ reading[p][k] # None /\ reading[p][k].step = "run"
  /\ reading' = [reading EXCEPT ![p][k].step = "pending", ![p][k].status = status]
  /\ UNCHANGED <<vars, detail, enabled, posting, decided, refreshes, failures>>

\* ... and, if it waits for review, the pending artefact from the checkpoint.
ReadPending(p, k) ==
  /\ reading[p][k] # None /\ reading[p][k].step = "pending"
  /\ reading' = [reading EXCEPT
       ![p][k].step = "answer",
       ![p][k].draft = IF reading[p][k].status = "waiting_for_review"
                       THEN checkpoint.draft ELSE None]
  /\ UNCHANGED <<vars, detail, enabled, posting, decided, refreshes, failures>>

\* The answers of a refresh are shown, older than what is shown already or not.
ShowAnswer(p, k) ==
  /\ reading[p][k] # None /\ reading[p][k].step = "answer"
  /\ detail' = [detail EXCEPT ![p] =
       [status |-> reading[p][k].status, draft |-> reading[p][k].draft]]
  /\ enabled' = [enabled EXCEPT ![p] = reading[p][k].status = "waiting_for_review"]
  /\ reading' = [reading EXCEPT ![p][k] = None]
  /\ UNCHANGED <<vars, posting, decided, refreshes, failures>>

\* A refresh fails.  Within submitDecision its error is handled like that of
\* the POST, although the decision was taken.
RefreshFails(p, k) ==
  /\ failures < MaxFailures
  /\ failures' = failures + 1
  /\ reading[p][k] # None
  /\ reading[p][k].submitted => MayMiss
  /\ reading' = [reading EXCEPT ![p][k] = None]
  /\ enabled' = IF reading[p][k].submitted
                THEN [enabled EXCEPT ![p] = Reviewable(detail[p])] ELSE enabled
  /\ UNCHANGED <<vars, detail, posting, decided, refreshes>>

-----------------------------------------------------------------------------
PageStep(p) ==
  \/ StartRun(p)
  \/ Refresh(p)
  \/ \E r \in Reviews : SubmitDecision(p, r)
  \/ \E r \in Requests : Response(p, r) \/ AnswerLost(p, r)
  \/ \E k \in Slots : ReadRun(p, k) \/ ReadPending(p, k) \/ ShowAnswer(p, k) \/ RefreshFails(p, k)

ServiceStep == (\E r \in Requests : Handle(r)) /\ UNCHANGED page

PageNext == ServiceStep \/ \E p \in Pages : PageStep(p)

PageSpec == PageInit /\ [][PageNext]_pageVars

-----------------------------------------------------------------------------
\* Properties

\* A decision is applied to the artefact its reviewer was looking at when
\* clicking, which is also the one in the audit trail.  The page's request does
\* not name it: this rests on the page never offering a decision about an
\* artefact the run has left behind, and never sending two at a time.
AppliedAsShown ==
  \A a \in applied :
    /\ a \in recorded
    /\ \E c \in decided : c.by = a.by /\ c.draft = a.draft

=============================================================================
