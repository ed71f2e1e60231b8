--------------------------- MODULE HitlSerialProofs ---------------------------
(***************************************************************************)
(* Proofs about clients that wait for each response: one request at a time *)
(* for the run, with crashes at any point and nodes that raise, for any    *)
(* number of stages and of requests.                                       *)
(*                                                                         *)
(* HitlServiceProofs shows what races leave standing; without them the     *)
(* status row, the audit trail and the checkpoint also agree.  What a      *)
(* request read is still so when it uses it (Alone), also when an earlier  *)
(* one was cut off at any step.  With that, the runner implements the      *)
(* review lifecycle, which is the second part of the module.               *)
(***************************************************************************)
EXTENDS HitlServiceProofs

-----------------------------------------------------------------------------
\* The inductive invariant, beside IInv

\* Steps of requests that have not looked at the run yet, or are over.
Outside == {"ready", "check", "done", "dead"}

\* Steps at which a request has changed neither status nor graph.
Untouched == Outside \cup {"snapshot", "record"}

\* The draft at the gate, if the state is at one, has not been decided on.
Fresh(c, decisions) == c.node = "gate" => \A a \in decisions : a.draft # c.draft

\* The run is at a gate whose draft is to be decided on.
AwaitsReview == checkpoint # None /\ checkpoint.node = "gate" /\ Fresh(checkpoint, applied)

\* r is about to mark the run RUNNING, or has, and has not loaded the graph.
Marking(r) ==
  pc[r] \in {"read_status", "write_status", "load"} /\ local[r].graph = None

\* r's invocation has ended; the status it came to is not written.
Syncing(r) ==
  \/ pc[r] \in {"sync_snapshot", "sync_check"}
  \/ pc[r] \in {"read_status", "write_status"} /\ local[r].graph # None

OneAtATime == \A q, r \in Active : q = r

\* What r read or did before is still so.
Alone(r) ==
  /\ pc[r] \in {"snapshot", "record"} => status = "waiting_for_review"
  /\ pc[r] = "record" => local[r].seen = checkpoint.draft
  /\ pc[r] = "write_status" => local[r].previous = status
  /\ Marking(r) /\ pc[r] # "load" =>
       local[r].target = "running" /\ status \in {"created", "waiting_for_review"}
  /\ (Marking(r) \/ pc[r] = "resume") /\ r \in Reviews =>
       /\ AwaitsReview
       /\ [by |-> r, draft |-> checkpoint.draft, decision |-> local[r].asked] \in recorded
  /\ pc[r] \in {"load", "checkpoint", "resume", "run"} \/ Syncing(r) => status = "running"
  /\ pc[r] \in {"resume", "run"} \/ Syncing(r) => local[r].graph = checkpoint
  /\ pc[r] \in {"checkpoint", "run"} \/ Syncing(r) => Fresh(local[r].graph, applied)
  /\ pc[r] = "run" => local[r].graph.node \notin {"gate", "end"}
  /\ Syncing(r) => local[r].graph.node \in {"gate", "end"}
  /\ Syncing(r) /\ pc[r] # "sync_snapshot" => local[r].target = StatusOf(checkpoint)
  /\ Rejected(applied) /\ pc[r] \notin Outside =>
       local[r].graph # None /\ local[r].graph.node \in {"terminated", "end"}

\* The status row, the audit trail and the checkpoint agree.
Agreement ==
  /\ status = "waiting_for_review" => AwaitsReview /\ ~Rejected(applied)
  /\ pc[Start] \in {"ready", "create"} => status = None
  /\ (\A r \in Requests : pc[r] \in Untouched) /\ ~raised /\ crashes = 0 /\ status # None
       => status = StatusOf(checkpoint)
  /\ ~Presented(checkpoint) => applied = {}
  /\ applied \subseteq recorded
  /\ OneDecisionPerDraft
  /\ \A a \in applied : a.draft.version <= latest[a.draft.stage]

SInv == OneAtATime /\ Agreement /\ \A r \in Requests : Alone(r)

-----------------------------------------------------------------------------
\* What the steps share

\* Types, and what IInv says of one request, as they are used below.
LEMMA Request ==
  ASSUME IInv, NEW r \in Requests
  PROVE  /\ pc \in [Requests -> Steps] /\ local \in [Requests -> Locals]
         /\ local[r] \in Locals
         /\ Placed(r) /\ Opened(r) /\ Sound(local[r].graph, applied, latest, published)
         /\ r \in Reviews \/ r = Start
BY DEF IInv, TypeOK, RequestOK, Locals, Requests

\* The only request in flight is alone.
LEMMA OthersIdle ==
  ASSUME OneAtATime, NEW r \in Requests, pc[r] \notin {"ready", "done", "dead"},
         NEW q \in Requests \ {r}
  PROVE  pc[q] \in {"ready", "done", "dead"}
BY DEF OneAtATime, Active

\* A request that is outside relies on nothing.
LEMMA OutsideAlone ==
  ASSUME NEW q, pc'[q] \in Outside
  PROVE  Alone(q)'
BY DEF Alone, Marking, Syncing, Outside

\* A step of the only request in flight is about that request and the tables.
LEMMA StepAlone ==
  ASSUME SInv, NEW r \in Requests,
         \A q \in Requests \ {r} : pc[q] \in {"ready", "done", "dead"} /\ pc'[q] = pc[q],
         Agreement', Alone(r)'
  PROVE  SInv'
<1>1. OneAtATime'
  BY DEF OneAtATime, Active
<1>2. ASSUME NEW q \in Requests \ {r} PROVE Alone(q)'
  BY <1>2, OutsideAlone DEF Outside
<1>. QED
  BY <1>1, <1>2 DEF SInv

\* A step that moves one request, and it alone, leaves the tables in agreement.
LEMMA MoveAgrees ==
  ASSUME Agreement, UNCHANGED <<data, raised, crashes>>, NEW r \in Requests,
         \A q \in Requests \ {r} : pc'[q] = pc[q],
         r = Start /\ pc'[r] \in {"ready", "create"} => status = None,
         pc'[r] \in Untouched => pc[r] \in Untouched \/ status = None \/ status = StatusOf(checkpoint)
  PROVE  Agreement'
<1>1. pc'[Start] \in {"ready", "create"} => status = None
  BY DEF Agreement, Requests
<1>2. (\A q \in Requests : pc'[q] \in Untouched) =>
        \/ \A q \in Requests : pc[q] \in Untouched
        \/ status = None \/ status = StatusOf(checkpoint)
  BY DEF Untouched
<1>. QED
  BY <1>1, <1>2 DEF Agreement, AwaitsReview, OneDecisionPerDraft, data

\* A run that has a status has been created.
LEMMA Created ==
  ASSUME IInv, Agreement, status # None
  PROVE  pc[Start] \notin {"ready", "create"}
BY DEF Agreement

-----------------------------------------------------------------------------
\* The steps, one lemma each

\* Nothing to disagree about at the start.
LEMMA InitSerial == Init => SInv
<1>. SUFFICES ASSUME Init PROVE SInv
  OBVIOUS
<1>1. \A r \in Requests : pc[r] = "ready"
  BY DEF Init
<1>2. OneAtATime
  BY <1>1 DEF OneAtATime, Active
<1>3. Agreement
  BY NoneAssumption DEF Init, Agreement, OneDecisionPerDraft, Statuses
<1>4. ASSUME NEW r \in Requests PROVE Alone(r)
  BY <1>1 DEF Alone, Marking, Syncing, Outside
<1>. QED
  BY <1>2, <1>3, <1>4 DEF SInv

\* A client that waits finds nobody in flight.
LEMMA SendSerial ==
  ASSUME Active = {}, IInv, SInv, NEW r \in Requests, Send(r)
  PROVE  SInv'
<1>1. \A q \in Requests : pc[q] \in {"ready", "done", "dead"}
  BY DEF Active
<1>2. /\ pc[r] = "ready" /\ \A q \in Requests \ {r} : pc'[q] = pc[q]
      /\ pc'[r] = IF r = Start THEN "create" ELSE "check"
      /\ UNCHANGED <<data, raised, crashes>>
  BY Request DEF Send, Goto
<1>3. Agreement'
  <2>1. r = Start => status = None
    BY <1>2 DEF SInv, Agreement
  <2>. QED
    BY <1>2, <2>1, MoveAgrees DEF SInv, Untouched, Outside
<1>4. Alone(r)'
  <2>1. CASE r # Start
    BY <1>2, <2>1, OutsideAlone DEF Outside
  <2>2. CASE r = Start
    <3>1. pc'[r] = "create" /\ local[r].graph = None
      BY <1>2, <2>2, Request DEF Placed
    <3>2. ~Presented(checkpoint)
      BY <1>2, <2>2, <3>1, Request DEF Opened
    <3>3. applied' = {}
      BY <1>2, <3>2 DEF SInv, Agreement, data
    <3>. QED
      BY <3>1, <3>3 DEF Alone, Marking, Syncing, Rejected
  <2>. QED
    BY <2>1, <2>2
<1>. QED
  BY <1>1, <1>2, <1>3, <1>4, StepAlone

\* The run is created before anything is decided about it.
LEMMA CreateRunSerial ==
  ASSUME IInv, SInv, NEW r \in Requests, CreateRun(r)
  PROVE  SInv'
<1>1. /\ pc[r] = "create" /\ r = Start /\ local[r].graph = None /\ r \notin Reviews
      /\ status' = "created" /\ pc' = [pc EXCEPT ![r] = "read_status"]
      /\ local' = [local EXCEPT ![r].target = "running"]
      /\ UNCHANGED <<checkpoint, latest, recorded, applied, raised, crashes>>
  BY Request, RequestAssumption DEF CreateRun, Goto, Placed
<1>2. /\ pc'[r] = "read_status" /\ local'[r].graph = None /\ local'[r].target = "running"
      /\ \A q \in Requests \ {r} : pc'[q] = pc[q]
  BY <1>1, Request DEF Locals
<1>3. ~Rejected(applied)
  BY <1>1 DEF SInv, Alone, Outside
<1>4. Agreement'
  BY <1>1, <1>2 DEF SInv, Agreement, OneDecisionPerDraft, Untouched, Outside
<1>5. Alone(r)'
  BY <1>1, <1>2, <1>3 DEF Alone, Marking, Syncing
<1>. QED
  BY <1>1, <1>2, <1>4, <1>5, OthersIdle, StepAlone DEF SInv

\* A review is let through to a gate whose draft is to be decided on.
LEMMA CheckStatusSerial ==
  ASSUME IInv, SInv, NEW r \in Requests, CheckStatus(r)
  PROVE  SInv'
<1>1. /\ pc[r] = "check" /\ UNCHANGED <<data, raised, crashes>>
      /\ \A q \in Requests \ {r} : pc'[q] = pc[q]
      /\ pc'[r] = IF status = "waiting_for_review" THEN "snapshot" ELSE "done"
  BY Request DEF CheckStatus, Goto, Ends
<1>2. Agreement'
  BY <1>1, MoveAgrees DEF SInv, Untouched, Outside
<1>3. Alone(r)'
  <2>1. CASE status = "waiting_for_review"
    <3>1. ~Rejected(applied) /\ pc'[r] = "snapshot" /\ status' = status /\ applied' = applied
      BY <1>1, <2>1 DEF SInv, Agreement, data
    <3>. QED
      BY <2>1, <3>1 DEF Alone, Marking, Syncing
  <2>2. CASE status # "waiting_for_review"
    BY <1>1, <2>2, OutsideAlone DEF Outside
  <2>. QED
    BY <2>1, <2>2
<1>. QED
  BY <1>1, <1>2, <1>3, OthersIdle, StepAlone DEF SInv

\* The snapshot is of the gate that the status promised.
LEMMA ReadSnapshotSerial ==
  ASSUME IInv, SInv, NEW r \in Requests, ReadSnapshot(r)
  PROVE  SInv'
<1>1. /\ pc[r] = "snapshot" /\ UNCHANGED <<data, raised, crashes>>
      /\ pc' = [pc EXCEPT ![r] = "record"]
      /\ local' = [local EXCEPT ![r].seen = checkpoint.draft]
  BY DEF ReadSnapshot, Goto
<1>2. /\ pc'[r] = "record" /\ local'[r].seen = checkpoint.draft
      /\ \A q \in Requests \ {r} : pc'[q] = pc[q]
  BY <1>1, Request DEF Locals
<1>3. status = "waiting_for_review" /\ ~Rejected(applied)
  BY <1>1 DEF SInv, Alone, Agreement
<1>4. Agreement'
  BY <1>1, <1>2, MoveAgrees DEF SInv, Untouched, Outside
<1>5. Alone(r)'
  BY <1>1, <1>2, <1>3 DEF Alone, Marking, Syncing, data
<1>. QED
  BY <1>1, <1>2, <1>4, <1>5, OthersIdle, StepAlone DEF SInv

\* The decision is recorded for the draft at the gate.
LEMMA RecordReviewSerial ==
  ASSUME IInv, SInv, NEW r \in Requests, RecordReview(r)
  PROVE  SInv'
<1>. DEFINE e == [by |-> r, draft |-> checkpoint.draft, decision |-> local[r].asked]
<1>1. /\ pc[r] = "record" /\ pc' = [pc EXCEPT ![r] = "read_status"]
      /\ local' = [local EXCEPT ![r].seen = None, ![r].target = "running"]
      /\ UNCHANGED <<status, checkpoint, latest, applied, raised, crashes>>
  BY DEF RecordReview, Goto
<1>2. local[r].seen = checkpoint.draft /\ status = "waiting_for_review" /\ local[r].graph = None
  BY <1>1, Request DEF SInv, Alone, Placed
<1>3. AwaitsReview /\ ~Rejected(applied)
  BY <1>2 DEF SInv, Agreement
<1>4. recorded' = recorded \cup {e}
  BY <1>2 DEF RecordReview
<1>5. /\ pc'[r] = "read_status" /\ local'[r].graph = None /\ local'[r].target = "running"
      /\ local'[r].asked = local[r].asked
      /\ \A q \in Requests \ {r} : pc'[q] = pc[q]
  BY <1>1, <1>2, Request DEF Locals
<1>6. Agreement'
  <2>1. status # None
    BY <1>2, NoneAssumption DEF Statuses
  <2>2. pc'[Start] \notin {"ready", "create"}
    BY <1>5, <2>1, Created DEF SInv, Requests
  <2>. QED
    BY <1>1, <1>3, <1>4, <1>5, <2>2
    DEF SInv, Agreement, OneDecisionPerDraft, AwaitsReview, Untouched, Outside
<1>7. AwaitsReview' /\ [by |-> r, draft |-> checkpoint'.draft, decision |-> local'[r].asked] \in recorded'
  <2>1. AwaitsReview'
    BY <1>1, <1>3 DEF AwaitsReview
  <2>2. [by |-> r, draft |-> checkpoint'.draft, decision |-> local'[r].asked] = e
    BY <1>1, <1>5
  <2>. HIDE DEF e
  <2>. QED
    BY <1>4, <2>1, <2>2
<1>. HIDE DEF e
<1>8. Alone(r)'
  BY <1>1, <1>2, <1>3, <1>5, <1>7 DEF Alone, Marking, Syncing
<1>. QED
  BY <1>1, <1>5, <1>6, <1>8, OthersIdle, StepAlone DEF SInv

\* The status read is the one that will be compared: nobody else writes it.
LEMMA ReadStatusSerial ==
  ASSUME IInv, SInv, NEW r \in Requests, ReadStatus(r)
  PROVE  SInv'
<1>1. /\ pc[r] = "read_status" /\ UNCHANGED <<data, raised, crashes>>
      /\ pc' = [pc EXCEPT ![r] = "write_status"]
      /\ local' = [local EXCEPT ![r].previous = status]
  BY DEF ReadStatus, Goto
<1>2. /\ pc'[r] = "write_status" /\ local'[r].previous = status
      /\ local'[r].graph = local[r].graph /\ local'[r].target = local[r].target
      /\ local'[r].asked = local[r].asked
      /\ \A q \in Requests \ {r} : pc'[q] = pc[q]
  BY <1>1, Request DEF Locals
<1>3. Agreement'
  BY <1>1, <1>2, MoveAgrees DEF SInv, Untouched, Outside
<1>4. /\ Marking(r)' <=> Marking(r)
      /\ Syncing(r)' <=> Syncing(r)
      /\ AwaitsReview' <=> AwaitsReview
  BY <1>1, <1>2 DEF Marking, Syncing, AwaitsReview, data
<1>5. Alone(r)
  BY DEF SInv
<1>6. Alone(r)'
  BY <1>1, <1>2, <1>4, <1>5 DEF Alone, Outside, data
<1>. QED
  BY <1>1, <1>2, <1>3, <1>6, OthersIdle, StepAlone DEF SInv

\* Where an invocation has come to, its status is not RUNNING.
LEMMA EndOfInvocation ==
  ASSUME IInv, SInv, NEW r \in Requests, Syncing(r)
  PROVE  /\ status = "running" /\ checkpoint # None /\ Fresh(checkpoint, applied)
         /\ checkpoint.node \in {"gate", "end"}
         /\ checkpoint.node = "gate" => ~Rejected(applied)
         /\ StatusOf(checkpoint) \in {"waiting_for_review", "approved", "terminated"}
         /\ StatusOf(checkpoint) = "waiting_for_review" => checkpoint.node = "gate"
<1>1. /\ status = "running" /\ local[r].graph = checkpoint /\ Fresh(checkpoint, applied)
      /\ checkpoint.node \in {"gate", "end"}
  BY DEF SInv, Alone
<1>2. checkpoint # None
  BY <1>1, Request DEF Syncing, Placed
<1>3. checkpoint.node = "gate" => ~Rejected(applied)
  BY <1>1 DEF SInv, Alone, Syncing, Outside
<1>4. checkpoint.node = "end" => checkpoint.decision \in {"approve", "reject"}
  BY <1>2 DEF IInv, SharedOK, Sound
<1>. QED
  BY <1>1, <1>2, <1>3, <1>4 DEF StatusOf

\* The run is marked RUNNING while it is at the gate, or given the status that
\* its checkpoint stands for.
LEMMA WriteStatusSerial ==
  ASSUME IInv, SInv, NEW r \in Requests, WriteStatus(r)
  PROVE  SInv'
<1>1. /\ pc[r] = "write_status" /\ local[r].previous = status
      /\ UNCHANGED <<checkpoint, latest, published, recorded, applied, raised, crashes>>
  BY DEF WriteStatus, SInv, Alone
<1>2. CASE local[r].graph = None
  <2>1. /\ pc' = [pc EXCEPT ![r] = "load"]
        /\ local' = [local EXCEPT ![r].target = None, ![r].previous = None]
    BY <1>2 DEF WriteStatus, Goto
  <2>2. /\ pc'[r] = "load" /\ local'[r].graph = None /\ local'[r].asked = local[r].asked
        /\ \A q \in Requests \ {r} : pc'[q] = pc[q]
    BY <1>2, <2>1, Request DEF Locals
  <2>3. Marking(r)
    BY <1>1, <1>2 DEF Marking
  <2>4. local[r].target = "running" /\ status \in {"created", "waiting_for_review"} /\ ~Rejected(applied)
    BY <1>1, <1>2, <2>3 DEF SInv, Alone, Outside
  <2>5. status' = "running"
    BY <1>1, <2>4 DEF WriteStatus
  <2>6. Agreement'
    <3>1. status # None
      BY <2>4, NoneAssumption DEF Statuses
    <3>2. pc'[Start] \notin {"ready", "create"}
      BY <2>2, <3>1, Created DEF SInv, Requests
    <3>. QED
      BY <1>1, <2>2, <2>5, <3>2 DEF SInv, Agreement, OneDecisionPerDraft, Untouched, Outside
  <2>7. r \in Reviews => /\ AwaitsReview
                        /\ [by |-> r, draft |-> checkpoint.draft, decision |-> local[r].asked] \in recorded
    BY <2>3 DEF SInv, Alone
  <2>8. Alone(r)'
    BY <1>1, <2>2, <2>4, <2>5, <2>7 DEF Alone, Marking, Syncing, AwaitsReview
  <2>. QED
    BY <1>1, <2>2, <2>6, <2>8, OthersIdle, StepAlone DEF SInv
<1>3. CASE local[r].graph # None
  <2>1. pc'[r] = "done" /\ \A q \in Requests \ {r} : pc'[q] = pc[q]
    BY <1>3, Request DEF WriteStatus, Ends, Goto
  <2>2. Syncing(r)
    BY <1>1, <1>3 DEF Syncing
  <2>3. local[r].target = StatusOf(checkpoint)
    BY <1>1, <2>2 DEF SInv, Alone
  <2>4. status' = StatusOf(checkpoint) /\ StatusOf(checkpoint') = StatusOf(checkpoint)
    BY <1>1, <2>2, <2>3, EndOfInvocation DEF WriteStatus
  <2>5. status' = "waiting_for_review" => AwaitsReview' /\ ~Rejected(applied')
    BY <1>1, <2>2, <2>4, EndOfInvocation DEF AwaitsReview
  <2>6. Agreement'
    <3>1. status # None
      BY <2>2, EndOfInvocation, NoneAssumption DEF Statuses
    <3>2. pc'[Start] \notin {"ready", "create"}
      BY <2>1, <3>1, Created DEF SInv, Requests
    <3>. QED
      BY <1>1, <2>4, <2>5, <3>2 DEF SInv, Agreement, OneDecisionPerDraft
  <2>7. Alone(r)'
    BY <2>1, OutsideAlone DEF Outside
  <2>. QED
    BY <1>1, <2>1, <2>6, <2>7, OthersIdle, StepAlone DEF SInv
<1>. QED
  BY <1>2, <1>3

\* An invocation for a review finds the gate it was recorded at.
LEMMA LoadSerial ==
  ASSUME IInv, SInv, NEW r \in Requests, Load(r)
  PROVE  SInv'
<1>1. /\ pc[r] = "load" /\ local[r].graph = None /\ UNCHANGED <<data, raised, crashes>>
  BY Request DEF Load, Placed
<1>2. Marking(r) /\ status = "running" /\ ~Rejected(applied)
  BY <1>1 DEF SInv, Alone, Marking, Outside
<1>3. CASE r = Start
  <2>1. /\ pc' = [pc EXCEPT ![r] = "checkpoint"] /\ local' = [local EXCEPT ![r].graph = Initial]
    BY <1>3 DEF Load, Goto, Initial
  <2>2. /\ pc'[r] = "checkpoint" /\ local'[r].graph = Initial
        /\ \A q \in Requests \ {r} : pc'[q] = pc[q]
    BY <2>1, Request DEF Locals
  <2>3. Agreement'
    BY <1>1, <2>2, MoveAgrees DEF SInv, Untouched, Outside
  <2>4. Fresh(Initial, applied)
    BY DEF Fresh, Initial
  <2>5. Alone(r)'
    BY <1>1, <1>2, <2>2, <2>4 DEF Alone, Marking, Syncing, data
  <2>. QED
    BY <1>1, <2>2, <2>3, <2>5, OthersIdle, StepAlone DEF SInv
<1>4. CASE r # Start
  <2>1. /\ r \in Reviews /\ AwaitsReview
        /\ [by |-> r, draft |-> checkpoint.draft, decision |-> local[r].asked] \in recorded
    BY <1>2, <1>4, Request DEF SInv, Alone
  <2>2. /\ pc' = [pc EXCEPT ![r] = "resume"] /\ local' = [local EXCEPT ![r].graph = checkpoint]
    BY <1>4, <2>1 DEF Load, Goto, AwaitsReview
  <2>3. /\ pc'[r] = "resume" /\ local'[r].graph = checkpoint /\ local'[r].asked = local[r].asked
        /\ \A q \in Requests \ {r} : pc'[q] = pc[q]
    BY <2>2, Request DEF Locals
  <2>4. Agreement'
    BY <1>1, <2>3, MoveAgrees DEF SInv, Untouched, Outside
  <2>5. Alone(r)'
    BY <1>1, <1>2, <2>1, <2>3 DEF Alone, Marking, Syncing, AwaitsReview, data
  <2>. QED
    BY <1>1, <2>3, <2>4, <2>5, OthersIdle, StepAlone DEF SInv
<1>. QED
  BY <1>3, <1>4

\* The checkpoint becomes the state of the invocation, and follows it.
LEMMA WriteCheckpointSerial ==
  ASSUME IInv, SInv, NEW r \in Requests, WriteCheckpoint(r)
  PROVE  SInv'
<1>. DEFINE c == local[r].graph
<1>1. /\ pc[r] = "checkpoint" /\ checkpoint' = c
      /\ UNCHANGED <<status, latest, published, recorded, applied, local, raised, crashes>>
      /\ pc'[r] = IF c.node \in {"gate", "end"} THEN "sync_snapshot" ELSE "run"
      /\ \A q \in Requests \ {r} : pc'[q] = pc[q]
  BY Request DEF WriteCheckpoint, Goto
<1>2. /\ status = "running" /\ Fresh(c, applied) /\ c # None
      /\ Rejected(applied) => c.node \in {"terminated", "end"}
  BY <1>1, Request DEF SInv, Alone, Outside, Placed
<1>3. ~Presented(c) => applied = {}
  <2>1. CASE r \in Reviews
    BY <1>2, <2>1, Request DEF Opened, Presented
  <2>2. CASE r = Start
    <3>1. ~Presented(c) => c = Initial
      BY <1>2, Request DEF Sound, Presented
    <3>2. ~Presented(c) => ~Presented(checkpoint)
      BY <1>1, <2>2, <3>1, Request DEF Opened
    <3>. QED
      BY <3>2 DEF SInv, Agreement
  <2>. QED
    BY <2>1, <2>2, Request
<1>. HIDE DEF c
<1>4. Agreement'
  <2>1. status # None
    BY <1>2, NoneAssumption DEF Statuses
  <2>2. pc'[Start] \notin {"ready", "create"}
    BY <1>1, <2>1, Created DEF SInv, Requests
  <2>. QED
    BY <1>1, <1>2, <1>3, <2>2 DEF SInv, Agreement, OneDecisionPerDraft, Untouched, Outside
<1>5. Alone(r)'
  <2>1. local'[r].graph = c
    BY <1>1 DEF c
  <2>. QED
    BY <1>1, <1>2, <2>1 DEF Alone, Marking, Syncing
<1>. QED
  BY <1>1, <1>4, <1>5, OthersIdle, StepAlone DEF SInv

\* What a node returns keeps the agreement if it keeps what concerns the graph.
LEMMA ReturnsSerial ==
  ASSUME IInv, SInv, NEW r \in Requests, pc[r] \in {"resume", "run"},
         NEW state, Returns(r, state), Fresh(state, applied'),
         Rejected(applied') => state # None /\ state.node \in {"terminated", "end"},
         ~Presented(checkpoint) => applied' = {},
         applied' \subseteq recorded, OneDecisionPerDraft',
         \A a \in applied' : a.draft.version <= latest'[a.draft.stage]
  PROVE  SInv'
<1>1. /\ status = "running" /\ pc' = [pc EXCEPT ![r] = "checkpoint"]
      /\ local' = [local EXCEPT ![r].graph = state]
      /\ UNCHANGED <<status, checkpoint, recorded, raised, crashes>>
  BY DEF SInv, Alone, Returns, Goto
<1>2. /\ pc'[r] = "checkpoint" /\ local'[r].graph = state
      /\ \A q \in Requests \ {r} : pc'[q] = pc[q]
  BY <1>1, Request DEF Locals
<1>3. Agreement'
  <2>1. status # None
    BY <1>1, NoneAssumption DEF Statuses
  <2>2. pc'[Start] \notin {"ready", "create"}
    BY <1>2, <2>1, Created DEF SInv, Requests
  <2>. QED
    BY <1>1, <1>2, <2>2 DEF Agreement, Untouched, Outside, Presented
<1>4. Alone(r)'
  BY <1>1, <1>2 DEF Alone, Marking, Syncing
<1>. QED
  BY <1>2, <1>3, <1>4, OthersIdle, StepAlone DEF SInv

\* A decision taken at a gate leads away from it, and to the end if it rejects.
LEMMA DecisionLeaves ==
  ASSUME NEW s, NEW d \in Decisions, s \in 1 .. Stages
  PROVE  /\ AfterDecision(s, d).node # "gate"
         /\ d = "reject" => AfterDecision(s, d).node = "terminated"
<1>1. CASE d = "approve" /\ s < Stages
  BY <1>1 DEF AfterDecision
<1>2. CASE d = "approve" /\ s = Stages
  BY <1>2, StagesAssumption DEF AfterDecision
<1>3. CASE d = "reject"
  BY <1>3 DEF AfterDecision
<1>4. CASE d = "request_revisions"
  BY <1>4 DEF AfterDecision
<1>. QED
  BY <1>1, <1>2, <1>3, <1>4, StagesAssumption DEF Decisions

\* The decision applied is the one recorded, for the draft at the gate, and the
\* first for that draft.
LEMMA ResumeSerial ==
  ASSUME IInv, SInv, NEW r \in Requests, Resume(r)
  PROVE  SInv'
<1>. DEFINE c == checkpoint
            d == local[r].asked
            e == [by |-> r, draft |-> checkpoint.draft, decision |-> local[r].asked]
            n == AfterDecision(checkpoint.stage, local[r].asked)
            c2 == [node |-> n.node, stage |-> n.stage, draft |-> c.draft, decision |-> d]
<1>1. pc[r] = "resume" /\ r \in Reviews /\ local[r].graph = c
  BY Request DEF Resume, SInv, Alone, Placed
<1>2. AwaitsReview /\ e \in recorded
  BY <1>1 DEF SInv, Alone
<1>3. /\ Returns(r, c2) /\ applied' = applied \cup {e} /\ latest' = latest
  BY <1>1 DEF Resume
<1>4. ~Rejected(applied)
  BY <1>1, <1>2 DEF SInv, Alone, Outside, AwaitsReview
<1>5. /\ c \in Checkpoints /\ c.stage \in 1 .. Stages /\ d \in Decisions
      /\ Presented(c) /\ c.draft.stage = c.stage /\ c.draft.version \in 1 .. latest[c.stage]
  BY <1>1, <1>2 DEF IInv, TypeOK, SharedOK, Sound, AwaitsReview, Checkpoints, Presented,
                    RequestOK, Decided
<1>6. n.node # "gate" /\ (d = "reject" => n.node = "terminated")
  BY <1>5, DecisionLeaves
<1>7. e.draft = c.draft /\ e.decision = d /\ c2.node = n.node
  OBVIOUS
<1>8. \A a \in applied : a.draft # c.draft
  BY <1>2 DEF AwaitsReview, Fresh
<1>. HIDE DEF e, n, d
<1>9. c2 # None
  <2>1. n.node \in {"generate", "gate", "approved", "terminated", "end"} /\ n.stage \in 1 .. Stages
    BY <1>5, StagesAssumption DEF n, d, AfterDecision, Decisions
  <2>2. c2 \in Checkpoints
    BY <1>5, <2>1 DEF Checkpoints
  <2>. QED
    BY <2>2, NoneAssumption
<1>. HIDE DEF c2
<1>10. Fresh(c2, applied')
  BY <1>6, <1>7 DEF Fresh
<1>11. Rejected(applied') => c2 # None /\ c2.node \in {"terminated", "end"}
  BY <1>3, <1>4, <1>6, <1>7, <1>9 DEF Rejected
<1>12. OneDecisionPerDraft'
  BY <1>3, <1>7, <1>8 DEF SInv, Agreement, OneDecisionPerDraft
<1>13. \A a \in applied' : a.draft.version <= latest'[a.draft.stage]
  <2>1. latest \in [1 .. Stages -> Nat]
    BY DEF IInv, TypeOK
  <2>2. c.draft.version <= latest[c.draft.stage]
    BY <1>5, <2>1
  <2>3. \A a \in applied : a.draft.version <= latest[a.draft.stage]
    BY DEF SInv, Agreement
  <2>. QED
    BY <1>3, <1>7, <2>2, <2>3
<1>14. applied' \subseteq recorded
  BY <1>2, <1>3 DEF SInv, Agreement
<1>. QED
  BY <1>1, <1>3, <1>5, <1>10, <1>11, <1>12, <1>13, <1>14, ReturnsSerial

\* Nodes between the gates decide nothing.
LEMMA NodeSerial ==
  ASSUME IInv, SInv, NEW r \in Requests, pc[r] = "run",
         NEW state, Returns(r, state), applied' = applied,
         latest' \in [1 .. Stages -> Nat], \A s \in 1 .. Stages : latest[s] <= latest'[s],
         Fresh(state, applied),
         Rejected(applied) => state # None /\ state.node \in {"terminated", "end"}
  PROVE  SInv'
<1>1. \A a \in applied' : a.draft.version <= latest'[a.draft.stage]
  <2>. SUFFICES ASSUME NEW a \in applied PROVE a.draft.version <= latest'[a.draft.stage]
    OBVIOUS
  <2>1. /\ a.draft.stage \in 1 .. Stages /\ a.draft.version \in Nat
        /\ latest \in [1 .. Stages -> Nat]
    BY DEF IInv, TypeOK, Draft
  <2>2. a.draft.version <= latest[a.draft.stage]
    BY DEF SInv, Agreement
  <2>. QED
    BY <2>1, <2>2
<1>2. applied' \subseteq recorded /\ (~Presented(checkpoint) => applied' = {}) /\ OneDecisionPerDraft'
  BY DEF SInv, Agreement, OneDecisionPerDraft
<1>. QED
  BY <1>1, <1>2, ReturnsSerial

\* The node an invocation is to run, and what a rejection leaves it.
LEMMA NodeToRun ==
  ASSUME IInv, SInv, NEW r \in Requests, pc[r] = "run"
  PROVE  /\ status = "running" /\ local[r].graph = checkpoint /\ checkpoint # None
         /\ local[r].graph.stage \in 1 .. Stages /\ latest \in [1 .. Stages -> Nat]
         /\ Rejected(applied) => local[r].graph.node = "terminated"
<1>1. /\ status = "running" /\ local[r].graph = checkpoint /\ local[r].graph # None
      /\ local[r].graph.node \notin {"gate", "end"}
      /\ Rejected(applied) => local[r].graph.node \in {"terminated", "end"}
  BY Request DEF SInv, Alone, Outside, Placed
<1>2. local[r].graph.stage \in 1 .. Stages /\ latest \in [1 .. Stages -> Nat]
  BY <1>1 DEF IInv, TypeOK, Checkpoints
<1>. QED
  BY <1>1, <1>2

\* A new draft has a version that nothing was decided about.
LEMMA GenerateSerial ==
  ASSUME IInv, SInv, NEW r \in Requests, Generate(r)
  PROVE  SInv'
<1>. DEFINE s == local[r].graph.stage
            v == latest[s] + 1
            draft == [stage |-> s, version |-> v]
            c2 == [node |-> "gate", stage |-> s, decision |-> None, draft |-> draft]
<1>1. /\ pc[r] = "run" /\ s \in 1 .. Stages /\ latest \in [1 .. Stages -> Nat]
      /\ ~Rejected(applied)
  BY NodeToRun DEF Generate
<1>2. Returns(r, c2) /\ latest' = [latest EXCEPT ![s] = v] /\ applied' = applied
  BY DEF Generate, NewVersion
<1>. HIDE DEF s
<1>3. latest' \in [1 .. Stages -> Nat] /\ \A i \in 1 .. Stages : latest[i] <= latest'[i]
  BY <1>1, <1>2
<1>4. Fresh(c2, applied)
  <2>1. ASSUME NEW a \in applied, a.draft = draft PROVE FALSE
    <3>1. a.draft.stage = s /\ a.draft.version = v
      BY <2>1
    <3>2. a.draft.version <= latest[s]
      BY <3>1 DEF SInv, Agreement
    <3>. QED
      BY <1>1, <3>1, <3>2
  <2>2. c2.draft = draft
    OBVIOUS
  <2>. QED
    BY <2>1, <2>2 DEF Fresh
<1>. HIDE DEF c2, v
<1>. QED
  BY <1>1, <1>2, <1>3, <1>4, NodeSerial

\* Publishing ends the run.
LEMMA MarkApprovedSerial ==
  ASSUME IInv, SInv, NEW r \in Requests, MarkApproved(r)
  PROVE  SInv'
<1>. DEFINE v == latest[Stages] + 1
            c2 == [node |-> "end", stage |-> local[r].graph.stage, decision |-> "approve",
                   draft |-> [stage |-> Stages, version |-> v]]
<1>1. pc[r] = "run" /\ latest \in [1 .. Stages -> Nat] /\ ~Rejected(applied) /\ Stages \in 1 .. Stages
  BY NodeToRun, StagesAssumption DEF MarkApproved
<1>2. Returns(r, c2) /\ latest' = [latest EXCEPT ![Stages] = v] /\ applied' = applied
  BY DEF MarkApproved, NewVersion
<1>3. Fresh(c2, applied)
  BY DEF Fresh
<1>. HIDE DEF c2
<1>4. latest' \in [1 .. Stages -> Nat] /\ \A i \in 1 .. Stages : latest[i] <= latest'[i]
  BY <1>1, <1>2
<1>. QED
  BY <1>1, <1>2, <1>3, <1>4, NodeSerial

\* So does a rejection.
LEMMA MarkTerminatedSerial ==
  ASSUME IInv, SInv, NEW r \in Requests, MarkTerminated(r)
  PROVE  SInv'
<1>. DEFINE c2 == [local[r].graph EXCEPT !.node = "end", !.decision = "reject"]
<1>1. /\ pc[r] = "run" /\ latest \in [1 .. Stages -> Nat] /\ local[r].graph \in Checkpoints
  BY NodeToRun DEF MarkTerminated, IInv, TypeOK
<1>2. Returns(r, c2) /\ latest' = latest /\ applied' = applied
  BY DEF MarkTerminated
<1>3. c2 \in Checkpoints /\ c2.node = "end"
  BY <1>1 DEF Checkpoints, Decisions
<1>. HIDE DEF c2
<1>4. Fresh(c2, applied) /\ c2 # None
  BY <1>3, NoneAssumption DEF Fresh
<1>5. latest' \in [1 .. Stages -> Nat] /\ \A i \in 1 .. Stages : latest[i] <= latest'[i]
  BY <1>1, <1>2
<1>. QED
  BY <1>1, <1>2, <1>3, <1>4, <1>5, NodeSerial

\* A node that raises leaves the run RUNNING, for good.
LEMMA RaiseSerial ==
  ASSUME IInv, SInv, NEW r \in Requests, Raise(r)
  PROVE  SInv'
<1>1. /\ pc[r] = "run" /\ raised' = TRUE
      /\ pc'[r] = "done" /\ \A q \in Requests \ {r} : pc'[q] = pc[q]
      /\ UNCHANGED <<status, checkpoint, published, recorded, applied, crashes>>
  BY Request DEF Raise, Ends, Goto
<1>2. status = "running"
  BY <1>1, NodeToRun
<1>3. \A a \in applied : a.draft.version <= latest'[a.draft.stage]
  <2>. SUFFICES ASSUME NEW a \in applied PROVE a.draft.version <= latest'[a.draft.stage]
    OBVIOUS
  <2>1. /\ a.draft.stage \in 1 .. Stages /\ a.draft.version \in Nat
        /\ latest \in [1 .. Stages -> Nat] /\ local[r].graph.stage \in 1 .. Stages
    BY <1>1, NodeToRun DEF IInv, TypeOK, Draft
  <2>2. a.draft.version <= latest[a.draft.stage]
    BY DEF SInv, Agreement
  <2>3. CASE latest' = latest
    BY <2>2, <2>3
  <2>4. CASE latest' = [latest EXCEPT ![local[r].graph.stage] = @ + 1]
    <3>1. latest[a.draft.stage] \in Nat /\ latest'[a.draft.stage] \in Nat
          /\ latest[a.draft.stage] <= latest'[a.draft.stage]
      BY <2>1, <2>4
    <3>. QED
      BY <2>1, <2>2, <3>1
  <2>. QED
    BY <2>3, <2>4 DEF Raise
<1>4. Agreement'
  <2>1. status # None
    BY <1>2, NoneAssumption DEF Statuses
  <2>2. pc'[Start] \notin {"ready", "create"}
    BY <1>1, <2>1, Created DEF SInv, Requests
  <2>. QED
    BY <1>1, <1>2, <1>3, <2>2 DEF SInv, Agreement, OneDecisionPerDraft
<1>5. Alone(r)'
  BY <1>1, OutsideAlone DEF Outside
<1>. QED
  BY <1>1, <1>4, <1>5, OthersIdle, StepAlone DEF SInv

\* The status worked out is that of the checkpoint the invocation stopped at.
LEMMA SyncSnapshotSerial ==
  ASSUME IInv, SInv, NEW r \in Requests, SyncSnapshot(r)
  PROVE  SInv'
<1>1. /\ pc[r] = "sync_snapshot" /\ UNCHANGED <<data, raised, crashes>>
      /\ pc' = [pc EXCEPT ![r] = "sync_check"]
      /\ local' = [local EXCEPT ![r].target = StatusOf(checkpoint)]
  BY DEF SyncSnapshot, Goto
<1>2. /\ pc'[r] = "sync_check" /\ local'[r].target = StatusOf(checkpoint)
      /\ local'[r].graph = local[r].graph /\ \A q \in Requests \ {r} : pc'[q] = pc[q]
  BY <1>1, Request DEF Locals
<1>3. Agreement'
  BY <1>1, <1>2, MoveAgrees DEF SInv, Untouched, Outside
<1>4. Syncing(r) /\ Alone(r) /\ checkpoint' = checkpoint /\ status' = status /\ applied' = applied
  BY <1>1 DEF SInv, Syncing, data
<1>5. StatusOf(checkpoint') = StatusOf(checkpoint)
  BY <1>4
<1>6. Alone(r)'
  BY <1>1, <1>2, <1>4, <1>5 DEF Alone, Marking, Syncing, Outside
<1>. QED
  BY <1>1, <1>2, <1>3, <1>6, OthersIdle, StepAlone DEF SInv

\* The status row is left alone only if it says so already.
LEMMA SyncCheckSerial ==
  ASSUME IInv, SInv, NEW r \in Requests, SyncCheck(r)
  PROVE  SInv'
<1>1. /\ pc[r] = "sync_check" /\ UNCHANGED <<data, raised, crashes>>
      /\ local[r].graph # None
  BY Request DEF SyncCheck, Placed
<1>2. Syncing(r) /\ local[r].target = StatusOf(checkpoint)
  BY <1>1 DEF SInv, Alone, Syncing
<1>3. CASE status = local[r].target
  <2>1. pc'[r] = "done" /\ \A q \in Requests \ {r} : pc'[q] = pc[q]
    BY <1>3, Request DEF SyncCheck, Ends, Goto
  <2>2. Agreement'
    BY <1>1, <1>2, <1>3, <2>1, MoveAgrees DEF SInv
  <2>3. Alone(r)'
    BY <2>1, OutsideAlone DEF Outside
  <2>. QED
    BY <1>1, <2>1, <2>2, <2>3, OthersIdle, StepAlone DEF SInv
<1>4. CASE status # local[r].target
  <2>1. /\ pc'[r] = "read_status" /\ local' = local
        /\ \A q \in Requests \ {r} : pc'[q] = pc[q]
    BY <1>4, Request DEF SyncCheck, Goto
  <2>2. Agreement'
    BY <1>1, <2>1, MoveAgrees DEF SInv, Untouched, Outside
  <2>3. Alone(r) /\ checkpoint' = checkpoint /\ status' = status /\ applied' = applied
    BY <1>1 DEF SInv, data
  <2>4. StatusOf(checkpoint') = StatusOf(checkpoint)
    BY <2>3
  <2>5. Alone(r)'
    BY <1>1, <1>2, <2>1, <2>3, <2>4 DEF Alone, Marking, Syncing, Outside
  <2>. QED
    BY <1>1, <2>1, <2>2, <2>5, OthersIdle, StepAlone DEF SInv
<1>. QED
  BY <1>3, <1>4

\* A crash leaves nobody in flight, and the tables at whatever they were: what
\* they must agree on does not depend on the request that was cut off.
LEMMA CrashSerial ==
  ASSUME IInv, SInv, Crash
  PROVE  SInv'
<1>1. /\ \A q \in Requests : /\ pc'[q] \in {"ready", "done", "dead"}
                             /\ pc'[q] = "ready" => pc[q] = "ready"
      /\ UNCHANGED data /\ crashes' # 0
  BY DEF Crash, Active, IInv, TypeOK
<1>2. OneAtATime'
  BY <1>1 DEF OneAtATime, Active
<1>3. Agreement'
  <2>1. pc'[Start] \in {"ready", "create"} => pc[Start] = "ready"
    BY <1>1 DEF Requests
  <2>. QED
    BY <1>1, <2>1 DEF SInv, Agreement, AwaitsReview, OneDecisionPerDraft, data
<1>4. ASSUME NEW q \in Requests PROVE Alone(q)'
  BY <1>1, OutsideAlone DEF Outside
<1>. QED
  BY <1>2, <1>3, <1>4 DEF SInv

-----------------------------------------------------------------------------
\* The invariant

\* The invariant is about these variables alone.
LEMMA StutterSerial == ASSUME SInv, UNCHANGED vars PROVE SInv'
<1>1. UNCHANGED <<status, checkpoint, latest, published, recorded, applied, pc, local, raised, crashes>>
  BY DEF vars, data
<1>2. OneAtATime'
  BY <1>1 DEF SInv, OneAtATime, Active
<1>3. Agreement'
  BY <1>1 DEF SInv, Agreement, AwaitsReview, OneDecisionPerDraft
<1>4. ASSUME NEW r \in Requests PROVE Alone(r)'
  <2>1. Alone(r)
    BY DEF SInv
  <2>. QED
    BY <1>1, <2>1 DEF Alone, Marking, Syncing, AwaitsReview
<1>. QED
  BY <1>2, <1>3, <1>4 DEF SInv

\* What a request does once it is sent keeps the invariant.
LEMMA HandleSerial == ASSUME IInv, SInv, NEW r \in Requests, Handle(r) PROVE SInv'
BY CreateRunSerial, CheckStatusSerial, ReadSnapshotSerial, RecordReviewSerial,
   ReadStatusSerial, WriteStatusSerial, LoadSerial, WriteCheckpointSerial, ResumeSerial,
   GenerateSerial, MarkApprovedSerial, MarkTerminatedSerial, RaiseSerial, SyncSnapshotSerial,
   SyncCheckSerial
DEF Handle

\* No step breaks the invariant while clients wait for their responses.
LEMMA NextSerial == Serial /\ IInv /\ SInv /\ [Next]_vars => SInv'
<1>. SUFFICES ASSUME Serial, IInv, SInv, [Next]_vars PROVE SInv'
  OBVIOUS
<1>1. CASE UNCHANGED vars
  BY <1>1, StutterSerial
<1>2. CASE Crash
  BY <1>2, CrashSerial
<1>3. ASSUME NEW r \in Requests, Send(r) PROVE SInv'
  BY <1>3, SendSerial DEF Send
<1>4. ASSUME NEW r \in Requests, Handle(r) PROVE SInv'
  BY <1>4, HandleSerial
<1>. QED
  BY <1>1, <1>2, <1>3, <1>4 DEF Next

\* When clients wait, what a request read is still so when it uses it, and the
\* tables, the checkpoint and the audit trail agree in the sense of SInv.
THEOREM SerialInvariance == Serial => (Spec => [](IInv /\ SInv))
<1>. SUFFICES ASSUME Serial PROVE Spec => [](IInv /\ SInv)
  OBVIOUS
<1>1. Init => IInv /\ SInv
  BY InitOK, InitSerial
<1>2. (IInv /\ SInv) /\ [Next]_vars => (IInv /\ SInv)'
  BY NextOK, NextSerial
<1>. QED
  BY <1>1, <1>2, PTL DEF Spec

\* A run that waits for review is at a gate: the next decision is not lost.
THEOREM WaitsAtAGate == Serial => (Spec => []WaitingAtAGate)
<1>1. SInv => WaitingAtAGate
  BY DEF SInv, Agreement, AwaitsReview, WaitingAtAGate
<1>. QED
  BY <1>1, SerialInvariance, PTL

\* A decision is applied to the version it was recorded for.
THEOREM AuditTrailTrue == Serial => (Spec => []AppliedAsRecorded)
<1>1. SInv => AppliedAsRecorded
  BY DEF SInv, Agreement, AppliedAsRecorded
<1>. QED
  BY <1>1, SerialInvariance, PTL

\* No version is decided on twice, however often a request is cut off between
\* the record of the decision and the graph.
THEOREM DraftsDecidedOnce == Serial => (Spec => []OneDecisionPerDraft)
<1>1. SInv => OneDecisionPerDraft
  BY DEF SInv, Agreement
<1>. QED
  BY <1>1, SerialInvariance, PTL

\* Between requests, if none went wrong, the status row says what the graph is
\* at.
THEOREM StatusTrue == Serial => (Spec => []StatusTellsTheTruth)
<1>1. SInv => StatusTellsTheTruth
  BY DEF SInv, Agreement, StatusTellsTheTruth, Active, Untouched, Outside
<1>. QED
  BY <1>1, SerialInvariance, PTL

-----------------------------------------------------------------------------
\* Final states

\* Nobody works on a run that has a final status.
LEMMA FinalAlone ==
  ASSUME IInv, SInv, status \in {"approved", "terminated"}, NEW r \in Requests
  PROVE  pc[r] \in Outside
<1>1. pc[r] \in Steps /\ Placed(r) /\ Alone(r)
  BY Request DEF SInv
<1>2. pc[r] # "create"
  BY <1>1, NoneAssumption DEF SInv, Agreement, Placed, Statuses
<1>3. pc[r] \notin {"snapshot", "record", "load", "checkpoint", "resume", "run"}
  BY <1>1 DEF Alone
<1>4. pc[r] \notin {"sync_snapshot", "sync_check"}
  BY <1>1 DEF Alone, Syncing
<1>5. pc[r] \notin {"read_status", "write_status"}
  <2>1. CASE local[r].graph = None
    BY <1>1, <2>1 DEF Alone, Marking
  <2>2. CASE local[r].graph # None
    BY <1>1, <2>2 DEF Alone, Syncing
  <2>. QED
    BY <2>1, <2>2
<1>. QED
  BY <1>1, <1>2, <1>3, <1>4, <1>5 DEF Outside, Steps

\* Requests that have not looked at the run, and crashes, leave the tables alone.
LEMMA OutsideQuiet ==
  ASSUME [Next]_vars, \A r \in Requests : pc[r] \in Outside
  PROVE  UNCHANGED data
<1>1. ASSUME NEW r \in Requests, Handle(r) PROVE UNCHANGED data
  <2>1. pc[r] \in Outside
    OBVIOUS
  <2>2. CheckStatus(r)
    BY <1>1, <2>1 DEF Handle, Outside, CreateRun, ReadSnapshot, RecordReview, ReadStatus,
       WriteStatus, Load, WriteCheckpoint, Resume, Generate, MarkApproved, MarkTerminated, Raise,
       SyncSnapshot, SyncCheck
  <2>. QED
    BY <2>2 DEF CheckStatus
<1>2. ASSUME NEW r \in Requests, Send(r) PROVE UNCHANGED data
  BY <1>2 DEF Send
<1>3. Crash => UNCHANGED data
  BY DEF Crash
<1>. QED
  BY <1>1, <1>2, <1>3 DEF Next, vars

\* A final status stays, and so do the checkpoint and the artefacts under it.
THEOREM FinalStays == Serial => (Spec => FinalStatusStays)
<1>1. IInv /\ SInv /\ [Next]_vars =>
        [(status \in {"approved", "terminated"}) =>
            status' = status /\ checkpoint' = checkpoint /\ latest' = latest]_vars
  BY FinalAlone, OutsideQuiet DEF data
<1>. QED
  BY <1>1, SerialInvariance, PTL DEF Spec, FinalStatusStays

\* Nothing is saved after a rejection was applied: the invocation that applied
\* it goes to its end, and nobody starts another.
THEOREM RejectionFinal == Serial => (Spec => RejectIsTerminal)
<1>1. IInv /\ SInv /\ [Next]_vars =>
        [(\E a \in applied : a.decision = "reject") => latest' = latest]_vars
  <2>. SUFFICES ASSUME IInv, SInv, Next, Rejected(applied) PROVE latest' = latest
    BY DEF Rejected, vars, data
  <2>1. ASSUME NEW r \in Requests, pc[r] = "run"
        PROVE  local[r].graph.node \notin {"generate", "approved"}
    BY <2>1, NodeToRun
  <2>2. ASSUME NEW r \in Requests, Send(r) \/ Handle(r) PROVE latest' = latest
    BY <2>1, <2>2 DEF Handle, Send, CreateRun, CheckStatus, ReadSnapshot, RecordReview, ReadStatus,
       WriteStatus, Load, WriteCheckpoint, Resume, Returns, Generate, MarkApproved, MarkTerminated,
       Raise, SyncSnapshot, SyncCheck, data
  <2>3. Crash => latest' = latest
    BY DEF Crash, data
  <2>. QED
    BY <2>2, <2>3 DEF Next
<1>. QED
  BY <1>1, SerialInvariance, PTL DEF Spec, RejectIsTerminal

-----------------------------------------------------------------------------
(***************************************************************************)
(* Proof that the runner, with clients that wait for each response,        *)
(* implements the review lifecycle: with crashes at any point and nodes    *)
(* that raise, for any number of stages and of requests.                   *)
(*                                                                         *)
(* The lifecycle moves when a checkpoint is written, and fails when a node *)
(* raises.  What has to be shown is that the state an invocation writes    *)
(* follows on the checkpoint it replaces (Follows), and that the version   *)
(* the store gives a draft is the number of drafts of its stage (Counted). *)
(***************************************************************************)

\* The inductive invariant, beside IInv and SInv

\* Drafts of its stage that a state has seen.
DraftsOf(c) ==
  IF c.draft = None \/ c.draft.stage # c.stage THEN 0 ELSE c.draft.version

\* The store has the drafts that the state has seen, and none of a later stage.
Counted(c, versions) ==
  c.node # "end" =>
    /\ versions[c.stage] = DraftsOf(c)
    /\ \A s \in c.stage + 1 .. Stages : versions[s] = 0
    /\ c.node = "approved" => c.stage = Stages /\ c.draft # None /\ c.draft.stage = Stages

\* d is what the node that state c is at returns.
Follows(c, d) ==
  \/ d = Initial /\ ~Presented(c)
  \/ /\ c # None
     /\ \/ /\ c.node = "gate"
           /\ \E choice \in Decisions :
                /\ d.node = AfterDecision(c.stage, choice).node
                /\ d.stage = AfterDecision(c.stage, choice).stage
                /\ d.draft = c.draft
        \/ /\ c.node = "generate" /\ d.node = "gate" /\ d.stage = c.stage
           /\ d.draft # None /\ d.draft.stage = d.stage /\ d.draft.version = DraftsOf(c) + 1
        \/ /\ c.node = "approved" /\ d.node = "end" /\ d.decision = "approve"
           /\ d.stage = c.stage /\ c.stage = Stages /\ c.draft # None /\ c.draft.stage = Stages
           /\ d.draft # None /\ d.draft.stage = Stages /\ d.draft.version = DraftsOf(c) + 1
        \/ /\ c.node = "terminated" /\ d.node = "end" /\ d.decision = "reject"
           /\ d.stage = c.stage /\ d.draft = c.draft

\* What a request in flight knows of the count.
InStep(r) ==
  /\ r = Start /\ (pc[r] \in {"ready", "create"} \/ Marking(r)) =>
       \A s \in 1 .. Stages : latest[s] = 0
  /\ (Marking(r) \/ pc[r] = "resume") /\ r \in Reviews => Counted(checkpoint, latest)
  /\ pc[r] \in {"checkpoint", "run"} \/ Syncing(r) => Counted(local[r].graph, latest)
  /\ pc[r] = "checkpoint" => Follows(checkpoint, local[r].graph)

LInv ==
  /\ raised => status = "running" /\ \A r \in Requests : pc[r] \in Outside
  /\ status = "waiting_for_review" => Counted(checkpoint, latest)
  /\ \A r \in Requests : InStep(r)

-----------------------------------------------------------------------------
\* What the steps share

\* A step of one request keeps the count if it keeps what concerns it.
LEMMA StepCounts ==
  ASSUME IInv, SInv, LInv, NEW r \in Requests,
         \A q \in Requests \ {r} : pc[q] \in {"ready", "done", "dead"} /\ pc'[q] = pc[q],
         latest' = latest \/ status # None,
         raised' => raised /\ status' = status /\ pc'[r] \in Outside,
         status' = "waiting_for_review" => Counted(checkpoint', latest'),
         InStep(r)'
  PROVE  LInv'
<1>1. raised' => status' = "running" /\ \A q \in Requests : pc'[q] \in Outside
  BY DEF LInv
<1>2. ASSUME NEW q \in Requests \ {r} PROVE InStep(q)'
  <2>1. pc'[q] \in {"ready", "done", "dead"} /\ pc'[q] = pc[q]
    OBVIOUS
  <2>2. q = Start /\ pc'[q] = "ready" => \A s \in 1 .. Stages : latest'[s] = 0
    BY <2>1, Created DEF SInv, LInv, InStep
  <2>. QED
    BY <2>1, <2>2 DEF InStep, Marking, Syncing
<1>. QED
  BY <1>1, <1>2 DEF LInv

\* Who is at work has not been stopped by a node that raised.
LEMMA AtWork ==
  ASSUME LInv, NEW r \in Requests, pc[r] \notin Outside
  PROVE  ~raised /\ pc[r] \notin {"ready", "done", "dead"}
BY DEF LInv, Outside

-----------------------------------------------------------------------------
\* The steps, one lemma each

\* Nothing is stored at the start.
LEMMA InitCounts == Init => LInv
<1>. SUFFICES ASSUME Init PROVE LInv
  OBVIOUS
<1>1. ~raised /\ status # "waiting_for_review" /\ \A s \in 1 .. Stages : latest[s] = 0
  BY NoneAssumption DEF Init, Statuses
<1>2. ASSUME NEW r \in Requests PROVE InStep(r)
  <2>1. pc[r] = "ready"
    BY DEF Init
  <2>. QED
    BY <1>1, <2>1 DEF InStep, Marking, Syncing
<1>. QED
  BY <1>1, <1>2 DEF LInv

\* Sending a request stores nothing.
LEMMA SendCounts ==
  ASSUME Serial, IInv, SInv, LInv, NEW r \in Requests, Send(r)
  PROVE  LInv'
<1>1. \A q \in Requests : pc[q] \in {"ready", "done", "dead"}
  BY DEF Send, Active
<1>2. /\ pc[r] = "ready" /\ \A q \in Requests \ {r} : pc'[q] = pc[q]
      /\ pc'[r] = IF r = Start THEN "create" ELSE "check"
      /\ UNCHANGED <<data, raised, crashes>>
  BY Request DEF Send, Goto
<1>3. raised' => raised /\ status' = status /\ pc'[r] \in Outside
  <2>1. r = Start => status = None
    BY <1>2 DEF SInv, Agreement
  <2>2. raised => status # None
    BY NoneAssumption DEF LInv, Statuses
  <2>. QED
    BY <1>2, <2>1, <2>2 DEF data, Outside
<1>4. InStep(r)'
  <2>1. r = Start => \A s \in 1 .. Stages : latest[s] = 0
    BY <1>2 DEF LInv, InStep
  <2>. QED
    BY <1>2, <2>1 DEF InStep, Marking, Syncing, data
<1>. QED
  BY <1>1, <1>2, <1>3, <1>4, StepCounts DEF LInv, data

\* Creating the run stores no artefact.
LEMMA CreateRunCounts ==
  ASSUME IInv, SInv, LInv, NEW r \in Requests, CreateRun(r)
  PROVE  LInv'
<1>1. /\ pc[r] = "create" /\ r = Start /\ r \notin Reviews
      /\ status' = "created" /\ pc'[r] = "read_status" /\ local'[r].graph = None
      /\ \A q \in Requests \ {r} : pc'[q] = pc[q]
      /\ UNCHANGED <<checkpoint, latest, raised>>
  BY Request, RequestAssumption DEF CreateRun, Goto, Placed, Locals
<1>2. ~raised /\ \A q \in Requests \ {r} : pc[q] \in {"ready", "done", "dead"}
  BY <1>1, AtWork, OthersIdle DEF Outside, SInv
<1>3. \A s \in 1 .. Stages : latest[s] = 0
  BY <1>1 DEF LInv, InStep
<1>4. InStep(r)'
  BY <1>1, <1>3 DEF InStep, Marking, Syncing
<1>. QED
  BY <1>1, <1>2, <1>4, StepCounts

\* Nor does checking the status.
LEMMA CheckStatusCounts ==
  ASSUME IInv, SInv, LInv, NEW r \in Requests, CheckStatus(r)
  PROVE  LInv'
<1>1. /\ pc[r] = "check" /\ UNCHANGED <<data, raised, crashes>>
      /\ \A q \in Requests \ {r} : pc'[q] = pc[q]
      /\ pc'[r] = IF status = "waiting_for_review" THEN "snapshot" ELSE "done"
  BY Request DEF CheckStatus, Goto, Ends
<1>2. \A q \in Requests \ {r} : pc[q] \in {"ready", "done", "dead"}
  BY <1>1, OthersIdle DEF SInv
<1>3. raised' => raised /\ status' = status /\ pc'[r] \in Outside
  BY <1>1 DEF LInv, data, Outside
<1>4. InStep(r)'
  BY <1>1 DEF InStep, Marking, Syncing
<1>. QED
  BY <1>1, <1>2, <1>3, <1>4, StepCounts DEF LInv, data

\* Nor reading the snapshot.
LEMMA ReadSnapshotCounts ==
  ASSUME IInv, SInv, LInv, NEW r \in Requests, ReadSnapshot(r)
  PROVE  LInv'
<1>1. /\ pc[r] = "snapshot" /\ UNCHANGED <<data, raised, crashes>> /\ pc'[r] = "record"
      /\ \A q \in Requests \ {r} : pc'[q] = pc[q]
  BY Request DEF ReadSnapshot, Goto
<1>2. ~raised /\ \A q \in Requests \ {r} : pc[q] \in {"ready", "done", "dead"}
  BY <1>1, AtWork, OthersIdle DEF Outside, SInv
<1>3. InStep(r)'
  BY <1>1 DEF InStep, Marking, Syncing
<1>. QED
  BY <1>1, <1>2, <1>3, StepCounts DEF LInv, data

\* The run waited for review, so its draft is the last one stored.
LEMMA RecordReviewCounts ==
  ASSUME IInv, SInv, LInv, NEW r \in Requests, RecordReview(r)
  PROVE  LInv'
<1>1. /\ pc[r] = "record" /\ pc'[r] = "read_status"
      /\ UNCHANGED <<status, checkpoint, latest, raised>>
      /\ \A q \in Requests \ {r} : pc'[q] = pc[q]
  BY Request DEF RecordReview, Goto
<1>2. ~raised /\ \A q \in Requests \ {r} : pc[q] \in {"ready", "done", "dead"}
  BY <1>1, AtWork, OthersIdle DEF Outside, SInv
<1>3. Counted(checkpoint, latest) /\ r \in Reviews /\ r # Start /\ local[r].graph = None
  BY <1>1, Request, RequestAssumption DEF SInv, Alone, LInv, Placed
<1>4. local'[r].graph = None
  BY <1>3, Request DEF RecordReview, Locals
<1>5. InStep(r)'
  BY <1>1, <1>3, <1>4 DEF InStep, Marking, Syncing
<1>. QED
  BY <1>1, <1>2, <1>3, <1>5, StepCounts

\* Reading the status row changes nothing the count depends on.
LEMMA ReadStatusCounts ==
  ASSUME IInv, SInv, LInv, NEW r \in Requests, ReadStatus(r)
  PROVE  LInv'
<1>1. /\ pc[r] = "read_status" /\ UNCHANGED <<data, raised, crashes>> /\ pc'[r] = "write_status"
      /\ \A q \in Requests \ {r} : pc'[q] = pc[q]
      /\ local'[r].graph = local[r].graph
  BY Request DEF ReadStatus, Goto, Locals
<1>2. ~raised /\ \A q \in Requests \ {r} : pc[q] \in {"ready", "done", "dead"}
  BY <1>1, AtWork, OthersIdle DEF Outside, SInv
<1>3. (Marking(r)' <=> Marking(r)) /\ (Syncing(r)' <=> Syncing(r)) /\ InStep(r)
  BY <1>1 DEF Marking, Syncing, LInv
<1>4. InStep(r)'
  BY <1>1, <1>3 DEF InStep, data
<1>. QED
  BY <1>1, <1>2, <1>4, StepCounts DEF LInv, data

\* The status written at the end promises the draft just stored.
LEMMA WriteStatusCounts ==
  ASSUME IInv, SInv, LInv, NEW r \in Requests, WriteStatus(r)
  PROVE  LInv'
<1>1. /\ pc[r] = "write_status" /\ local[r].previous = status
      /\ UNCHANGED <<checkpoint, latest, raised>>
      /\ \A q \in Requests \ {r} : pc'[q] = pc[q]
  BY Request DEF WriteStatus, SInv, Alone, Goto, Ends
<1>2. ~raised /\ \A q \in Requests \ {r} : pc[q] \in {"ready", "done", "dead"}
  BY <1>1, AtWork, OthersIdle DEF Outside, SInv
<1>3. CASE local[r].graph = None
  <2>1. Marking(r) /\ pc'[r] = "load" /\ local'[r].graph = None
    BY <1>1, <1>3, Request DEF WriteStatus, Goto, Marking, Locals
  <2>2. local[r].target = "running" /\ status \in {"created", "waiting_for_review"}
    BY <1>1, <2>1 DEF SInv, Alone
  <2>3. status' = "running"
    BY <1>1, <2>2 DEF WriteStatus
  <2>4. InStep(r)'
    BY <1>1, <2>1 DEF LInv, InStep, Marking, Syncing
  <2>. QED
    BY <1>1, <1>2, <2>3, <2>4, StepCounts
<1>4. CASE local[r].graph # None
  <2>1. Syncing(r) /\ pc'[r] = "done"
    BY <1>1, <1>4, Request DEF WriteStatus, Goto, Ends, Syncing
  <2>2. Counted(checkpoint, latest)
    BY <2>1 DEF SInv, Alone, LInv, InStep
  <2>3. InStep(r)'
    BY <2>1 DEF InStep, Marking, Syncing
  <2>. QED
    BY <1>1, <1>2, <2>2, <2>3, StepCounts
<1>. QED
  BY <1>3, <1>4

\* An invocation starts on a state that is counted.
LEMMA LoadCounts ==
  ASSUME IInv, SInv, LInv, NEW r \in Requests, Load(r)
  PROVE  LInv'
<1>1. /\ pc[r] = "load" /\ local[r].graph = None /\ Marking(r) /\ UNCHANGED <<data, raised, crashes>>
      /\ \A q \in Requests \ {r} : pc'[q] = pc[q]
  BY Request DEF Load, Placed, Marking, Goto
<1>2. ~raised /\ \A q \in Requests \ {r} : pc[q] \in {"ready", "done", "dead"}
  BY <1>1, AtWork, OthersIdle DEF Outside, SInv
<1>3. CASE r = Start
  <2>1. pc'[r] = "checkpoint" /\ local'[r].graph = Initial
    BY <1>3, Request DEF Load, Goto, Initial, Locals
  <2>2. \A s \in 1 .. Stages : latest[s] = 0
    BY <1>1, <1>3 DEF LInv, InStep
  <2>3. Counted(Initial, latest)
    BY <2>2, StagesAssumption DEF Counted, Initial, DraftsOf
  <2>4. Follows(checkpoint, Initial)
    BY <1>1, <1>3, Request DEF Opened, Follows
  <2>5. r \notin Reviews
    BY <1>3, RequestAssumption
  <2>6. InStep(r)'
    BY <1>1, <2>1, <2>3, <2>4, <2>5 DEF InStep, Marking, Syncing, data
  <2>. QED
    BY <1>1, <1>2, <2>6, StepCounts DEF LInv, data
<1>4. CASE r # Start
  <2>1. r \in Reviews /\ AwaitsReview /\ Counted(checkpoint, latest)
    BY <1>1, <1>4, Request DEF SInv, Alone, LInv, InStep
  <2>2. pc'[r] = "resume"
    BY <1>4, <2>1, Request DEF Load, Goto, AwaitsReview
  <2>3. InStep(r)'
    BY <1>1, <1>4, <2>1, <2>2 DEF InStep, Marking, Syncing, data
  <2>. QED
    BY <1>1, <1>2, <2>3, StepCounts DEF LInv, data
<1>. QED
  BY <1>3, <1>4

\* What is checkpointed is counted.
LEMMA WriteCheckpointCounts ==
  ASSUME IInv, SInv, LInv, NEW r \in Requests, WriteCheckpoint(r)
  PROVE  LInv'
<1>1. /\ pc[r] = "checkpoint" /\ checkpoint' = local[r].graph
      /\ UNCHANGED <<status, latest, local, raised>>
      /\ pc'[r] \in {"sync_snapshot", "run"}
      /\ \A q \in Requests \ {r} : pc'[q] = pc[q]
  BY Request DEF WriteCheckpoint, Goto
<1>2. ~raised /\ \A q \in Requests \ {r} : pc[q] \in {"ready", "done", "dead"}
  BY <1>1, AtWork, OthersIdle DEF Outside, SInv
<1>3. status = "running" /\ Counted(local[r].graph, latest)
  BY <1>1 DEF SInv, Alone, LInv, InStep
<1>4. InStep(r)'
  BY <1>1, <1>3 DEF InStep, Marking, Syncing
<1>. QED
  BY <1>1, <1>2, <1>3, <1>4, StepCounts

\* What a node returns follows, and is counted.
LEMMA ReturnsCounts ==
  ASSUME IInv, SInv, LInv, NEW r \in Requests, pc[r] \in {"resume", "run"},
         NEW state, Returns(r, state), Follows(checkpoint, state), Counted(state, latest')
  PROVE  LInv'
<1>1. /\ pc'[r] = "checkpoint" /\ local'[r].graph = state
      /\ UNCHANGED <<status, checkpoint, raised>>
      /\ \A q \in Requests \ {r} : pc'[q] = pc[q]
  BY Request DEF Returns, Goto, Locals
<1>2. ~raised /\ \A q \in Requests \ {r} : pc[q] \in {"ready", "done", "dead"}
  BY AtWork, OthersIdle DEF Outside, SInv
<1>3. status = "running" /\ status # None
  BY NoneAssumption DEF SInv, Alone, Statuses
<1>4. InStep(r)'
  BY <1>1 DEF InStep, Marking, Syncing
<1>. QED
  BY <1>1, <1>2, <1>3, <1>4, StepCounts

\* The store has no draft of a stage that the run has not come to.
LEMMA DecisionCounts ==
  ASSUME NEW c \in Checkpoints, c.node = "gate", c.draft # None, c.draft.stage = c.stage,
         NEW d \in Decisions, NEW versions \in [1 .. Stages -> Nat], Counted(c, versions),
         NEW c2, c2.node = AfterDecision(c.stage, d).node,
         c2.stage = AfterDecision(c.stage, d).stage, c2.draft = c.draft
  PROVE  Counted(c2, versions)
<1>1. /\ c.stage \in 1 .. Stages /\ versions[c.stage] = c.draft.version
      /\ \A s \in c.stage + 1 .. Stages : versions[s] = 0
  BY DEF Counted, DraftsOf, Checkpoints
<1>2. CASE d = "approve" /\ c.stage < Stages
  <2>1. AfterDecision(c.stage, d) = [node |-> "generate", stage |-> c.stage + 1]
    BY <1>1, <1>2, StagesAssumption DEF AfterDecision
  <2>2. c2.node = "generate" /\ c2.stage = c.stage + 1
    BY <2>1
  <2>3. DraftsOf(c2) = 0
    BY <1>1, <2>2 DEF DraftsOf
  <2>4. versions[c2.stage] = 0 /\ \A s \in c2.stage + 1 .. Stages : versions[s] = 0
    BY <1>1, <1>2, <2>2, StagesAssumption
  <2>. QED
    BY <2>2, <2>3, <2>4 DEF Counted
<1>3. CASE d = "approve" /\ c.stage = Stages
  <2>1. c2.node = "approved" /\ c2.stage = c.stage
    BY <1>3, StagesAssumption DEF AfterDecision
  <2>. QED
    BY <1>1, <1>3, <2>1 DEF Counted, DraftsOf
<1>4. CASE d = "reject"
  <2>1. c2.node = "terminated" /\ c2.stage = c.stage
    BY <1>4 DEF AfterDecision
  <2>. QED
    BY <1>1, <2>1 DEF Counted, DraftsOf
<1>5. CASE d = "request_revisions"
  <2>1. c2.node = "generate" /\ c2.stage = c.stage
    BY <1>5 DEF AfterDecision
  <2>. QED
    BY <1>1, <2>1 DEF Counted, DraftsOf
<1>. QED
  BY <1>1, <1>2, <1>3, <1>4, <1>5, StagesAssumption DEF Decisions

\* The gate's decision leads to a state that follows.
LEMMA ResumeCounts ==
  ASSUME IInv, SInv, LInv, NEW r \in Requests, Resume(r)
  PROVE  LInv'
<1>. DEFINE c == checkpoint
            d == local[r].asked
            n == AfterDecision(checkpoint.stage, local[r].asked)
            c2 == [node |-> n.node, stage |-> n.stage, draft |-> c.draft, decision |-> d]
<1>1. pc[r] = "resume" /\ r \in Reviews /\ local[r].graph = c
  BY Request DEF Resume, SInv, Alone, Placed
<1>2. AwaitsReview /\ Counted(c, latest)
  BY <1>1 DEF SInv, Alone, LInv, InStep
<1>3. Returns(r, c2) /\ latest' = latest
  BY <1>1 DEF Resume
<1>4. /\ c \in Checkpoints /\ c # None /\ c.node = "gate" /\ d \in Decisions
      /\ c.draft # None /\ c.draft.stage = c.stage /\ latest \in [1 .. Stages -> Nat]
  BY <1>1, <1>2 DEF IInv, TypeOK, SharedOK, Sound, AwaitsReview, RequestOK, Decided
<1>5. c2.node = AfterDecision(c.stage, d).node /\ c2.stage = AfterDecision(c.stage, d).stage
      /\ c2.draft = c.draft
  OBVIOUS
<1>. HIDE DEF c2, d, n
<1>6. Counted(c2, latest)
  BY <1>2, <1>4, <1>5, DecisionCounts
<1>7. Follows(c, c2)
  BY <1>4, <1>5 DEF Follows
<1>. QED
  BY <1>1, <1>3, <1>6, <1>7, ReturnsCounts

\* A new draft is the next one of its stage.
LEMMA GenerateCounts ==
  ASSUME IInv, SInv, LInv, NEW r \in Requests, Generate(r)
  PROVE  LInv'
<1>. DEFINE c == checkpoint
            s == local[r].graph.stage
            v == latest[s] + 1
            draft == [stage |-> s, version |-> v]
            c2 == [node |-> "gate", stage |-> s, decision |-> None, draft |-> draft]
<1>1. /\ pc[r] = "run" /\ s \in 1 .. Stages /\ latest \in [1 .. Stages -> Nat]
      /\ local[r].graph = c /\ c # None /\ c.node = "generate" /\ c.stage = s
  BY NodeToRun DEF Generate
<1>2. Returns(r, c2) /\ latest' = [latest EXCEPT ![s] = v]
  BY DEF Generate, NewVersion
<1>3. latest[s] = DraftsOf(c) /\ \A i \in s + 1 .. Stages : latest[i] = 0
  BY <1>1 DEF LInv, InStep, Counted
<1>. HIDE DEF s, c
<1>4. draft \in Draft /\ draft # None /\ draft.stage = s /\ draft.version = v
  <2>1. draft \in Draft
    BY <1>1 DEF Draft
  <2>. QED
    BY <2>1, NoneAssumption
<1>5. c2.node = "gate" /\ c2.stage = s /\ c2.draft = draft
  OBVIOUS
<1>. HIDE DEF c2, draft
<1>6. Counted(c2, latest')
  <2>1. latest'[s] = v /\ \A i \in s + 1 .. Stages : latest'[i] = 0
    BY <1>1, <1>2, <1>3
  <2>2. DraftsOf(c2) = v
    BY <1>4, <1>5 DEF DraftsOf
  <2>. HIDE DEF v
  <2>. QED
    BY <1>5, <2>1, <2>2 DEF Counted
<1>7. Follows(c, c2)
  BY <1>1, <1>3, <1>4, <1>5 DEF Follows
<1>. HIDE DEF v
<1>. QED
  BY <1>1, <1>2, <1>6, <1>7, ReturnsCounts DEF c

\* The approved copy of the package is one more version of it.
LEMMA MarkApprovedCounts ==
  ASSUME IInv, SInv, LInv, NEW r \in Requests, MarkApproved(r)
  PROVE  LInv'
<1>. DEFINE c == checkpoint
            v == latest[Stages] + 1
            draft == [stage |-> Stages, version |-> v]
            c2 == [node |-> "end", stage |-> c.stage, decision |-> "approve", draft |-> draft]
<1>1. /\ pc[r] = "run" /\ latest \in [1 .. Stages -> Nat]
      /\ local[r].graph = c /\ c # None /\ c.node = "approved"
  BY NodeToRun DEF MarkApproved
<1>2. Returns(r, c2)
  BY <1>1 DEF MarkApproved, NewVersion
<1>3. /\ c.stage = Stages /\ c.draft # None /\ c.draft.stage = Stages
      /\ latest[Stages] = DraftsOf(c)
  BY <1>1 DEF LInv, InStep, Counted
<1>. HIDE DEF c
<1>4. draft # None /\ draft.stage = Stages /\ draft.version = DraftsOf(c) + 1
  <2>1. draft \in Draft
    BY <1>1, StagesAssumption DEF Draft
  <2>. QED
    BY <1>3, <2>1, NoneAssumption
<1>5. c2.node = "end" /\ c2.stage = c.stage /\ c2.decision = "approve" /\ c2.draft = draft
  OBVIOUS
<1>. HIDE DEF c2, draft
<1>6. Counted(c2, latest') /\ Follows(c, c2)
  BY <1>1, <1>3, <1>4, <1>5 DEF Counted, Follows
<1>. QED
  BY <1>1, <1>2, <1>6, ReturnsCounts DEF c

\* A rejected run keeps its last draft.
LEMMA MarkTerminatedCounts ==
  ASSUME IInv, SInv, LInv, NEW r \in Requests, MarkTerminated(r)
  PROVE  LInv'
<1>. DEFINE c == checkpoint
            c2 == [c EXCEPT !.node = "end", !.decision = "reject"]
<1>1. /\ pc[r] = "run" /\ local[r].graph = c /\ c # None /\ c.node = "terminated"
      /\ c \in Checkpoints
  BY NodeToRun DEF MarkTerminated, IInv, TypeOK
<1>2. Returns(r, c2)
  BY <1>1 DEF MarkTerminated
<1>3. c2.node = "end" /\ c2.decision = "reject" /\ c2.stage = c.stage /\ c2.draft = c.draft
  BY <1>1 DEF Checkpoints
<1>. HIDE DEF c2
<1>4. Counted(c2, latest') /\ Follows(c, c2)
  BY <1>1, <1>3 DEF Counted, Follows
<1>. QED
  BY <1>1, <1>2, <1>4, ReturnsCounts

\* A node that raises may have stored a draft that nobody counts: the run stays
\* RUNNING, and no request works on it again.
LEMMA RaiseCounts ==
  ASSUME IInv, SInv, LInv, NEW r \in Requests, Raise(r)
  PROVE  LInv'
<1>1. /\ pc[r] = "run" /\ raised' = TRUE /\ status' = status
      /\ pc'[r] = "done" /\ \A q \in Requests \ {r} : pc'[q] = pc[q]
  BY Request DEF Raise, Ends, Goto
<1>2. status = "running" /\ status # None
  BY <1>1, NodeToRun, NoneAssumption DEF Statuses
<1>3. \A q \in Requests : pc'[q] \in {"ready", "done", "dead"}
  BY <1>1, OthersIdle DEF SInv
<1>4. pc'[Start] # "ready"
  BY <1>1, <1>2, Created DEF SInv, Requests
<1>5. ASSUME NEW q \in Requests PROVE InStep(q)'
  BY <1>3, <1>4 DEF InStep, Marking, Syncing
<1>. QED
  BY <1>1, <1>2, <1>3, <1>5 DEF LInv, Outside

\* Working out the status leaves the invocation's state as it is.
LEMMA SyncSnapshotCounts ==
  ASSUME IInv, SInv, LInv, NEW r \in Requests, SyncSnapshot(r)
  PROVE  LInv'
<1>1. /\ pc[r] = "sync_snapshot" /\ UNCHANGED <<data, raised, crashes>> /\ pc'[r] = "sync_check"
      /\ \A q \in Requests \ {r} : pc'[q] = pc[q]
      /\ local'[r].graph = local[r].graph
  BY Request DEF SyncSnapshot, Goto, Locals
<1>2. ~raised /\ \A q \in Requests \ {r} : pc[q] \in {"ready", "done", "dead"}
  BY <1>1, AtWork, OthersIdle DEF Outside, SInv
<1>3. Counted(local[r].graph, latest)
  BY <1>1 DEF LInv, InStep, Syncing
<1>4. InStep(r)'
  BY <1>1, <1>3 DEF InStep, Marking, Syncing, data
<1>. QED
  BY <1>1, <1>2, <1>4, StepCounts DEF LInv, data

\* So does comparing it.
LEMMA SyncCheckCounts ==
  ASSUME IInv, SInv, LInv, NEW r \in Requests, SyncCheck(r)
  PROVE  LInv'
<1>1. /\ pc[r] = "sync_check" /\ UNCHANGED <<data, raised, crashes>> /\ local[r].graph # None
      /\ \A q \in Requests \ {r} : pc'[q] = pc[q]
      /\ \/ pc'[r] = "done"
         \/ pc'[r] = "read_status" /\ local'[r].graph = local[r].graph
  BY Request DEF SyncCheck, Ends, Goto, Placed
<1>2. ~raised /\ \A q \in Requests \ {r} : pc[q] \in {"ready", "done", "dead"}
  BY <1>1, AtWork, OthersIdle DEF Outside, SInv
<1>3. Counted(local[r].graph, latest)
  BY <1>1 DEF LInv, InStep, Syncing
<1>4. InStep(r)'
  BY <1>1, <1>3 DEF InStep, Marking, Syncing, data
<1>. QED
  BY <1>1, <1>2, <1>4, StepCounts DEF LInv, data

\* A crash takes nobody's count with it.
LEMMA CrashCounts ==
  ASSUME IInv, SInv, LInv, Crash
  PROVE  LInv'
<1>1. /\ \A q \in Requests : /\ pc'[q] \in {"ready", "done", "dead"}
                             /\ pc'[q] = "ready" => pc[q] = "ready"
      /\ UNCHANGED data /\ raised' = raised
  BY DEF Crash, Active, IInv, TypeOK
<1>2. ASSUME NEW q \in Requests PROVE InStep(q)'
  <2>1. q = Start /\ pc'[q] = "ready" => \A s \in 1 .. Stages : latest[s] = 0
    BY <1>1 DEF LInv, InStep
  <2>. QED
    BY <1>1, <2>1 DEF InStep, Marking, Syncing, data
<1>. QED
  BY <1>1, <1>2 DEF LInv, Outside, data

\* The invariant is about these variables alone.
LEMMA StutterCounts == ASSUME LInv, UNCHANGED vars PROVE LInv'
<1>1. UNCHANGED <<status, checkpoint, latest, published, recorded, applied, pc, local, raised, crashes>>
  BY DEF vars, data
<1>2. ASSUME NEW r \in Requests PROVE InStep(r)'
  <2>1. InStep(r)
    BY DEF LInv
  <2>. QED
    BY <1>1, <2>1 DEF InStep, Marking, Syncing
<1>. QED
  BY <1>1, <1>2 DEF LInv

\* No step breaks the invariant while clients wait for their responses.
LEMMA NextCounts == Serial /\ IInv /\ SInv /\ LInv /\ [Next]_vars => LInv'
<1>. SUFFICES ASSUME Serial, IInv, SInv, LInv, [Next]_vars PROVE LInv'
  OBVIOUS
<1>1. CASE UNCHANGED vars
  BY <1>1, StutterCounts
<1>2. CASE Crash
  BY <1>2, CrashCounts
<1>3. ASSUME NEW r \in Requests, Send(r) \/ Handle(r) PROVE LInv'
  BY <1>3, SendCounts, CreateRunCounts, CheckStatusCounts, ReadSnapshotCounts, RecordReviewCounts,
     ReadStatusCounts, WriteStatusCounts, LoadCounts, WriteCheckpointCounts, ResumeCounts,
     GenerateCounts, MarkApprovedCounts, MarkTerminatedCounts, RaiseCounts, SyncSnapshotCounts,
     SyncCheckCounts
  DEF Handle
<1>. QED
  BY <1>1, <1>2, <1>3 DEF Next

\* Together with SInv: what is written follows on what it replaces, and every
\* draft in the store is counted.
THEOREM CountInvariance == Serial => (Spec => [](IInv /\ SInv /\ LInv))
<1>. SUFFICES ASSUME Serial PROVE Spec => [](IInv /\ SInv /\ LInv)
  OBVIOUS
<1>1. Init => IInv /\ SInv /\ LInv
  BY InitOK, InitSerial, InitCounts
<1>2. (IInv /\ SInv /\ LInv) /\ [Next]_vars => (IInv /\ SInv /\ LInv)'
  BY NextOK, NextSerial, NextCounts
<1>. QED
  BY <1>1, <1>2, PTL DEF Spec

-----------------------------------------------------------------------------
\* The refinement

\* The phase of a run whose nodes have not raised, by its state.
PhaseOf(c) ==
  CASE c.node = "generate" -> "drafting"
    [] c.node = "gate" -> "in_review"
    [] c.node = "approved" -> "publishing"
    [] c.node = "end" /\ c.decision = "approve" -> "approved"
    [] OTHER -> "rejected"

\* The drafts put before the reviewer, the approved copy not counted.
ShownOf(c) == IF PhaseOf(c) = "approved" THEN DraftsOf(c) - 1 ELSE DraftsOf(c)

\* The mapping, for a state at hand.
LEMMA Mapped ==
  ASSUME NEW c, ~raised, Current = c,
         PhaseOf(c) = "approved" => c.draft # None /\ c.draft.stage = c.stage
  PROVE  CurrentPhase = PhaseOf(c) /\ Current.stage = c.stage /\ Drafts = ShownOf(c)
BY DEF CurrentPhase, PhaseOf, Drafts, ShownOf, DraftsOf

\* The mapping, for the state that replaces it.
LEMMA MappedNext ==
  ASSUME NEW c, ~raised', Current' = c,
         PhaseOf(c) = "approved" => c.draft # None /\ c.draft.stage = c.stage
  PROVE  CurrentPhase' = PhaseOf(c) /\ Current'.stage = c.stage /\ Drafts' = ShownOf(c)
BY DEF CurrentPhase, PhaseOf, Drafts, ShownOf, DraftsOf

\* Nothing moves but by a checkpoint or a node that raises.
LEMMA SilentStep ==
  ASSUME checkpoint' = checkpoint, raised' = raised
  PROVE  UNCHANGED Lifecycle!vars
BY DEF Lifecycle!vars, CurrentPhase, Current, Drafts

\* A decision is one of the lifecycle's.
LEMMA DecisionIsStep ==
  ASSUME NEW c \in Checkpoints, NEW c2, NEW choice \in Decisions,
         ~raised, ~raised', Current = c, Current' = c2,
         c.node = "gate", c.draft # None, c.draft.stage = c.stage,
         c2.node = AfterDecision(c.stage, choice).node,
         c2.stage = AfterDecision(c.stage, choice).stage, c2.draft = c.draft
  PROVE  Lifecycle!Next
<1>1. /\ CurrentPhase = "in_review" /\ Current.stage = c.stage /\ Drafts = c.draft.version
      /\ c.stage \in 1 .. Stages
  <2>1. PhaseOf(c) = "in_review" /\ ShownOf(c) = c.draft.version
    BY DEF PhaseOf, ShownOf, DraftsOf
  <2>. QED
    BY <2>1, Mapped DEF Checkpoints
<1>2. CASE choice = "approve" /\ c.stage < Stages
  <2>1. AfterDecision(c.stage, choice) = [node |-> "generate", stage |-> c.stage + 1]
    BY <1>1, <1>2, StagesAssumption DEF AfterDecision
  <2>2. c2.node = "generate" /\ c2.stage = c.stage + 1
    BY <2>1
  <2>3. PhaseOf(c2) = "drafting" /\ ShownOf(c2) = 0
    BY <1>1, <2>2 DEF PhaseOf, ShownOf, DraftsOf
  <2>4. CurrentPhase' = "drafting" /\ Current'.stage = c.stage + 1 /\ Drafts' = 0
    BY <2>2, <2>3, MappedNext
  <2>. QED
    BY <1>1, <1>2, <2>4 DEF Lifecycle!Next, Lifecycle!Approve
<1>3. CASE choice = "approve" /\ c.stage = Stages
  <2>1. AfterDecision(c.stage, choice) = [node |-> "approved", stage |-> c.stage]
    BY <1>1, <1>3, StagesAssumption DEF AfterDecision
  <2>2. c2.node = "approved" /\ c2.stage = c.stage
    BY <2>1
  <2>3. PhaseOf(c2) = "publishing" /\ ShownOf(c2) = c.draft.version
    BY <2>2 DEF PhaseOf, ShownOf, DraftsOf
  <2>4. CurrentPhase' = "publishing" /\ Current'.stage = c.stage /\ Drafts' = c.draft.version
    BY <2>2, <2>3, MappedNext
  <2>. QED
    BY <1>1, <1>3, <2>4, StagesAssumption DEF Lifecycle!Next, Lifecycle!Approve
<1>4. CASE choice = "reject"
  <2>1. AfterDecision(c.stage, choice) = [node |-> "terminated", stage |-> c.stage]
    BY <1>4 DEF AfterDecision
  <2>2. c2.node = "terminated" /\ c2.stage = c.stage
    BY <2>1
  <2>3. PhaseOf(c2) = "rejected" /\ ShownOf(c2) = c.draft.version
    BY <2>2 DEF PhaseOf, ShownOf, DraftsOf
  <2>4. CurrentPhase' = "rejected" /\ Current'.stage = c.stage /\ Drafts' = c.draft.version
    BY <2>2, <2>3, MappedNext
  <2>. QED
    BY <1>1, <2>4 DEF Lifecycle!Next, Lifecycle!Reject
<1>5. CASE choice = "request_revisions"
  <2>1. AfterDecision(c.stage, choice) = [node |-> "generate", stage |-> c.stage]
    BY <1>5 DEF AfterDecision
  <2>2. c2.node = "generate" /\ c2.stage = c.stage
    BY <2>1
  <2>3. PhaseOf(c2) = "drafting" /\ ShownOf(c2) = c.draft.version
    BY <2>2 DEF PhaseOf, ShownOf, DraftsOf
  <2>4. CurrentPhase' = "drafting" /\ Current'.stage = c.stage /\ Drafts' = c.draft.version
    BY <2>2, <2>3, MappedNext
  <2>. QED
    BY <1>1, <2>4 DEF Lifecycle!Next, Lifecycle!RequestRevisions
<1>. QED
  BY <1>1, <1>2, <1>3, <1>4, <1>5, StagesAssumption DEF Decisions

\* A state that follows on another is a step of the lifecycle, or none.
LEMMA FollowsIsStep ==
  ASSUME NEW c \in Checkpoints, NEW c2,
         ~raised, ~raised', Current = c, Current' = c2,
         c.node = "gate" => c.draft # None /\ c.draft.stage = c.stage,
         c = Initial \/ Presented(c), Follows(c, c2)
  PROVE  Lifecycle!Next \/ UNCHANGED Lifecycle!vars
<1>1. DraftsOf(c) \in Nat
  BY DEF DraftsOf, Checkpoints, Draft
<1>2. CASE c2 = Initial /\ ~Presented(c)
  <2>1. c = Initial
    BY <1>2
  <2>2. PhaseOf(Initial) = "drafting"
    BY DEF PhaseOf, Initial
  <2>. QED
    BY <1>2, <2>1, <2>2, Mapped, MappedNext DEF Lifecycle!vars
<1>3. CASE c.node = "gate" /\ \E choice \in Decisions :
                /\ c2.node = AfterDecision(c.stage, choice).node
                /\ c2.stage = AfterDecision(c.stage, choice).stage
                /\ c2.draft = c.draft
  BY <1>3, DecisionIsStep
<1>4. CASE /\ c.node = "generate" /\ c2.node = "gate" /\ c2.stage = c.stage
           /\ c2.draft # None /\ c2.draft.stage = c2.stage /\ c2.draft.version = DraftsOf(c) + 1
  <2>1. PhaseOf(c) = "drafting" /\ ShownOf(c) = DraftsOf(c)
    BY <1>4 DEF PhaseOf, ShownOf
  <2>2. PhaseOf(c2) = "in_review" /\ ShownOf(c2) = DraftsOf(c) + 1
    <3>1. DraftsOf(c2) = DraftsOf(c) + 1
      BY <1>4 DEF DraftsOf
    <3>. QED
      BY <1>4, <3>1 DEF PhaseOf, ShownOf
  <2>3. /\ CurrentPhase = "drafting" /\ Drafts = DraftsOf(c) /\ Current.stage = c.stage
        /\ CurrentPhase' = "in_review" /\ Drafts' = DraftsOf(c) + 1 /\ Current'.stage = c.stage
    BY <1>4, <2>1, <2>2, Mapped, MappedNext
  <2>. QED
    BY <2>3 DEF Lifecycle!Next, Lifecycle!PresentDraft
<1>5. CASE /\ c.node = "approved" /\ c2.node = "end" /\ c2.decision = "approve"
           /\ c2.stage = c.stage /\ c.stage = Stages /\ c.draft # None /\ c.draft.stage = Stages
           /\ c2.draft # None /\ c2.draft.stage = Stages /\ c2.draft.version = DraftsOf(c) + 1
  <2>1. PhaseOf(c) = "publishing" /\ ShownOf(c) = DraftsOf(c)
    BY <1>5 DEF PhaseOf, ShownOf
  <2>2. PhaseOf(c2) = "approved" /\ ShownOf(c2) = DraftsOf(c)
    <3>1. DraftsOf(c2) = DraftsOf(c) + 1
      BY <1>5 DEF DraftsOf
    <3>. QED
      BY <1>1, <1>5, <3>1 DEF PhaseOf, ShownOf
  <2>3. /\ CurrentPhase = "publishing" /\ Drafts = DraftsOf(c) /\ Current.stage = c.stage
        /\ CurrentPhase' = "approved" /\ Drafts' = DraftsOf(c) /\ Current'.stage = c.stage
    BY <1>5, <2>1, <2>2, Mapped, MappedNext
  <2>. QED
    BY <2>3 DEF Lifecycle!Next, Lifecycle!Publish
<1>6. CASE /\ c.node = "terminated" /\ c2.node = "end" /\ c2.decision = "reject"
           /\ c2.stage = c.stage /\ c2.draft = c.draft
  <2>1. PhaseOf(c) = "rejected" /\ PhaseOf(c2) = "rejected"
    BY <1>6 DEF PhaseOf
  <2>2. ShownOf(c) = ShownOf(c2)
    BY <1>6, <2>1 DEF ShownOf, DraftsOf
  <2>3. /\ CurrentPhase = "rejected" /\ Drafts = ShownOf(c) /\ Current.stage = c.stage
        /\ CurrentPhase' = "rejected" /\ Drafts' = ShownOf(c) /\ Current'.stage = c.stage
    BY <1>6, <2>1, <2>2, Mapped, MappedNext
  <2>. QED
    BY <2>3 DEF Lifecycle!vars
<1>. QED
  BY <1>2, <1>3, <1>4, <1>5, <1>6 DEF Follows

\* Writing a checkpoint is a step of the lifecycle, or none.
LEMMA CheckpointIsStep ==
  ASSUME IInv, SInv, LInv, NEW r \in Requests, WriteCheckpoint(r)
  PROVE  Lifecycle!Next \/ UNCHANGED Lifecycle!vars
<1>. DEFINE c == Current
            c2 == local[r].graph
<1>1. pc[r] = "checkpoint" /\ checkpoint' = c2 /\ raised' = raised /\ c2 # None
  BY Request DEF WriteCheckpoint, Placed
<1>2. ~raised /\ ~raised' /\ Follows(checkpoint, c2)
  BY <1>1, AtWork DEF Outside, LInv, InStep
<1>3. Current' = c2
  BY <1>1 DEF Current
<1>4. /\ c \in Checkpoints
      /\ c.node = "gate" => c.draft # None /\ c.draft.stage = c.stage
      /\ c = Initial \/ Presented(c)
      /\ Follows(c, c2)
  <2>1. Initial \in Checkpoints /\ Initial.node # "gate" /\ ~Presented(Initial)
    BY StagesAssumption DEF Initial, Checkpoints, Presented
  <2>2. CASE checkpoint = None
    <3>1. c = Initial
      BY <2>2 DEF Current
    <3>2. c2 = Initial
      BY <1>2, <2>2 DEF Follows
    <3>. QED
      BY <2>1, <3>1, <3>2 DEF Follows
  <2>3. CASE checkpoint # None
    <3>1. c = checkpoint /\ checkpoint \in Checkpoints
      BY <2>3 DEF Current, IInv, TypeOK
    <3>2. Sound(checkpoint, applied, latest, published)
      BY DEF IInv, SharedOK
    <3>. HIDE DEF c, c2
    <3>. QED
      BY <1>2, <2>3, <3>1, <3>2 DEF Sound, Presented
  <2>. QED
    BY <2>2, <2>3
<1>. HIDE DEF c2
<1>. QED
  BY <1>2, <1>3, <1>4, FollowsIsStep

\* A node that raises fails the run where it is.
LEMMA RaiseIsFail ==
  ASSUME IInv, SInv, LInv, NEW r \in Requests, Raise(r)
  PROVE  Lifecycle!Fail
<1>1. /\ pc[r] = "run" /\ raised' = TRUE /\ checkpoint' = checkpoint
      /\ local[r].graph.node \in {"generate", "approved"}
  BY DEF Raise
<1>2. ~raised
  BY <1>1, AtWork DEF Outside
<1>3. checkpoint # None /\ checkpoint.node \in {"generate", "approved"}
  BY <1>1, NodeToRun
<1>4. Current = checkpoint /\ Current' = checkpoint
  BY <1>1, <1>3 DEF Current
<1>5. CurrentPhase \in {"drafting", "publishing"} /\ CurrentPhase' = "failed"
  BY <1>1, <1>2, <1>3, <1>4 DEF CurrentPhase
<1>6. Drafts' = Drafts
  BY <1>4, <1>5 DEF Drafts
<1>. QED
  BY <1>4, <1>5, <1>6 DEF Lifecycle!Fail

\* With clients that wait for each response, the runner implements the review
\* lifecycle: stages in order, one draft at a time, a rejection final, and only
\* the last approval publishes, over crashes and failures at any point.
THEOREM RunnerRefinesLifecycle == Serial => (Spec => ImplementsLifecycle)
<1>. SUFFICES ASSUME Serial PROVE Spec => ImplementsLifecycle
  OBVIOUS
<1>1. Init => Lifecycle!Init
  <2>. SUFFICES ASSUME Init PROVE Lifecycle!Init
    OBVIOUS
  <2>1. Current = Initial /\ ~raised
    BY DEF Init, Current
  <2>2. PhaseOf(Initial) = "drafting" /\ DraftsOf(Initial) = 0 /\ Initial.stage = 1
    BY DEF PhaseOf, DraftsOf, Initial
  <2>3. CurrentPhase = "drafting" /\ Current.stage = 1 /\ Drafts = 0
    BY <2>1, <2>2, Mapped DEF ShownOf
  <2>. QED
    BY <2>3 DEF Lifecycle!Init
<1>2. (IInv /\ SInv /\ LInv) /\ [Next]_vars => [Lifecycle!Next]_(Lifecycle!vars)
  <2>. SUFFICES ASSUME IInv, SInv, LInv, [Next]_vars
                PROVE  Lifecycle!Next \/ UNCHANGED Lifecycle!vars
    OBVIOUS
  <2>1. ASSUME NEW r \in Requests, Raise(r) PROVE Lifecycle!Next
    BY <2>1, RaiseIsFail DEF Lifecycle!Next
  <2>2. ASSUME NEW r \in Requests, Send(r) \/ Handle(r), ~WriteCheckpoint(r), ~Raise(r)
        PROVE  checkpoint' = checkpoint /\ raised' = raised
    BY <2>2 DEF Handle, Send, CreateRun, CheckStatus, ReadSnapshot, RecordReview, ReadStatus,
       WriteStatus, Load, Returns, Resume, Generate, MarkApproved, MarkTerminated, SyncSnapshot,
       SyncCheck, data
  <2>3. Crash \/ UNCHANGED vars => checkpoint' = checkpoint /\ raised' = raised
    BY DEF Crash, data, vars
  <2>. QED
    BY <2>1, <2>2, <2>3, CheckpointIsStep, SilentStep DEF Next
<1>. QED
  BY <1>1, <1>2, CountInvariance, PTL DEF Spec, ImplementsLifecycle, Lifecycle!Safety

=============================================================================
