-------------------------- MODULE HitlServiceProofs --------------------------
(***************************************************************************)
(* Proofs about what the runner keeps of the review process when requests  *)
(* race each other, the process crashes and nodes raise: for any number of *)
(* stages and of requests in flight.                                       *)
(*                                                                         *)
(* The argument rests on checkpoints carrying their own justification.  A  *)
(* state that went past a gate was made from a decision taken there, and   *)
(* decisions are never forgotten, so a stale state that a slow invocation  *)
(* writes back is as well founded as the one it overwrites (Sound).        *)
(***************************************************************************)
EXTENDS HitlService, TLAPS

-----------------------------------------------------------------------------
\* The inductive invariant

Approved(s, decisions) == \E a \in decisions : a.draft.stage = s /\ a.decision = "approve"

Rejected(decisions) == \E a \in decisions : a.decision = "reject"

\* What a state of the graph says of the decisions taken, the versions stored
\* and the packages published.
Sound(c, decisions, versions, packages) ==
  c # None =>
    /\ c.draft = None => c = Initial
    /\ \A s \in 1 .. c.stage - 1 : Approved(s, decisions)
    /\ c.node = "gate" =>
         /\ c.draft # None
         /\ c.draft.stage = c.stage
         /\ c.draft.version \in 1 .. versions[c.stage]
    /\ c.node = "approved" => \A s \in 1 .. Stages : Approved(s, decisions)
    /\ c.node = "terminated" => Rejected(decisions)
    /\ c.node = "end" => \/ c.decision = "approve" /\ packages # {}
                         \/ c.decision = "reject" /\ Rejected(decisions)

\* The run's first draft has been checkpointed.
Presented(c) == c # None /\ c.draft # None

\* What a status says of the checkpoint, the decisions and the packages.
Earned(x, c, decisions, packages) ==
  /\ x = "waiting_for_review" => Presented(c)
  /\ x = "approved" => packages # {}
  /\ x = "terminated" => Rejected(decisions)
  /\ x # "failed"

\* Which request can be where, and what its graph state is then.
Placed(r) ==
  /\ pc[r] = "create" => r = Start
  /\ pc[r] \in {"check", "snapshot", "record", "resume"} => r \in Reviews
  /\ pc[r] \in {"ready", "create", "check", "snapshot", "record", "load"}
       => local[r].graph = None
  /\ pc[r] \in {"checkpoint", "resume", "run", "sync_snapshot", "sync_check"}
       => local[r].graph # None
  /\ pc[r] = "resume" => local[r].graph.node = "gate"
  /\ pc[r] = "record" => local[r].seen \in Draft

\* Only the request that starts the run works on a state without a draft, and
\* it does so before there is any draft; reviews come after the first one.
Opened(r) ==
  /\ r \in Reviews =>
       /\ pc[r] \notin {"ready", "check", "done", "dead"} => Presented(checkpoint)
       /\ local[r].graph # None => local[r].graph.draft # None
  /\ r = Start /\ pc[r] \notin {"done", "dead"} /\ local[r].graph \in {None, Initial}
       => ~Presented(checkpoint)
  /\ pc[r] \in {"sync_snapshot", "sync_check"} => Presented(checkpoint)

\* A request's decision is recorded before its invocation, and it is applied
\* at most once, in the invocation.
Decided(r) ==
  /\ r \in Reviews =>
       /\ pc[r] \notin {"ready", "done", "dead"} => local[r].asked \in Decisions
       /\ pc[r] \notin {"ready", "check", "snapshot", "record", "done", "dead"}
            => \E e \in recorded : e.by = r /\ e.decision = local[r].asked
  /\ pc[r] = "resume" => \A a \in applied : a.by # r
  /\ local[r].graph = None /\ pc[r] \notin {"done", "dead"}
       => \A a \in applied : a.by # r

\* Everything there is to know about one request.
RequestOK(r) ==
  /\ Placed(r)
  /\ Opened(r)
  /\ Decided(r)
  /\ Sound(local[r].graph, applied, latest, published)
  /\ Earned(local[r].target, checkpoint, applied, published)

PublishedLast == published # {} => \A s \in 1 .. Stages : Approved(s, applied)

\* What the tables, the checkpoint and the audit trail say of each other.
SharedOK ==
  /\ Sound(checkpoint, applied, latest, published)
  /\ Earned(status, checkpoint, applied, published)
  /\ PublishedLast
  /\ AppliedWasRecorded

IInv == TypeOK /\ SharedOK /\ \A r \in Requests : RequestOK(r)

-----------------------------------------------------------------------------
\* Nothing said of the past is taken back

\* A sound state stays sound when decisions, versions and packages are added.
LEMMA SoundGrows ==
  ASSUME NEW c \in Checkpoints \cup {None},
         NEW ap, NEW la \in [1 .. Stages -> Nat], NEW pu,
         NEW ap2, NEW la2 \in [1 .. Stages -> Nat], NEW pu2,
         ap \subseteq ap2, pu \subseteq pu2,
         \A s \in 1 .. Stages : la[s] <= la2[s],
         Sound(c, ap, la, pu)
  PROVE  Sound(c, ap2, la2, pu2)
<1>1. \A s : Approved(s, ap) => Approved(s, ap2)
  BY DEF Approved
<1>2. Rejected(ap) => Rejected(ap2)
  BY DEF Rejected
<1>3. ASSUME c # None, c.node = "gate", c.draft # None PROVE c.draft.version \in 1 .. la2[c.stage]
  <2>1. c.stage \in 1 .. Stages /\ c.draft.version \in 1 .. la[c.stage]
    BY <1>3 DEF Sound, Checkpoints
  <2>. QED
    BY <2>1
<1>. QED
  BY <1>1, <1>2, <1>3 DEF Sound

\* A status stays earned when decisions and packages are added.
LEMMA EarnedGrows ==
  ASSUME NEW x, NEW c, NEW ap, NEW pu, NEW c2, NEW ap2, NEW pu2,
         Presented(c) => Presented(c2), ap \subseteq ap2, pu \subseteq pu2,
         Earned(x, c, ap, pu)
  PROVE  Earned(x, c2, ap2, pu2)
BY DEF Earned, Rejected

\* What a step of one request may do to the rest of the system.
Grows(r) ==
  /\ applied \subseteq applied' /\ recorded \subseteq recorded'
  /\ published \subseteq published'
  /\ \A s \in 1 .. Stages : latest[s] <= latest'[s]
  /\ \A a \in applied' : a \in applied \/ a.by = r
  /\ Presented(checkpoint) => Presented(checkpoint')
  /\ r \in Reviews /\ Presented(checkpoint') => Presented(checkpoint)
  /\ \A q \in Requests \ {r} : pc'[q] = pc[q] /\ local'[q] = local[q]

\* The other requests do not notice.
LEMMA OthersOK ==
  ASSUME IInv, TypeOK', NEW r \in Requests, Grows(r), NEW q \in Requests \ {r}
  PROVE  RequestOK(q)'
<1>1. pc'[q] = pc[q] /\ local'[q] = local[q] /\ RequestOK(q)
  BY DEF Grows, IInv
<1>2. Placed(q)'
  BY <1>1 DEF RequestOK, Placed
<1>3. Opened(q)'
  BY <1>1, RequestAssumption DEF RequestOK, Opened, Grows, Requests
<1>4. Decided(q)'
  BY <1>1 DEF RequestOK, Decided, Grows
<1>5. Sound(local'[q].graph, applied', latest', published')
  <2>1. local[q].graph \in Checkpoints \cup {None}
    BY DEF IInv, TypeOK
  <2>2. latest \in [1 .. Stages -> Nat] /\ latest' \in [1 .. Stages -> Nat]
    BY DEF IInv, TypeOK
  <2>3. Sound(local[q].graph, applied, latest, published)
    BY <1>1 DEF RequestOK
  <2>4. Sound(local[q].graph, applied', latest', published')
    BY <2>1, <2>2, <2>3, SoundGrows DEF Grows
  <2>. QED
    BY <1>1, <2>4
<1>6. Earned(local'[q].target, checkpoint', applied', published')
  <2>1. Earned(local[q].target, checkpoint, applied, published)
    BY <1>1 DEF RequestOK
  <2>2. Earned(local[q].target, checkpoint', applied', published')
    BY <2>1, EarnedGrows DEF Grows
  <2>. QED
    BY <1>1, <2>2
<1>. QED
  BY <1>2, <1>3, <1>4, <1>5, <1>6 DEF RequestOK

\* No value: a request that holds no state and no status claims nothing.
LEMMA NoClaim ==
  ASSUME NEW c, NEW ap, NEW la, NEW pu
  PROVE  Sound(None, ap, la, pu) /\ Earned(None, c, ap, pu)
BY NoneAssumption DEF Sound, Earned, Statuses

\* A request that is over holds nothing any more.
LEMMA OverOK ==
  ASSUME NEW r \in Requests, pc'[r] \in {"done", "dead"}, local'[r] = NoLocals
  PROVE  RequestOK(r)'
<1>1. Placed(r)'
  BY DEF Placed
<1>2. Opened(r)'
  BY DEF Opened, NoLocals
<1>3. Decided(r)'
  BY DEF Decided, NoLocals
<1>4. Sound(local'[r].graph, applied', latest', published')
  BY NoClaim DEF NoLocals
<1>5. Earned(local'[r].target, checkpoint', applied', published')
  BY NoClaim DEF NoLocals
<1>. QED
  BY <1>1, <1>2, <1>3, <1>4, <1>5 DEF RequestOK

\* A step of one request keeps the invariant if it keeps what concerns it.
LEMMA StepOK ==
  ASSUME IInv, TypeOK', SharedOK', NEW r \in Requests, Grows(r), RequestOK(r)'
  PROVE  IInv'
<1>1. \A q \in Requests \ {r} : RequestOK(q)'
  BY OthersOK
<1>. QED
  BY <1>1 DEF IInv

\* A step that only moves one request leaves the shared part as it is.
LEMMA QuietStep ==
  ASSUME IInv, NEW r \in Requests, UNCHANGED data,
         \A q \in Requests \ {r} : pc'[q] = pc[q] /\ local'[q] = local[q]
  PROVE  SharedOK' /\ Grows(r)
<1>1. SharedOK'
  BY DEF IInv, data, SharedOK, PublishedLast, AppliedWasRecorded
<1>2. Grows(r)
  BY DEF IInv, TypeOK, data, Grows
<1>. QED
  BY <1>1, <1>2

\* What a request holds.
Locals == [asked : Decisions \cup {None}, seen : Draft \cup {None},
           target : Statuses \cup {None}, previous : Statuses \cup {None},
           graph : Checkpoints \cup {None}]

\* A step that moves one request and writes at most its variables keeps the
\* types, if the request has what it needs where it gets to.
LEMMA MoveTyped ==
  ASSUME TypeOK, NEW r \in Requests, NEW step \in Steps, NEW l \in Locals,
         UNCHANGED <<data, raised, crashes>>,
         pc' = [pc EXCEPT ![r] = step], local' = [local EXCEPT ![r] = l],
         step \in {"checkpoint", "resume", "run"} => l.graph # None,
         step \in {"snapshot", "record"} => checkpoint # None
  PROVE  TypeOK'
<1>1. pc' \in [Requests -> Steps] /\ local' \in [Requests -> Locals]
  BY DEF TypeOK, Locals
<1>2. ASSUME NEW q \in Requests
      PROVE  /\ pc'[q] \in {"checkpoint", "resume", "run"} => local'[q].graph # None
             /\ pc'[q] \in {"snapshot", "record"} => checkpoint' # None
  <2>1. CASE q = r
    BY <2>1 DEF TypeOK, data
  <2>2. CASE q # r
    BY <2>2 DEF TypeOK, data
  <2>. QED
    BY <2>1, <2>2
<1>. QED
  BY <1>1, <1>2 DEF TypeOK, Locals, data

\* The variables of a request are typed, before and after it is over.
LEMMA LocalsTyped ==
  ASSUME TypeOK, NEW r \in Requests
  PROVE  local[r] \in Locals /\ NoLocals \in Locals
BY DEF TypeOK, Locals, NoLocals

-----------------------------------------------------------------------------
\* The initial state and the steps, one lemma each

\* Nothing is checkpointed, decided or under way at the start.
LEMMA InitOK == Init => IInv
<1>. SUFFICES ASSUME Init PROVE IInv
  OBVIOUS
<1>1. TypeOK
  <2>1. NoLocals \in [asked : Decisions \cup {None}, seen : Draft \cup {None},
                     target : Statuses \cup {None}, previous : Statuses \cup {None},
                     graph : Checkpoints \cup {None}]
    BY DEF NoLocals
  <2>2. pc \in [Requests -> Steps] /\ \A r \in Requests : pc[r] = "ready"
    BY DEF Init, Steps
  <2>3. latest \in [1 .. Stages -> Nat]
    BY DEF Init
  <2>4. raised \in BOOLEAN
    BY DEF Init
  <2>5. crashes \in 0 .. MaxCrashes
    BY ServiceAssumption DEF Init
  <2>. QED
    BY <2>1, <2>2, <2>3, <2>4, <2>5 DEF Init, TypeOK
<1>2. SharedOK
  BY NoClaim DEF Init, SharedOK, PublishedLast, AppliedWasRecorded
<1>3. ASSUME NEW r \in Requests PROVE RequestOK(r)
  <2>1. pc[r] = "ready" /\ local[r] = NoLocals /\ checkpoint = None /\ applied = {}
    BY <1>3 DEF Init
  <2>2. Placed(r) /\ Opened(r) /\ Decided(r)
    BY <2>1 DEF Placed, Opened, Decided, NoLocals, Presented
  <2>3. Sound(local[r].graph, applied, latest, published)
    BY <2>1, NoClaim DEF NoLocals
  <2>4. Earned(local[r].target, checkpoint, applied, published)
    BY <2>1, NoClaim DEF NoLocals
  <2>. QED
    BY <2>2, <2>3, <2>4 DEF RequestOK
<1>. QED
  BY <1>1, <1>2, <1>3 DEF IInv

\* A client sends a request: it starts with nothing in hand but its decision.
LEMMA SendOK == ASSUME IInv, NEW r \in Requests, Send(r) PROVE IInv'
<1>1. TypeOK'
  BY DEF IInv, TypeOK, Send, Goto, data, Steps
<1>2. \A q \in Requests \ {r} : pc'[q] = pc[q] /\ local'[q] = local[q]
  BY DEF IInv, TypeOK, Send, Goto
<1>3. SharedOK' /\ Grows(r)
  BY <1>2, QuietStep DEF Send
<1>4. RequestOK(r)'
  BY RequestAssumption, NoneAssumption
  DEF IInv, TypeOK, Send, Goto, data, Requests, RequestOK, Placed, Opened, Decided
<1>. QED
  BY <1>1, <1>3, <1>4, StepOK

\* A review that is let through finds a run that has been presented once.
LEMMA CheckStatusOK == ASSUME IInv, NEW r \in Requests, CheckStatus(r) PROVE IInv'
<1>1. TypeOK'
  <2>1. TypeOK /\ local[r] \in Locals /\ NoLocals \in Locals
    BY LocalsTyped DEF IInv
  <2>2. "snapshot" \in Steps /\ "done" \in Steps /\ local = [local EXCEPT ![r] = local[r]]
    BY <2>1 DEF Steps, TypeOK
  <2>3. UNCHANGED <<data, raised, crashes>>
    BY DEF CheckStatus
  <2>4. CASE status = "waiting_for_review"
    <3>1. pc' = [pc EXCEPT ![r] = "snapshot"] /\ local' = [local EXCEPT ![r] = local[r]]
      BY <2>2, <2>4 DEF CheckStatus, Goto
    <3>2. checkpoint # None
      BY <2>4 DEF IInv, SharedOK, Earned, Presented
    <3>. QED
      BY <2>1, <2>2, <2>3, <3>1, <3>2, MoveTyped
  <2>5. CASE status # "waiting_for_review"
    <3>1. pc' = [pc EXCEPT ![r] = "done"] /\ local' = [local EXCEPT ![r] = NoLocals]
      BY <2>5 DEF CheckStatus, Goto, Ends
    <3>. QED
      BY <2>1, <2>2, <2>3, <3>1, MoveTyped
  <2>. QED
    BY <2>4, <2>5
<1>2. \A q \in Requests \ {r} : pc'[q] = pc[q] /\ local'[q] = local[q]
  BY DEF IInv, TypeOK, CheckStatus, Goto, Ends
<1>3. SharedOK' /\ Grows(r)
  BY <1>2, QuietStep DEF CheckStatus
<1>4. RequestOK(r)'
  <2>1. CASE status = "waiting_for_review"
    BY <2>1, RequestAssumption
    DEF IInv, TypeOK, CheckStatus, Goto, data, RequestOK, Placed, Opened, Decided, Earned, SharedOK
  <2>2. CASE status # "waiting_for_review"
    BY <2>2, OverOK DEF IInv, TypeOK, CheckStatus, Goto, Ends
  <2>. QED
    BY <2>1, <2>2
<1>. QED
  BY <1>1, <1>3, <1>4, StepOK

\* The snapshot a review reads has a draft to record the decision for.
LEMMA ReadSnapshotOK == ASSUME IInv, NEW r \in Requests, ReadSnapshot(r) PROVE IInv'
<1>1. TypeOK'
  <2>. DEFINE l == [local[r] EXCEPT !.seen = checkpoint.draft]
  <2>1. TypeOK /\ local[r] \in Locals /\ "record" \in Steps
    BY LocalsTyped DEF IInv, Steps
  <2>2. checkpoint # None /\ checkpoint.draft \in Draft \cup {None}
    BY DEF IInv, TypeOK, ReadSnapshot, Checkpoints
  <2>3. l \in Locals
    BY <2>1, <2>2 DEF Locals
  <2>4. /\ pc' = [pc EXCEPT ![r] = "record"] /\ local' = [local EXCEPT ![r] = l]
        /\ UNCHANGED <<data, raised, crashes>>
    BY DEF ReadSnapshot, Goto
  <2>. QED
    BY <2>1, <2>2, <2>3, <2>4, MoveTyped
<1>2. \A q \in Requests \ {r} : pc'[q] = pc[q] /\ local'[q] = local[q]
  BY DEF IInv, TypeOK, ReadSnapshot, Goto
<1>3. SharedOK' /\ Grows(r)
  BY <1>2, QuietStep DEF ReadSnapshot
<1>4. RequestOK(r)'
  BY RequestAssumption, NoneAssumption
  DEF IInv, TypeOK, ReadSnapshot, Goto, data, RequestOK, Placed, Opened, Decided, Presented,
      Checkpoints
<1>. QED
  BY <1>1, <1>3, <1>4, StepOK

\* Reading the status row takes nothing for granted.
LEMMA ReadStatusOK == ASSUME IInv, NEW r \in Requests, ReadStatus(r) PROVE IInv'
<1>1. TypeOK'
  <2>. DEFINE l == [local[r] EXCEPT !.previous = status]
  <2>1. TypeOK /\ local[r] \in Locals /\ "write_status" \in Steps
    BY LocalsTyped DEF IInv, Steps
  <2>2. l \in Locals
    BY <2>1 DEF Locals, IInv, TypeOK
  <2>3. /\ pc' = [pc EXCEPT ![r] = "write_status"] /\ local' = [local EXCEPT ![r] = l]
        /\ UNCHANGED <<data, raised, crashes>>
    BY DEF ReadStatus, Goto
  <2>. HIDE DEF l
  <2>. QED
    BY <2>1, <2>2, <2>3, MoveTyped
<1>2. \A q \in Requests \ {r} : pc'[q] = pc[q] /\ local'[q] = local[q]
  BY DEF IInv, TypeOK, ReadStatus, Goto
<1>3. SharedOK' /\ Grows(r)
  BY <1>2, QuietStep DEF ReadStatus
<1>4. RequestOK(r)'
  BY RequestAssumption
  DEF IInv, TypeOK, ReadStatus, Goto, data, RequestOK, Placed, Opened, Decided
<1>. QED
  BY <1>1, <1>3, <1>4, StepOK

\* An invocation starts from a sound state, the input or a checkpoint.
LEMMA LoadOK == ASSUME IInv, NEW r \in Requests, Load(r) PROVE IInv'
<1>1. \A q \in Requests \ {r} : pc'[q] = pc[q] /\ local'[q] = local[q]
  BY DEF IInv, TypeOK, Load, Goto
<1>2. SharedOK' /\ Grows(r)
  BY <1>1, QuietStep DEF Load
<1>3. CASE r = Start
  <2>1. Initial \in Checkpoints
    BY StagesAssumption DEF Initial, Checkpoints
  <2>2. pc' = [pc EXCEPT ![r] = "checkpoint"] /\ local' = [local EXCEPT ![r].graph = Initial]
    BY <1>3 DEF Load, Goto, Initial
  <2>3. TypeOK'
    BY <2>1, <2>2, NoneAssumption DEF IInv, TypeOK, Load, data, Steps
  <2>4. Placed(r)' /\ Opened(r)' /\ Decided(r)'
    BY <1>3, <2>1, <2>2, RequestAssumption, NoneAssumption
    DEF IInv, TypeOK, Load, data, RequestOK, Placed, Opened, Decided, Presented
  <2>5. Sound(Initial, applied, latest, published)
    BY DEF Initial, Sound
  <2>6. RequestOK(r)'
    BY <2>2, <2>4, <2>5 DEF IInv, TypeOK, Load, data, RequestOK
  <2>. QED
    BY <1>2, <2>3, <2>6, StepOK
<1>4. CASE r # Start
  <2>1. r \in Reviews /\ Presented(checkpoint)
    BY <1>4 DEF Requests, IInv, RequestOK, Opened, Load
  <2>2. /\ pc' \in {[pc EXCEPT ![r] = "resume"], [pc EXCEPT ![r] = "sync_snapshot"],
                   [pc EXCEPT ![r] = "run"]}
        /\ pc'[r] = "resume" => checkpoint.node = "gate"
        /\ local' = [local EXCEPT ![r].graph = checkpoint]
    BY <1>4 DEF Load, Goto, IInv, TypeOK
  <2>3. TypeOK'
    <3>. DEFINE l == [local[r] EXCEPT !.graph = checkpoint]
    <3>1. TypeOK /\ local[r] \in Locals /\ {"resume", "sync_snapshot", "run"} \subseteq Steps
      BY LocalsTyped DEF IInv, Steps
    <3>2. checkpoint \in Checkpoints \cup {None} /\ checkpoint # None
      BY <2>1 DEF IInv, TypeOK, Presented
    <3>3. l \in Locals /\ l.graph = checkpoint
      BY <3>1, <3>2 DEF Locals
    <3>4. PICK step \in {"resume", "sync_snapshot", "run"} : pc' = [pc EXCEPT ![r] = step]
      BY <2>2
    <3>5. local' = [local EXCEPT ![r] = l] /\ UNCHANGED <<data, raised, crashes>>
      BY <2>2 DEF Load
    <3>. HIDE DEF l
    <3>. QED
      BY <3>1, <3>2, <3>3, <3>4, <3>5, MoveTyped
  <2>4. Placed(r)'
    BY <2>1, <2>2 DEF IInv, TypeOK, Placed, Presented
  <2>5. Opened(r)' /\ Decided(r)'
    BY <1>4, <2>1, <2>2
    DEF IInv, TypeOK, Load, data, RequestOK, Placed, Opened, Decided, Presented
  <2>6. Sound(checkpoint, applied, latest, published)
    BY DEF IInv, SharedOK
  <2>7. RequestOK(r)'
    BY <2>2, <2>4, <2>5, <2>6 DEF IInv, TypeOK, Load, data, RequestOK
  <2>. QED
    BY <1>2, <2>3, <2>7, StepOK
<1>. QED
  BY <1>3, <1>4

\* The status of a sound checkpoint is earned.
LEMMA StatusOfSound ==
  ASSUME NEW c \in Checkpoints, NEW ap, NEW la, NEW pu, Sound(c, ap, la, pu), Presented(c)
  PROVE  Earned(StatusOf(c), c, ap, pu) /\ StatusOf(c) \in Statuses
<1>1. CASE c.node = "gate"
  BY <1>1 DEF StatusOf, Statuses, Earned
<1>2. CASE c.node = "end"
  <2>1. c # None
    BY DEF Presented
  <2>2. \/ c.decision = "approve" /\ pu # {}
        \/ c.decision = "reject" /\ Rejected(ap)
    BY <1>2, <2>1 DEF Sound
  <2>3. CASE c.decision = "approve" /\ pu # {}
    <3>1. StatusOf(c) = "approved"
      BY <1>2, <2>3 DEF StatusOf
    <3>. QED
      BY <3>1, <2>3 DEF Statuses, Earned
  <2>4. CASE c.decision = "reject" /\ Rejected(ap)
    <3>1. StatusOf(c) = "terminated"
      BY <1>2, <2>4 DEF StatusOf
    <3>. QED
      BY <3>1, <2>4 DEF Statuses, Earned
  <2>. QED
    BY <2>2, <2>3, <2>4
<1>3. CASE c.node \notin {"gate", "end"}
  BY <1>3 DEF StatusOf, Statuses, Earned
<1>. QED
  BY <1>1, <1>2, <1>3

\* The status worked out from the checkpoint is one the checkpoint earns.
LEMMA SyncSnapshotOK == ASSUME IInv, NEW r \in Requests, SyncSnapshot(r) PROVE IInv'
<1>1. Presented(checkpoint) /\ checkpoint \in Checkpoints
  BY DEF SyncSnapshot, IInv, RequestOK, Opened, TypeOK, Presented
<1>2. Earned(StatusOf(checkpoint), checkpoint, applied, published)
      /\ StatusOf(checkpoint) \in Statuses
  BY <1>1, StatusOfSound DEF IInv, SharedOK
<1>3. /\ pc' = [pc EXCEPT ![r] = "sync_check"]
      /\ local' = [local EXCEPT ![r].target = StatusOf(checkpoint)]
  BY DEF SyncSnapshot, Goto
<1>4. TypeOK'
  <2>. DEFINE l == [local[r] EXCEPT !.target = StatusOf(checkpoint)]
  <2>1. TypeOK /\ local[r] \in Locals /\ "sync_check" \in Steps
    BY LocalsTyped DEF IInv, Steps
  <2>2. l \in Locals
    BY <1>2, <2>1 DEF Locals
  <2>3. /\ pc' = [pc EXCEPT ![r] = "sync_check"] /\ local' = [local EXCEPT ![r] = l]
        /\ UNCHANGED <<data, raised, crashes>>
    BY <1>3 DEF SyncSnapshot
  <2>. HIDE DEF l
  <2>. QED
    BY <2>1, <2>2, <2>3, MoveTyped
<1>5. SharedOK' /\ Grows(r)
  BY <1>3, QuietStep DEF SyncSnapshot, IInv, TypeOK
<1>6. Placed(r)' /\ Opened(r)' /\ Decided(r)'
  BY <1>3, RequestAssumption
  DEF IInv, TypeOK, SyncSnapshot, data, RequestOK, Placed, Opened, Decided
<1>7. RequestOK(r)'
  BY <1>2, <1>3, <1>6 DEF IInv, TypeOK, SyncSnapshot, data, RequestOK
<1>. QED
  BY <1>4, <1>5, <1>7, StepOK

\* Comparing the status changes nothing but the request.
LEMMA SyncCheckOK == ASSUME IInv, NEW r \in Requests, SyncCheck(r) PROVE IInv'
<1>1. TypeOK'
  <2>1. TypeOK /\ local[r] \in Locals /\ NoLocals \in Locals
    BY LocalsTyped DEF IInv
  <2>2. "read_status" \in Steps /\ "done" \in Steps /\ local = [local EXCEPT ![r] = local[r]]
    BY <2>1 DEF Steps, TypeOK
  <2>3. UNCHANGED <<data, raised, crashes>>
    BY DEF SyncCheck
  <2>4. CASE status = local[r].target
    <3>1. pc' = [pc EXCEPT ![r] = "done"] /\ local' = [local EXCEPT ![r] = NoLocals]
      BY <2>4 DEF SyncCheck, Goto, Ends
    <3>. QED
      BY <2>1, <2>2, <2>3, <3>1, MoveTyped
  <2>5. CASE status # local[r].target
    <3>1. pc' = [pc EXCEPT ![r] = "read_status"] /\ local' = [local EXCEPT ![r] = local[r]]
      BY <2>2, <2>5 DEF SyncCheck, Goto
    <3>. QED
      BY <2>1, <2>2, <2>3, <3>1, MoveTyped
  <2>. QED
    BY <2>4, <2>5
<1>2. \A q \in Requests \ {r} : pc'[q] = pc[q] /\ local'[q] = local[q]
  BY DEF IInv, TypeOK, SyncCheck, Goto, Ends
<1>3. SharedOK' /\ Grows(r)
  BY <1>2, QuietStep DEF SyncCheck
<1>4. RequestOK(r)'
  <2>1. CASE status = local[r].target
    BY <2>1, OverOK DEF IInv, TypeOK, SyncCheck, Goto, Ends
  <2>2. CASE status # local[r].target
    BY <2>2, RequestAssumption
    DEF IInv, TypeOK, SyncCheck, Goto, data, RequestOK, Placed, Opened, Decided
  <2>. QED
    BY <2>1, <2>2
<1>. QED
  BY <1>1, <1>3, <1>4, StepOK

\* A new run is created with a status that claims nothing.
LEMMA CreateRunOK == ASSUME IInv, NEW r \in Requests, CreateRun(r) PROVE IInv'
<1>1. /\ pc' = [pc EXCEPT ![r] = "read_status"]
      /\ local' = [local EXCEPT ![r].target = "running"]
  BY DEF CreateRun, Goto
<1>2. TypeOK'
  BY <1>1 DEF IInv, TypeOK, CreateRun, Steps, Statuses
<1>3. Grows(r)
  BY <1>1 DEF IInv, TypeOK, CreateRun, Grows
<1>4. Earned("created", checkpoint, applied, published)
      /\ Earned("running", checkpoint, applied, published)
  BY DEF Earned
<1>5. SharedOK'
  BY <1>4 DEF IInv, SharedOK, CreateRun, PublishedLast, AppliedWasRecorded
<1>6. Placed(r)' /\ Opened(r)' /\ Decided(r)'
  BY <1>1, RequestAssumption
  DEF IInv, TypeOK, CreateRun, RequestOK, Placed, Opened, Decided
<1>7. RequestOK(r)'
  BY <1>1, <1>4, <1>6 DEF IInv, TypeOK, CreateRun, RequestOK
<1>. QED
  BY <1>2, <1>3, <1>5, <1>7, StepOK

\* The decision is recorded before the request invokes the graph.
LEMMA RecordReviewOK == ASSUME IInv, NEW r \in Requests, RecordReview(r) PROVE IInv'
<1>1. /\ pc' = [pc EXCEPT ![r] = "read_status"]
      /\ local' = [local EXCEPT ![r].seen = None, ![r].target = "running"]
  BY DEF RecordReview, Goto
<1>2. r \in Reviews /\ local[r].seen \in Draft /\ local[r].asked \in Decisions
  BY DEF IInv, RequestOK, Placed, Decided, RecordReview
<1>3. TypeOK'
  <2>1. [by |-> r, draft |-> local[r].seen, decision |-> local[r].asked]
          \in [by : Reviews, draft : Draft, decision : Decisions]
    BY <1>2
  <2>2. recorded' \subseteq [by : Reviews, draft : Draft, decision : Decisions]
    BY <2>1 DEF IInv, TypeOK, RecordReview
  <2>3. local' \in [Requests -> [asked : Decisions \cup {None}, seen : Draft \cup {None},
                               target : Statuses \cup {None}, previous : Statuses \cup {None},
                               graph : Checkpoints \cup {None}]]
    <3>. DEFINE l == [local[r] EXCEPT !.seen = None, !.target = "running"]
    <3>1. local[r] \in Locals /\ local \in [Requests -> Locals]
      BY DEF IInv, TypeOK, Locals
    <3>2. l \in Locals
      BY <3>1 DEF Locals, Statuses
    <3>3. local' = [local EXCEPT ![r] = l]
      BY <1>1
    <3>. HIDE DEF l
    <3>. QED
      BY <3>1, <3>2, <3>3 DEF Locals
  <2>4. pc' \in [Requests -> Steps]
    BY <1>1 DEF IInv, TypeOK, Steps
  <2>5. \A q \in Requests : pc'[q] = pc[q] \/ pc'[q] = "read_status"
    BY <1>1 DEF IInv, TypeOK
  <2>6. \A q \in Requests : pc'[q] # "read_status" => local'[q] = local[q]
    BY <1>1 DEF IInv, TypeOK
  <2>. QED
    BY <2>2, <2>3, <2>4, <2>5, <2>6 DEF IInv, TypeOK, RecordReview
<1>4. Grows(r)
  BY <1>1 DEF IInv, TypeOK, RecordReview, Grows
<1>5. SharedOK'
  BY DEF IInv, SharedOK, RecordReview, PublishedLast, AppliedWasRecorded
<1>6. Earned("running", checkpoint, applied, published)
  BY DEF Earned
<1>7. Placed(r)' /\ Opened(r)'
  BY <1>1, <1>2, RequestAssumption
  DEF IInv, TypeOK, RecordReview, RequestOK, Placed, Opened
<1>8. Decided(r)'
  <2>1. local'[r].asked = local[r].asked /\ pc'[r] = "read_status"
    BY <1>1 DEF IInv, TypeOK
  <2>2. \E e \in recorded' : e.by = r /\ e.decision = local[r].asked
    <3>. DEFINE event == [by |-> r, draft |-> local[r].seen, decision |-> local[r].asked]
    <3>1. event \in recorded'
      BY DEF RecordReview
    <3>2. event.by = r /\ event.decision = local[r].asked
      OBVIOUS
    <3>. HIDE DEF event
    <3>. QED
      BY <3>1, <3>2
  <2>3. \A a \in applied' : a.by # r
    BY DEF IInv, RequestOK, Placed, Decided, RecordReview
  <2>. QED
    BY <1>2, <2>1, <2>2, <2>3 DEF Decided
<1>9. RequestOK(r)'
  BY <1>1, <1>6, <1>7, <1>8 DEF IInv, TypeOK, RecordReview, RequestOK
<1>. QED
  BY <1>3, <1>4, <1>5, <1>9, StepOK

\* The status written late was earned when it was worked out, and still is.
LEMMA WriteStatusOK == ASSUME IInv, NEW r \in Requests, WriteStatus(r) PROVE IInv'
<1>1. CASE local[r].graph = None
  <2>1. /\ pc' = [pc EXCEPT ![r] = "load"]
        /\ local' = [local EXCEPT ![r].target = None, ![r].previous = None]
    BY <1>1 DEF WriteStatus, Goto
  <2>2. TypeOK'
    <3>. DEFINE l == [local[r] EXCEPT !.target = None, !.previous = None]
    <3>1. local[r] \in Locals /\ local \in [Requests -> Locals]
      BY DEF IInv, TypeOK, Locals
    <3>2. l \in Locals
      BY <3>1 DEF Locals
    <3>3. local' = [local EXCEPT ![r] = l]
      BY <2>1
    <3>. HIDE DEF l
    <3>4. local' \in [Requests -> Locals] /\ pc' \in [Requests -> Steps]
      <4>1. local' \in [Requests -> Locals]
        BY <3>1, <3>2, <3>3
      <4>2. pc \in [Requests -> Steps] /\ "load" \in Steps
        BY DEF IInv, TypeOK, Steps
      <4>. QED
        BY <2>1, <4>1, <4>2
    <3>5. status' \in Statuses \cup {None}
      BY DEF IInv, TypeOK, WriteStatus
    <3>6. ASSUME NEW q \in Requests
          PROVE  /\ pc'[q] \in {"checkpoint", "resume", "run"} => local'[q].graph # None
                 /\ pc'[q] \in {"snapshot", "record"} => checkpoint' # None
      <4>1. q = r => pc'[q] = "load"
        BY <2>1 DEF IInv, TypeOK
      <4>2. q # r => pc'[q] = pc[q] /\ local'[q] = local[q]
        BY <2>1, <3>1, <3>3 DEF IInv, TypeOK
      <4>3. checkpoint' = checkpoint
        BY DEF WriteStatus
      <4>4. /\ pc[q] \in {"checkpoint", "resume", "run"} => local[q].graph # None
            /\ pc[q] \in {"snapshot", "record"} => checkpoint # None
        BY DEF IInv, TypeOK
      <4>. QED
        BY <4>1, <4>2, <4>3, <4>4
    <3>. QED
      BY <3>4, <3>5, <3>6 DEF IInv, TypeOK, WriteStatus, Locals
  <2>3. Grows(r)
    BY <2>1 DEF IInv, TypeOK, WriteStatus, Grows
  <2>4. SharedOK'
    BY DEF IInv, SharedOK, RequestOK, WriteStatus, PublishedLast, AppliedWasRecorded
  <2>5. Placed(r)' /\ Opened(r)' /\ Decided(r)'
    BY <1>1, <2>1, RequestAssumption
    DEF IInv, TypeOK, WriteStatus, RequestOK, Placed, Opened, Decided
  <2>6. RequestOK(r)'
    BY <2>1, <2>5, NoClaim DEF IInv, TypeOK, WriteStatus, RequestOK
  <2>. QED
    BY <2>2, <2>3, <2>4, <2>6, StepOK
<1>2. CASE local[r].graph # None
  <2>1. /\ pc' = [pc EXCEPT ![r] = "done"]
        /\ local' = [local EXCEPT ![r] = NoLocals]
    BY <1>2 DEF WriteStatus, Goto, Ends
  <2>2. TypeOK'
    BY <2>1 DEF IInv, TypeOK, WriteStatus, Steps, NoLocals
  <2>3. Grows(r)
    BY <2>1 DEF IInv, TypeOK, WriteStatus, Grows
  <2>4. SharedOK'
    BY DEF IInv, SharedOK, RequestOK, WriteStatus, PublishedLast, AppliedWasRecorded
  <2>5. RequestOK(r)'
    BY <2>1, OverOK DEF IInv, TypeOK
  <2>. QED
    BY <2>2, <2>3, <2>4, <2>5, StepOK
<1>. QED
  BY <1>1, <1>2

\* The state written over the latest checkpoint is as sound as that one.
LEMMA WriteCheckpointOK == ASSUME IInv, NEW r \in Requests, WriteCheckpoint(r) PROVE IInv'
<1>1. pc' \in {[pc EXCEPT ![r] = "sync_snapshot"], [pc EXCEPT ![r] = "run"]}
  BY DEF WriteCheckpoint, Goto
<1>2. local[r].graph \in Checkpoints /\ Sound(local[r].graph, applied, latest, published)
  BY DEF IInv, TypeOK, RequestOK, Placed, WriteCheckpoint
<1>3. local[r].graph # None
  BY <1>2, NoneAssumption
<1>4. TypeOK'
  BY <1>1, <1>2, <1>3 DEF IInv, TypeOK, WriteCheckpoint, Steps
<1>5. Presented(checkpoint) => Presented(checkpoint')
  BY <1>2, <1>3 DEF IInv, RequestOK, Opened, WriteCheckpoint, Presented, Sound, Requests
<1>6. r \in Reviews => Presented(checkpoint) /\ Presented(checkpoint')
  BY <1>3 DEF IInv, RequestOK, Opened, WriteCheckpoint, Presented
<1>7. Grows(r)
  BY <1>1, <1>5, <1>6 DEF IInv, TypeOK, WriteCheckpoint, Grows
<1>8. SharedOK'
  <2>1. Earned(status, checkpoint', applied, published)
    BY <1>5, EarnedGrows DEF IInv, SharedOK
  <2>. QED
    BY <1>2, <2>1 DEF IInv, SharedOK, WriteCheckpoint, PublishedLast, AppliedWasRecorded
<1>9. RequestOK(r)'
  <2>1. Placed(r)'
    BY <1>1, <1>3 DEF IInv, TypeOK, WriteCheckpoint, Placed
  <2>2. Opened(r)'
    <3>1. pc'[r] = "sync_snapshot" => local[r].graph # Initial
      BY <1>1, <1>2 DEF IInv, TypeOK, WriteCheckpoint, Goto, Initial
    <3>2. Presented(local[r].graph) \/ local[r].graph = Initial
      BY <1>2, <1>3 DEF Sound, Presented
    <3>. QED
      BY <1>1, <1>3, <1>6, <3>1, <3>2, RequestAssumption
      DEF IInv, TypeOK, WriteCheckpoint, RequestOK, Opened, Presented, Initial
  <2>3. Decided(r)'
    BY <1>1, <1>3 DEF IInv, TypeOK, WriteCheckpoint, RequestOK, Decided
  <2>4. Earned(local[r].target, checkpoint', applied, published)
    BY <1>5, EarnedGrows DEF IInv, RequestOK
  <2>. QED
    BY <1>2, <2>1, <2>2, <2>3, <2>4 DEF WriteCheckpoint, RequestOK
<1>. QED
  BY <1>4, <1>7, <1>8, <1>9, StepOK

-----------------------------------------------------------------------------
\* The nodes

\* A node keeps the invariant if the state it returns is sound, with a draft,
\* and what it does to the store and the decisions keeps theirs.
LEMMA ReturnsOK ==
  ASSUME IInv, NEW r \in Requests, NEW state \in Checkpoints, pc[r] \in {"resume", "run"},
         Returns(r, state), state.draft # None,
         latest' \in [1 .. Stages -> Nat], \A s \in 1 .. Stages : latest[s] <= latest'[s],
         published' \subseteq Nat, published \subseteq published',
         applied' \subseteq [by : Reviews, draft : Draft, decision : Decisions],
         applied \subseteq applied', \A a \in applied' : a \in applied \/ a.by = r,
         Sound(state, applied', latest', published'), PublishedLast', AppliedWasRecorded'
  PROVE  IInv'
<1>1. /\ pc' = [pc EXCEPT ![r] = "checkpoint"]
      /\ local' = [local EXCEPT ![r].graph = state]
      /\ UNCHANGED <<status, checkpoint, recorded, raised, crashes>>
  BY DEF Returns, Goto
<1>2. state # None
  BY NoneAssumption
<1>3. TypeOK'
  <2>. DEFINE l == [local[r] EXCEPT !.graph = state]
  <2>1. local[r] \in Locals /\ local \in [Requests -> Locals] /\ pc \in [Requests -> Steps]
    BY DEF IInv, TypeOK, Locals
  <2>2. l \in Locals /\ l.graph # None
    BY <1>2, <2>1 DEF Locals
  <2>3. local' = [local EXCEPT ![r] = l]
    BY <1>1
  <2>. HIDE DEF l
  <2>4. local' \in [Requests -> Locals] /\ pc' \in [Requests -> Steps]
    BY <1>1, <2>1, <2>2, <2>3 DEF Steps
  <2>5. ASSUME NEW q \in Requests
        PROVE  /\ pc'[q] \in {"checkpoint", "resume", "run"} => local'[q].graph # None
               /\ pc'[q] \in {"snapshot", "record"} => checkpoint' # None
    <3>1. q = r => pc'[q] = "checkpoint" /\ local'[q] = l
      BY <1>1, <2>1, <2>3
    <3>2. q # r => pc'[q] = pc[q] /\ local'[q] = local[q]
      BY <1>1
    <3>3. /\ pc[q] \in {"checkpoint", "resume", "run"} => local[q].graph # None
          /\ pc[q] \in {"snapshot", "record"} => checkpoint # None
      BY DEF IInv, TypeOK
    <3>. QED
      BY <1>1, <2>2, <3>1, <3>2, <3>3
  <2>. QED
    BY <1>1, <2>4, <2>5 DEF IInv, TypeOK, Locals
<1>4. Grows(r)
  BY <1>1 DEF IInv, TypeOK, Grows
<1>5. SharedOK'
  <2>1. Sound(checkpoint, applied', latest', published')
    BY SoundGrows DEF IInv, TypeOK, SharedOK
  <2>2. Earned(status, checkpoint, applied', published')
    BY EarnedGrows DEF IInv, SharedOK
  <2>. QED
    BY <1>1, <2>1, <2>2 DEF SharedOK
<1>6. RequestOK(r)'
  <2>1. Placed(r)' /\ Decided(r)'
    BY <1>1, <1>2 DEF IInv, TypeOK, RequestOK, Placed, Decided
  <2>2. Opened(r)'
    BY <1>1, <1>2, RequestAssumption DEF IInv, TypeOK, RequestOK, Opened, Presented, Initial
  <2>3. local'[r].graph = state /\ local'[r].target = local[r].target
    BY <1>1 DEF IInv, TypeOK
  <2>4. Earned(local[r].target, checkpoint, applied', published')
    BY EarnedGrows DEF IInv, RequestOK
  <2>. QED
    BY <1>1, <2>1, <2>2, <2>3, <2>4 DEF RequestOK
<1>. QED
  BY <1>3, <1>4, <1>5, <1>6, StepOK

\* Whatever is decided at a sound gate, the state the graph goes on with is
\* sound again: the decision itself is what justifies it.
LEMMA DecisionSound ==
  ASSUME NEW c \in Checkpoints, NEW ap, NEW la, NEW pu, c.node = "gate", Sound(c, ap, la, pu),
         NEW d \in Decisions, NEW e, e.draft = c.draft, e.decision = d,
         NEW n, n = AfterDecision(c.stage, d),
         NEW c2, c2 = [node |-> n.node, stage |-> n.stage, draft |-> c.draft, decision |-> d]
  PROVE  /\ c2 \in Checkpoints
         /\ c2.draft \in Draft
         /\ Sound(c2, ap \cup {e}, la, pu)
<1>. DEFINE ap2 == ap \cup {e}
<1>1. c # None /\ c.stage \in 1 .. Stages
  BY NoneAssumption DEF Checkpoints
<1>2. c.draft \in Draft /\ c.draft.stage = c.stage
  BY <1>1 DEF Sound, Checkpoints
<1>3. \A s \in 1 .. c.stage - 1 : Approved(s, ap2)
  BY <1>1 DEF Sound, Approved
<1>4. d = "approve" => Approved(c.stage, ap2)
  BY <1>2 DEF Approved
<1>5. d = "reject" => Rejected(ap2)
  BY DEF Rejected
<1>6. c.draft # None
  BY <1>2, NoneAssumption
<1>. HIDE DEF ap2
<1>7. CASE d = "approve" /\ c.stage < Stages
  <2>1. n = [node |-> "generate", stage |-> c.stage + 1]
    BY <1>1, <1>7 DEF AfterDecision
  <2>2. c2 = [node |-> "generate", stage |-> c.stage + 1, draft |-> c.draft, decision |-> d]
    BY <2>1
  <2>3. c2 \in Checkpoints
    BY <1>1, <1>2, <1>7, <2>2, StagesAssumption DEF Checkpoints
  <2>4. \A s \in 1 .. c2.stage - 1 : Approved(s, ap2)
    BY <1>1, <1>3, <1>4, <1>7, <2>2
  <2>5. Sound(c2, ap2, la, pu)
    BY <1>6, <2>2, <2>4 DEF Sound
  <2>. QED
    BY <1>2, <2>2, <2>3, <2>5 DEF ap2
<1>8. CASE d = "approve" /\ c.stage = Stages
  <2>1. n = [node |-> "approved", stage |-> c.stage]
    BY <1>1, <1>8 DEF AfterDecision
  <2>2. c2 = [node |-> "approved", stage |-> c.stage, draft |-> c.draft, decision |-> d]
    BY <2>1
  <2>3. c2 \in Checkpoints
    BY <1>1, <1>2, <2>2 DEF Checkpoints
  <2>4. \A s \in 1 .. Stages : Approved(s, ap2)
    BY <1>1, <1>3, <1>4, <1>8, StagesAssumption
  <2>5. Sound(c2, ap2, la, pu)
    BY <1>3, <1>6, <2>2, <2>4 DEF Sound
  <2>. QED
    BY <1>2, <2>2, <2>3, <2>5 DEF ap2
<1>9. CASE d = "reject"
  <2>1. n = [node |-> "terminated", stage |-> c.stage]
    BY <1>9 DEF AfterDecision
  <2>2. c2 = [node |-> "terminated", stage |-> c.stage, draft |-> c.draft, decision |-> d]
    BY <2>1
  <2>3. c2 \in Checkpoints
    BY <1>1, <1>2, <2>2 DEF Checkpoints
  <2>4. Sound(c2, ap2, la, pu)
    BY <1>3, <1>5, <1>6, <1>9, <2>2 DEF Sound
  <2>. QED
    BY <1>2, <2>2, <2>3, <2>4 DEF ap2
<1>10. CASE d = "request_revisions"
  <2>1. n = [node |-> "generate", stage |-> c.stage]
    BY <1>10 DEF AfterDecision
  <2>2. c2 = [node |-> "generate", stage |-> c.stage, draft |-> c.draft, decision |-> d]
    BY <2>1
  <2>3. c2 \in Checkpoints
    BY <1>1, <1>2, <2>2 DEF Checkpoints
  <2>4. Sound(c2, ap2, la, pu)
    BY <1>3, <1>6, <2>2 DEF Sound
  <2>. QED
    BY <1>2, <2>2, <2>3, <2>4 DEF ap2
<1>. QED
  BY <1>1, <1>7, <1>8, <1>9, <1>10, StagesAssumption DEF Decisions

\* What is known of the state of an invocation that is in the graph.
LEMMA InGraph ==
  ASSUME IInv, NEW r \in Requests, pc[r] \in {"resume", "run"}
  PROVE  /\ local[r].graph \in Checkpoints
         /\ local[r].graph # None
         /\ Sound(local[r].graph, applied, latest, published)
         /\ latest \in [1 .. Stages -> Nat]
BY DEF IInv, TypeOK, RequestOK, Placed

\* A gate takes the recorded decision, once, and goes on to a sound state.
LEMMA ResumeOK == ASSUME IInv, NEW r \in Requests, Resume(r) PROVE IInv'
<1>. DEFINE c == local[r].graph
            d == local[r].asked
            e == [by |-> r, draft |-> local[r].graph.draft, decision |-> local[r].asked]
            n == AfterDecision(local[r].graph.stage, local[r].asked)
            c2 == [node |-> n.node, stage |-> n.stage, draft |-> c.draft, decision |-> d]
<1>1. /\ c \in Checkpoints /\ c.node = "gate" /\ Sound(c, applied, latest, published)
      /\ d \in Decisions /\ r \in Reviews /\ \A a \in applied : a.by # r
      /\ \E x \in recorded : x.by = r /\ x.decision = d
  BY InGraph DEF Resume, IInv, RequestOK, Placed, Decided
<1>2. Returns(r, c2) /\ applied' = applied \cup {e} /\ UNCHANGED <<latest, published>>
  BY DEF Resume
<1>3. e.by = r /\ e.draft = c.draft /\ e.decision = d
  OBVIOUS
<1>. HIDE DEF c, d, e, n
<1>4. c2 \in Checkpoints /\ c2.draft \in Draft /\ Sound(c2, applied \cup {e}, latest, published)
  <2>1. n = AfterDecision(c.stage, d)
    BY DEF n, c, d
  <2>2. c2 = [node |-> n.node, stage |-> n.stage, draft |-> c.draft, decision |-> d]
    OBVIOUS
  <2>. HIDE DEF c2
  <2>. QED
    BY <1>1, <1>3, <2>1, <2>2, DecisionSound
<1>5. c2.draft # None
  BY <1>4, NoneAssumption
<1>6. e \in [by : Reviews, draft : Draft, decision : Decisions]
  BY <1>1, <1>4 DEF c, d, e
<1>7. PublishedLast'
  BY <1>2 DEF IInv, SharedOK, PublishedLast, Approved
<1>8. AppliedWasRecorded'
  BY <1>1, <1>2, <1>3 DEF IInv, SharedOK, AppliedWasRecorded, Returns
<1>. HIDE DEF c2
<1>. QED
  <2>1. /\ latest' \in [1 .. Stages -> Nat] /\ \A s \in 1 .. Stages : latest[s] <= latest'[s]
        /\ published' \subseteq Nat /\ published \subseteq published'
    BY <1>2 DEF IInv, TypeOK
  <2>2. /\ applied' \subseteq [by : Reviews, draft : Draft, decision : Decisions]
        /\ applied \subseteq applied' /\ \A a \in applied' : a \in applied \/ a.by = r
    BY <1>2, <1>3, <1>6 DEF IInv, TypeOK
  <2>3. Sound(c2, applied', latest', published')
    BY <1>2, <1>4
  <2>4. pc[r] \in {"resume", "run"}
    BY DEF Resume
  <2>. QED
    BY <1>2, <1>4, <1>5, <1>7, <1>8, <2>1, <2>2, <2>3, <2>4, ReturnsOK

\* A stage presents the version it has just stored.
LEMMA GenerateOK == ASSUME IInv, NEW r \in Requests, Generate(r) PROVE IInv'
<1>. DEFINE s == local[r].graph.stage
            v == latest[s] + 1
            c2 == [node |-> "gate", stage |-> s, decision |-> None,
                   draft |-> [stage |-> s, version |-> v]]
<1>1. /\ s \in 1 .. Stages /\ latest \in [1 .. Stages -> Nat]
      /\ \A i \in 1 .. s - 1 : Approved(i, applied)
  BY InGraph DEF Generate, Checkpoints, Sound
<1>2. /\ Returns(r, c2) /\ latest' = [latest EXCEPT ![s] = v]
      /\ UNCHANGED <<published, applied, recorded>>
  BY DEF Generate, NewVersion, Returns
<1>. HIDE DEF s
<1>3. [stage |-> s, version |-> v] \in Draft
  BY <1>1 DEF Draft
<1>4. c2 \in Checkpoints /\ c2.draft # None
  BY <1>1, <1>3, NoneAssumption DEF Checkpoints
<1>5. latest' \in [1 .. Stages -> Nat] /\ latest'[s] = v /\ v \in Nat \ {0}
  BY <1>1, <1>2
<1>6. \A i \in 1 .. Stages : latest[i] <= latest'[i]
  BY <1>1, <1>2
<1>7. Sound(c2, applied', latest', published')
  <2>1. c2.draft.version \in 1 .. latest'[c2.stage]
    BY <1>5
  <2>. QED
    BY <1>1, <1>2, <1>4, <2>1 DEF Sound
<1>8. PublishedLast' /\ AppliedWasRecorded'
  BY <1>2 DEF IInv, SharedOK, PublishedLast, AppliedWasRecorded
<1>9. /\ published' \subseteq Nat /\ published \subseteq published'
      /\ applied' \subseteq [by : Reviews, draft : Draft, decision : Decisions]
      /\ applied \subseteq applied' /\ \A a \in applied' : a \in applied \/ a.by = r
      /\ pc[r] \in {"resume", "run"}
  BY <1>2 DEF IInv, TypeOK, Generate
<1>. HIDE DEF c2, v
<1>. QED
  BY <1>2, <1>4, <1>5, <1>6, <1>7, <1>8, <1>9, ReturnsOK

\* A package is published when every stage has been approved.
LEMMA MarkApprovedOK == ASSUME IInv, NEW r \in Requests, MarkApproved(r) PROVE IInv'
<1>. DEFINE c == local[r].graph
            v == latest[Stages] + 1
            c2 == [node |-> "end", stage |-> c.stage, decision |-> "approve",
                   draft |-> [stage |-> Stages, version |-> v]]
<1>1. /\ c \in Checkpoints /\ c # None /\ c.node = "approved"
      /\ Sound(c, applied, latest, published) /\ latest \in [1 .. Stages -> Nat]
      /\ Stages \in 1 .. Stages
  BY InGraph, StagesAssumption DEF MarkApproved
<1>2. /\ Returns(r, c2) /\ latest' = [latest EXCEPT ![Stages] = v]
      /\ published' = published \cup {v} /\ UNCHANGED <<applied, recorded>>
  BY DEF MarkApproved, NewVersion, Returns
<1>. HIDE DEF c
<1>3. c.stage \in 1 .. Stages /\ \A s \in 1 .. Stages : Approved(s, applied)
  BY <1>1 DEF Sound, Checkpoints
<1>4. v \in Nat /\ latest' \in [1 .. Stages -> Nat]
      /\ \A s \in 1 .. Stages : latest[s] <= latest'[s]
  <2>1. latest \in [1 .. Stages -> Nat] /\ Stages \in 1 .. Stages
    BY <1>1
  <2>2. latest' = [latest EXCEPT ![Stages] = latest[Stages] + 1]
    BY <1>2
  <2>3. latest[Stages] \in Nat
    BY <2>1
  <2>4. latest' \in [1 .. Stages -> Nat]
    BY <2>1, <2>2, <2>3
  <2>5. ASSUME NEW s \in 1 .. Stages PROVE latest[s] <= latest'[s]
    BY <2>1, <2>2, <2>5
  <2>. QED
    BY <2>3, <2>4, <2>5
<1>. HIDE DEF v
<1>5. /\ c2 \in Checkpoints /\ c2.draft \in Draft
      /\ c2.node = "end" /\ c2.stage = c.stage /\ c2.decision = "approve"
  <2>1. [stage |-> Stages, version |-> v] \in Draft
    BY <1>1, <1>4 DEF Draft
  <2>. QED
    BY <1>3, <2>1 DEF Checkpoints, Decisions
<1>. HIDE DEF c2
<1>6. c2.draft # None
  BY <1>5, NoneAssumption
<1>7. published' # {} /\ published' \subseteq Nat /\ published \subseteq published'
  BY <1>2, <1>4 DEF IInv, TypeOK
<1>8. Sound(c2, applied', latest', published')
  BY <1>1, <1>2, <1>5, <1>6, <1>7 DEF Sound
<1>9. PublishedLast' /\ AppliedWasRecorded'
  BY <1>2, <1>3 DEF IInv, SharedOK, PublishedLast, AppliedWasRecorded, Approved
<1>10. /\ applied' \subseteq [by : Reviews, draft : Draft, decision : Decisions]
       /\ applied \subseteq applied' /\ \A a \in applied' : a \in applied \/ a.by = r
       /\ pc[r] \in {"resume", "run"}
  BY <1>2 DEF IInv, TypeOK, MarkApproved
<1>. QED
  BY <1>2, <1>4, <1>5, <1>6, <1>7, <1>8, <1>9, <1>10, ReturnsOK

\* A run is terminated when a decision has rejected it.
LEMMA MarkTerminatedOK == ASSUME IInv, NEW r \in Requests, MarkTerminated(r) PROVE IInv'
<1>. DEFINE c == local[r].graph
            c2 == [c EXCEPT !.node = "end", !.decision = "reject"]
<1>1. /\ c \in Checkpoints /\ c # None /\ c.node = "terminated"
      /\ Sound(c, applied, latest, published) /\ latest \in [1 .. Stages -> Nat]
  BY InGraph DEF MarkTerminated
<1>2. Returns(r, c2) /\ UNCHANGED <<latest, published, applied, recorded>>
  BY DEF MarkTerminated, Returns
<1>. HIDE DEF c
<1>3. c.draft # None /\ Rejected(applied)
  BY <1>1 DEF Sound, Initial
<1>4. /\ c2 \in Checkpoints /\ c2.draft = c.draft /\ c2.stage = c.stage
      /\ c2.node = "end" /\ c2.decision = "reject"
  BY <1>1 DEF Checkpoints, Decisions
<1>. HIDE DEF c2
<1>5. Sound(c2, applied', latest', published')
  BY <1>1, <1>2, <1>3, <1>4 DEF Sound
<1>6. PublishedLast' /\ AppliedWasRecorded'
  BY <1>2 DEF IInv, SharedOK, PublishedLast, AppliedWasRecorded
<1>7. /\ latest' \in [1 .. Stages -> Nat] /\ \A s \in 1 .. Stages : latest[s] <= latest'[s]
      /\ published' \subseteq Nat /\ published \subseteq published'
      /\ applied' \subseteq [by : Reviews, draft : Draft, decision : Decisions]
      /\ applied \subseteq applied' /\ \A a \in applied' : a \in applied \/ a.by = r
      /\ pc[r] \in {"resume", "run"} /\ c2.draft # None
  BY <1>2, <1>3, <1>4 DEF IInv, TypeOK, MarkTerminated
<1>. QED
  BY <1>2, <1>4, <1>5, <1>6, <1>7, ReturnsOK

\* A node that raises may have stored a version, and its state is gone.
LEMMA RaiseOK == ASSUME IInv, NEW r \in Requests, Raise(r) PROVE IInv'
<1>1. /\ pc' = [pc EXCEPT ![r] = "done"] /\ local' = [local EXCEPT ![r] = NoLocals]
      /\ raised' = TRUE /\ UNCHANGED <<status, checkpoint, published, recorded, applied, crashes>>
  BY DEF Raise, Ends, Goto
<1>2. latest' \in [1 .. Stages -> Nat] /\ \A s \in 1 .. Stages : latest[s] <= latest'[s]
  <2>1. latest \in [1 .. Stages -> Nat] /\ local[r].graph.stage \in 1 .. Stages
    BY InGraph DEF Raise, Checkpoints
  <2>2. CASE latest' = latest
    BY <2>1, <2>2
  <2>3. CASE latest' = [latest EXCEPT ![local[r].graph.stage] = @ + 1]
    BY <2>1, <2>3
  <2>. QED
    BY <2>2, <2>3 DEF Raise
<1>3. TypeOK'
  BY <1>1, <1>2 DEF IInv, TypeOK, Steps, NoLocals
<1>4. Grows(r)
  BY <1>1, <1>2 DEF IInv, TypeOK, Grows
<1>5. SharedOK'
  <2>1. Sound(checkpoint, applied, latest', published)
    BY <1>2, SoundGrows DEF IInv, TypeOK, SharedOK
  <2>. QED
    BY <1>1, <2>1 DEF IInv, SharedOK, PublishedLast, AppliedWasRecorded
<1>6. RequestOK(r)'
  BY <1>1, OverOK DEF IInv, TypeOK
<1>. QED
  BY <1>3, <1>4, <1>5, <1>6, StepOK

\* A crash takes the invocations' states away; what is committed stays.
LEMMA CrashOK == ASSUME IInv, Crash PROVE IInv'
<1>1. /\ \A q \in Requests : pc'[q] = "dead" \/ (pc'[q] = pc[q] /\ pc[q] \in {"ready", "done", "dead"})
      /\ \A q \in Requests : local'[q] = NoLocals
      /\ UNCHANGED <<data, raised>>
  BY DEF Crash, Active
<1>2. TypeOK'
  <2>1. pc' \in [Requests -> Steps]
    BY DEF IInv, TypeOK, Crash, Steps
  <2>2. local' \in [Requests -> [asked : Decisions \cup {None}, seen : Draft \cup {None},
                               target : Statuses \cup {None}, previous : Statuses \cup {None},
                               graph : Checkpoints \cup {None}]]
    BY DEF Crash, NoLocals
  <2>3. crashes' \in 0 .. MaxCrashes
    BY ServiceAssumption DEF IInv, TypeOK, Crash
  <2>4. \A q \in Requests : pc'[q] \in {"ready", "done", "dead"}
    BY <1>1
  <2>. QED
    BY <1>1, <2>1, <2>2, <2>3, <2>4 DEF IInv, TypeOK, data
<1>3. SharedOK'
  BY <1>1 DEF IInv, data, SharedOK, PublishedLast, AppliedWasRecorded
<1>4. ASSUME NEW q \in Requests PROVE RequestOK(q)'
  <2>1. CASE pc'[q] \in {"done", "dead"}
    BY <1>1, <2>1, OverOK
  <2>2. CASE pc'[q] = "ready"
    <3>1. pc[q] = "ready" /\ RequestOK(q) /\ local[q].graph = None
      BY <1>1, <2>2 DEF IInv, RequestOK, Placed
    <3>2. local'[q].graph = None /\ local'[q].target = None
      BY <1>1 DEF NoLocals
    <3>3. Placed(q)' /\ Opened(q)' /\ Decided(q)'
      BY <1>1, <2>2, <3>1, <3>2 DEF RequestOK, Placed, Opened, Decided, data
    <3>4. Sound(local'[q].graph, applied', latest', published')
      BY <3>2, NoClaim
    <3>5. Earned(local'[q].target, checkpoint', applied', published')
      BY <3>2, NoClaim
    <3>. QED
      BY <3>3, <3>4, <3>5 DEF RequestOK
  <2>. QED
    BY <1>1, <2>1, <2>2
<1>. QED
  BY <1>2, <1>3, <1>4 DEF IInv

-----------------------------------------------------------------------------
\* The invariant

\* The invariant is about these variables alone.
LEMMA StutterOK == ASSUME IInv, UNCHANGED vars PROVE IInv'
<1>1. UNCHANGED <<status, checkpoint, latest, published, recorded, applied, pc, local, raised, crashes>>
  BY DEF vars, data
<1>. QED
  BY <1>1 DEF IInv, TypeOK, SharedOK, PublishedLast, AppliedWasRecorded,
              RequestOK, Placed, Opened, Decided

\* No step breaks the invariant.
LEMMA NextOK == IInv /\ [Next]_vars => IInv'
<1>. SUFFICES ASSUME IInv, [Next]_vars PROVE IInv'
  OBVIOUS
<1>1. CASE UNCHANGED vars
  BY <1>1, StutterOK
<1>2. CASE Crash
  BY <1>2, CrashOK
<1>3. ASSUME NEW r \in Requests, Send(r) \/ Handle(r) PROVE IInv'
  BY <1>3, SendOK, CreateRunOK, CheckStatusOK, ReadSnapshotOK, RecordReviewOK, ReadStatusOK,
     WriteStatusOK, LoadOK, WriteCheckpointOK, ResumeOK, GenerateOK, MarkApprovedOK,
     MarkTerminatedOK, RaiseOK, SyncSnapshotOK, SyncCheckOK
  DEF Handle
<1>. QED
  BY <1>1, <1>2, <1>3 DEF Next

\* The tables, the checkpoint and every request in flight agree in the sense
\* of IInv, in every state that races, failures and crashes can lead to.
THEOREM Invariance == Spec => []IInv
<1>. SUFFICES ASSUME Spec PROVE []IInv
  OBVIOUS
<1>. QED
  BY InitOK, NextOK, PTL DEF Spec

\* Every variable has its type: a request always has the snapshot or the graph
\* state that its next step reads, whatever other requests do in between.
THEOREM TypeCorrect == Spec => []TypeOK
<1>1. IInv => TypeOK
  BY DEF IInv
<1>. QED
  BY <1>1, Invariance, PTL

\* No race, crash or failed node lets a run go past a gate that nobody
\* approved, or publish a package that is not approved at every stage.
THEOREM StagesInOrder == Spec => []NoStageSkipped
<1>1. IInv => NoStageSkipped
  <2>. SUFFICES ASSUME IInv PROVE NoStageSkipped
    OBVIOUS
  <2>1. ASSUME NEW c \in States PROVE \A s \in 1 .. c.stage - 1 : Approved(s, applied)
    BY <2>1 DEF States, IInv, SharedOK, RequestOK, Sound
  <2>2. published # {} => \A s \in 1 .. Stages : Approved(s, applied)
    BY DEF IInv, SharedOK, PublishedLast
  <2>. QED
    BY <2>1, <2>2 DEF NoStageSkipped, Approved
<1>. QED
  BY <1>1, Invariance, PTL

\* Whatever the graph acted on is in the audit trail, and no request acted on
\* the graph twice.
THEOREM AuditTrailComplete == Spec => []AppliedWasRecorded
<1>1. IInv => AppliedWasRecorded
  BY DEF IInv, SharedOK
<1>. QED
  BY <1>1, Invariance, PTL

\* However late a request writes the status it worked out, an approved run has
\* a published package, a terminated one a rejection, and none is failed.
THEOREM StatusEarned == Spec => []FinalStatusIsEarned
<1>1. IInv => FinalStatusIsEarned
  BY DEF IInv, SharedOK, Earned, Rejected, FinalStatusIsEarned
<1>. QED
  BY <1>1, Invariance, PTL

\* Reviewers are never shown a draft that is not in the store, or one of
\* another stage.
THEOREM DraftsStored == Spec => []GatesPresentStoredDrafts
<1>1. IInv => GatesPresentStoredDrafts
  <2>. SUFFICES ASSUME IInv, NEW c \in States, c.node = "gate"
                PROVE  c.draft.stage = c.stage /\ c.draft.version \in 1 .. latest[c.stage]
    BY DEF GatesPresentStoredDrafts
  <2>1. c # None /\ Sound(c, applied, latest, published)
    BY DEF States, IInv, SharedOK, RequestOK
  <2>. QED
    BY <2>1 DEF Sound
<1>. QED
  BY <1>1, Invariance, PTL

=============================================================================
