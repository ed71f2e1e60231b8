--------------------------- MODULE ReviewPageProofs ---------------------------
(***************************************************************************)
(* Proofs about the review workspace (ReviewPage): one page, whose user    *)
(* clicks when nothing is awaited and who learns how each decision went,   *)
(* is a client that waits for each response, for any number of stages,     *)
(* reviews and refreshes.                                                  *)
(*                                                                         *)
(* So what HitlSerialProofs shows of one request at a time holds under the *)
(* page as well; and what the page shows when it offers a decision is what *)
(* the run is at (PageOK), from the refresh that read it to the click.     *)
(***************************************************************************)
EXTENDS ReviewPage, HitlSerialProofs

\* One page is open on the run.  Its user waits, the answer to a decision
\* arrives, and the refresh that ends it succeeds.
OnePatientPage == Patient /\ ~MayMiss /\ \E p \in Pages : Pages = {p}

-----------------------------------------------------------------------------
\* The inductive invariant, beside IInv and SInv

\* r carries a decision that the graph has not taken yet.
Deciding(r) ==
  pc[r] \in {"check", "snapshot", "record", "resume"} \/ Marking(r)

\* The decision that r carries was clicked for the draft the run is at, and the
\* run accepts it.
Shown(r) ==
  /\ Deciding(r) => [by |-> r, draft |-> checkpoint.draft] \in decided
  /\ pc[r] = "check" => status = "waiting_for_review"
  /\ pc[r] \notin {"check", "snapshot", "record"} => Accepted(r)

\* What a refresh has read is still so.
UpToDate(d) ==
  /\ d.step # "run" => d.status = status
  /\ d.step = "answer" =>
       d.draft = IF d.status = "waiting_for_review" THEN checkpoint.draft ELSE None

\* Page p awaits every request in flight and no other thing with it; what it
\* offers a decision about is what the run is at.
PageOK(p) ==
  /\ Active \subseteq posting[p]
  /\ \A q, r \in posting[p] : q = r
  /\ posting[p] # {} =>
       pc[Start] # "ready" /\ ~enabled[p] /\ \A k \in Slots : reading[p][k] = None
  /\ \A k \in Slots : reading[p][k] # None => pc[Start] # "ready" /\ UpToDate(reading[p][k])
  /\ enabled[p] => status = "waiting_for_review" /\ detail[p].draft = checkpoint.draft
  /\ \A r \in posting[p] \cap Reviews : Shown(r)

\* Every decision applied was clicked for the draft it was applied to.
AppliedClicked == \A a \in applied : \E c \in decided : c.by = a.by /\ c.draft = a.draft

PageTyped ==
  /\ detail \in [Pages -> [status : Statuses \cup {None}, draft : Draft \cup {None}] \cup {None}]
  /\ enabled \in [Pages -> BOOLEAN]
  /\ posting \in [Pages -> SUBSET Requests]
  /\ reading \in [Pages -> [Slots -> Read \cup {None}]]

PInv == PageTyped /\ AppliedClicked /\ \A p \in Pages : PageOK(p)

-----------------------------------------------------------------------------
\* Steps of the page

\* A step of the page that sends nothing leaves the requests as they are.
LEMMA PageMoves ==
  ASSUME PInv, NEW p, Pages = {p}, UNCHANGED <<vars, decided>>, PageTyped',
         posting'[p] \subseteq posting[p], Active \subseteq posting'[p],
         \A k \in Slots : reading'[p][k] # None =>
           posting'[p] = {} /\ pc[Start] # "ready" /\ UpToDate(reading'[p][k]),
         enabled'[p] =>
           /\ posting'[p] = {} /\ status = "waiting_for_review"
           /\ detail'[p].draft = checkpoint.draft
  PROVE  PInv'
<1>1. UNCHANGED <<status, checkpoint, recorded, applied, pc, local>>
  BY DEF vars, data
<1>2. PageOK(p)
  BY DEF PInv
<1>3. Active' = Active /\ \A d : UpToDate(d)' <=> UpToDate(d)
  BY <1>1 DEF Active, UpToDate
<1>4. \A r : Shown(r) => Shown(r)'
  BY <1>1 DEF Shown, Deciding, Marking, Accepted
<1>5. /\ \A k \in Slots : reading'[p][k] # None =>
           pc'[Start] # "ready" /\ (UpToDate(reading[p][k]))'
      /\ posting'[p] # {} => pc'[Start] # "ready" /\ ~enabled'[p]
  BY <1>1, <1>2 DEF PageOK, UpToDate
<1>6. PageOK(p)'
  BY <1>1, <1>2, <1>3, <1>4, <1>5 DEF PageOK
<1>7. AppliedClicked'
  BY <1>1 DEF PInv, AppliedClicked
<1>. QED
  BY <1>6, <1>7 DEF PInv

\* A refresh begins in a free slot.
LEMMA BeginTyped ==
  ASSUME PageTyped, NEW p \in Pages, NEW k \in Slots, NEW s \in BOOLEAN, BeginRefresh(p, k, s)
  PROVE  /\ reading' \in [Pages -> [Slots -> Read \cup {None}]]
         /\ \A j \in Slots \ {k} : reading'[p][j] = reading[p][j]
         /\ reading'[p][k].step = "run"
<1>. DEFINE d == [step |-> "run", status |-> None, draft |-> None, submitted |-> s]
<1>1. d \in Read
  BY DEF Read
<1>. QED
  BY <1>1 DEF BeginRefresh, PageTyped

\* A click on Refresh: the run has been started, and nothing is awaited.
LEMMA RefreshOK ==
  ASSUME Patient, IInv, SInv, PInv, NEW p, Pages = {p}, Refresh(p)
  PROVE  PInv'
<1>1. PageOK(p) /\ posting[p] = {} /\ pc[Start] # "ready"
  BY DEF PInv, Refresh, Clicks, Quiet, SInv, Agreement
<1>2. PICK k \in Slots : BeginRefresh(p, k, FALSE)
  BY DEF Refresh
<1>3. /\ reading' \in [Pages -> [Slots -> Read \cup {None}]]
      /\ \A j \in Slots \ {k} : reading'[p][j] = reading[p][j]
      /\ reading'[p][k].step = "run"
  BY <1>2, BeginTyped DEF PInv
<1>4. UNCHANGED <<vars, detail, enabled, posting, decided>>
  BY DEF Refresh
<1>5. PageTyped'
  BY <1>3, <1>4 DEF PInv, PageTyped
<1>6. \A j \in Slots : reading'[p][j] # None => UpToDate(reading'[p][j])
  BY <1>1, <1>3 DEF PageOK, UpToDate
<1>7. posting' = posting /\ Active = {}
  BY <1>1, <1>4 DEF PageOK
<1>. QED
  BY <1>1, <1>4, <1>5, <1>6, <1>7, PageMoves DEF PageOK

\* A response ends the request; it was not a refusal.
LEMMA ResponseOK ==
  ASSUME IInv, SInv, PInv, NEW p, Pages = {p}, NEW r \in Requests, Response(p, r)
  PROVE  PInv'
<1>1. /\ PageOK(p) /\ r \in posting[p] /\ pc[r] = "done"
      /\ posting' = [posting EXCEPT ![p] = @ \ {r}]
      /\ UNCHANGED <<vars, detail, decided>>
  BY DEF PInv, Response
<1>2. UNCHANGED <<status, checkpoint, recorded, applied, pc, local>>
  BY <1>1 DEF vars, data
<1>3. Accepted(r)
  BY <1>1 DEF PageOK, Shown, Requests, Accepted
<1>4. enabled' = enabled
  BY <1>3 DEF Response
<1>5. PICK k \in Slots : BeginRefresh(p, k, r # Start)
  BY <1>3 DEF Response
<1>6. /\ reading' \in [Pages -> [Slots -> Read \cup {None}]]
      /\ \A j \in Slots \ {k} : reading'[p][j] = reading[p][j]
      /\ reading'[p][k].step = "run"
  <2>1. PageTyped /\ (r # Start) \in BOOLEAN /\ p \in Pages
    BY DEF PInv
  <2>. QED
    BY <1>5, <2>1, BeginTyped
<1>7. PageTyped'
  BY <1>1, <1>4, <1>6 DEF PInv, PageTyped
<1>8. posting[p] = {r} /\ posting'[p] = {} /\ Active = {}
  <2>1. posting[p] = {r}
    BY <1>1 DEF PageOK
  <2>2. posting'[p] = posting[p] \ {r}
    BY <1>1 DEF PInv, PageTyped
  <2>. QED
    BY <1>1, <2>1, <2>2 DEF PageOK, Active
<1>9. pc[Start] # "ready" /\ ~enabled[p] /\ \A j \in Slots : reading[p][j] = None
  BY <1>1 DEF PageOK
<1>10. \A j \in Slots : reading'[p][j] # None => UpToDate(reading'[p][j])
  BY <1>6, <1>9 DEF UpToDate
<1>. QED
  BY <1>1, <1>4, <1>7, <1>8, <1>9, <1>10, PageMoves

\* A refresh reads the run that nobody is working on.
LEMMA ReadOK ==
  ASSUME IInv, SInv, PInv, NEW p, Pages = {p}, NEW k \in Slots, ReadRun(p, k) \/ ReadPending(p, k)
  PROVE  PInv'
<1>. DEFINE d == reading[p][k]
<1>1. /\ PageOK(p) /\ d # None /\ d \in Read
      /\ UNCHANGED <<vars, detail, enabled, posting, decided>>
  BY DEF PInv, PageTyped, ReadRun, ReadPending
<1>2. posting[p] = {} /\ pc[Start] # "ready" /\ UpToDate(d) /\ Active = {}
  BY <1>1 DEF PageOK
<1>3. /\ reading' \in [Pages -> [Slots -> Read \cup {None}]]
      /\ \A j \in Slots \ {k} : reading'[p][j] = reading[p][j]
      /\ UpToDate(reading'[p][k])
  <2>1. ASSUME NEW e \in Read, UpToDate(e), reading' = [reading EXCEPT ![p][k] = e]
        PROVE  /\ reading' \in [Pages -> [Slots -> Read \cup {None}]]
               /\ \A j \in Slots \ {k} : reading'[p][j] = reading[p][j]
               /\ UpToDate(reading'[p][k])
    BY <2>1 DEF PInv, PageTyped
  <2>2. CASE ReadRun(p, k)
    <3>. DEFINE e == [d EXCEPT !.step = "pending", !.status = status]
    <3>1. e \in Read /\ UpToDate(e)
      BY <1>1 DEF Read, UpToDate, IInv, TypeOK
    <3>2. reading' = [reading EXCEPT ![p][k] = e]
      BY <2>2 DEF ReadRun, PInv, PageTyped
    <3>. QED
      BY <2>1, <3>1, <3>2
  <2>3. CASE ReadPending(p, k)
    <3>. DEFINE e == [d EXCEPT !.step = "answer",
                        !.draft = IF d.status = "waiting_for_review" THEN checkpoint.draft ELSE None]
    <3>1. d.status = status
      BY <1>2, <2>3 DEF ReadPending, UpToDate
    <3>2. status = "waiting_for_review" => checkpoint.draft \in Draft \cup {None}
      BY DEF IInv, SInv, Agreement, AwaitsReview, TypeOK, Checkpoints
    <3>3. e \in Read /\ UpToDate(e)
      BY <1>1, <3>1, <3>2 DEF Read, UpToDate
    <3>4. reading' = [reading EXCEPT ![p][k] = e]
      BY <2>3 DEF ReadPending, PInv, PageTyped
    <3>. QED
      BY <2>1, <3>3, <3>4
  <2>. QED
    BY <2>2, <2>3
<1>4. PageTyped'
  BY <1>1, <1>3 DEF PInv, PageTyped
<1>. QED
  BY <1>1, <1>2, <1>3, <1>4, PageMoves DEF PageOK

\* What is shown is what the run is at.
LEMMA ShowAnswerOK ==
  ASSUME PInv, NEW p, Pages = {p}, NEW k \in Slots, ShowAnswer(p, k)
  PROVE  PInv'
<1>. DEFINE d == reading[p][k]
<1>1. /\ PageOK(p) /\ d # None /\ d \in Read /\ d.step = "answer"
      /\ UNCHANGED <<vars, posting, decided>>
  BY DEF PInv, PageTyped, ShowAnswer
<1>2. posting[p] = {} /\ pc[Start] # "ready" /\ UpToDate(d) /\ Active = {}
  BY <1>1 DEF PageOK
<1>3. PageTyped'
  BY <1>1 DEF PInv, PageTyped, ShowAnswer, Read
<1>4. /\ \A j \in Slots : reading'[p][j] # None => reading'[p][j] = reading[p][j]
      /\ enabled'[p] = (d.status = "waiting_for_review")
      /\ detail'[p].draft = d.draft
  BY DEF PInv, PageTyped, ShowAnswer
<1>5. \A j \in Slots : reading'[p][j] # None => UpToDate(reading'[p][j])
  BY <1>1, <1>4 DEF PageOK
<1>6. enabled'[p] => status = "waiting_for_review" /\ detail'[p].draft = checkpoint.draft
  BY <1>1, <1>2, <1>4 DEF UpToDate
<1>. QED
  BY <1>1, <1>2, <1>3, <1>5, <1>6, PageMoves

\* A refresh that fails is not the last of a decision, and changes nothing shown.
LEMMA RefreshFailsOK ==
  ASSUME ~MayMiss, PInv, NEW p, Pages = {p}, NEW k \in Slots, RefreshFails(p, k)
  PROVE  PInv'
<1>1. /\ PageOK(p) /\ reading[p][k] # None
      /\ UNCHANGED <<vars, detail, enabled, posting, decided>>
  BY DEF PInv, RefreshFails
<1>2. posting[p] = {} /\ pc[Start] # "ready" /\ Active = {}
  BY <1>1 DEF PageOK
<1>3. PageTyped' /\ \A j \in Slots : reading'[p][j] # None => reading'[p][j] = reading[p][j]
  BY DEF PInv, PageTyped, RefreshFails
<1>4. \A j \in Slots : reading'[p][j] # None => UpToDate(reading'[p][j])
  BY <1>1, <1>3 DEF PageOK
<1>. QED
  BY <1>1, <1>2, <1>3, <1>4, PageMoves DEF PageOK

\* An answer that is lost is that of a start which is over: the page awaits
\* nothing any more, and shows what it did.
LEMMA AnswerLostOK ==
  ASSUME ~MayMiss, PInv, NEW p, Pages = {p}, NEW r \in Requests, AnswerLost(p, r)
  PROVE  PInv'
<1>1. /\ PageOK(p) /\ r \in posting[p] /\ pc[r] = "done"
      /\ posting' = [posting EXCEPT ![p] = @ \ {r}]
      /\ UNCHANGED <<vars, detail, enabled, reading, decided>>
  BY DEF PInv, AnswerLost
<1>2. posting[p] = {r} /\ posting'[p] = {} /\ Active = {}
  <2>1. posting[p] = {r}
    BY <1>1 DEF PageOK
  <2>2. posting'[p] = posting[p] \ {r}
    BY <1>1 DEF PInv, PageTyped
  <2>. QED
    BY <1>1, <2>1, <2>2 DEF PageOK, Active
<1>3. PageTyped'
  BY <1>1 DEF PInv, PageTyped
<1>4. ~enabled[p] /\ \A k \in Slots : reading[p][k] = None
  BY <1>1 DEF PageOK
<1>. QED
  BY <1>1, <1>2, <1>3, <1>4, PageMoves

-----------------------------------------------------------------------------
\* Steps of requests

\* A page sends when nothing is in flight.
LEMMA StartRunOK ==
  ASSUME IInv, SInv, PInv, NEW p, Pages = {p}, StartRun(p)
  PROVE  Active = {} /\ PInv'
<1>1. /\ PageOK(p) /\ Start \in Requests /\ pc[Start] = "ready" /\ pc' = [pc EXCEPT ![Start] = "create"]
      /\ posting' = [posting EXCEPT ![p] = @ \cup {Start}]
      /\ UNCHANGED <<data, local, detail, enabled, reading, decided>>
  BY DEF PInv, StartRun, Send, Requests, Goto
<1>2. /\ posting[p] = {} /\ status = None /\ Active = {}
      /\ \A k \in Slots : reading[p][k] = None
  BY <1>1 DEF PageOK, SInv, Agreement
<1>3. ~enabled[p]
  BY <1>1, <1>2, NoneAssumption DEF PageOK, Statuses
<1>4. /\ posting'[p] = {Start} /\ pc'[Start] = "create" /\ \A q \in Requests \ {Start} : pc'[q] = pc[q]
      /\ PageTyped'
  BY <1>1, <1>2, Request DEF PInv, PageTyped
<1>5. Active' \subseteq {Start}
  BY <1>2, <1>4 DEF Active
<1>6. PageOK(p)'
  BY <1>1, <1>2, <1>3, <1>4, <1>5, RequestAssumption DEF PageOK
<1>7. AppliedClicked'
  BY <1>1 DEF PInv, AppliedClicked, data
<1>. QED
  BY <1>2, <1>4, <1>6, <1>7 DEF PInv

\* A decision is clicked for the draft the run is at.
LEMMA SubmitDecisionOK ==
  ASSUME Patient, IInv, SInv, PInv, NEW p, Pages = {p}, NEW r \in Reviews, SubmitDecision(p, r)
  PROVE  Active = {} /\ PInv'
<1>. DEFINE c == [by |-> r, draft |-> detail[p].draft]
<1>1. /\ PageOK(p) /\ r \in Requests /\ r # Start /\ enabled[p]
      /\ pc[r] = "ready" /\ pc' = [pc EXCEPT ![r] = "check"]
      /\ enabled' = [enabled EXCEPT ![p] = FALSE]
      /\ posting' = [posting EXCEPT ![p] = @ \cup {r}] /\ decided' = decided \cup {c}
      /\ UNCHANGED <<data, detail, reading>>
  BY RequestAssumption DEF PInv, SubmitDecision, Send, Requests, Goto
<1>2. /\ posting[p] = {} /\ Active = {} /\ \A k \in Slots : reading[p][k] = None
      /\ status = "waiting_for_review" /\ c = [by |-> r, draft |-> checkpoint.draft]
  BY <1>1 DEF PageOK, SubmitDecision, Clicks, Quiet
<1>3. pc[Start] # "ready"
  BY <1>2, NoneAssumption DEF SInv, Agreement, Statuses
<1>4. /\ posting'[p] = {r} /\ ~enabled'[p] /\ PageTyped'
      /\ pc'[r] = "check" /\ \A q \in Requests \ {r} : pc'[q] = pc[q]
  BY <1>1, <1>2, Request DEF PInv, PageTyped
<1>5. Active' \subseteq {r} /\ pc'[Start] # "ready"
  BY <1>1, <1>2, <1>3, <1>4 DEF Active, Requests
<1>. HIDE DEF c
<1>6. Shown(r)'
  <2>1. [by |-> r, draft |-> checkpoint'.draft] \in decided' /\ status' = "waiting_for_review"
    BY <1>1, <1>2 DEF data
  <2>. QED
    BY <1>4, <2>1 DEF Shown
<1>7. PageOK(p)'
  BY <1>1, <1>2, <1>4, <1>5, <1>6 DEF PageOK
<1>8. AppliedClicked'
  BY <1>1 DEF PInv, AppliedClicked, data
<1>. QED
  BY <1>2, <1>4, <1>7, <1>8 DEF PInv

\* Until the graph has the decision that a request carries, the run stays where
\* it was clicked for; and past the record of it the run has accepted it.
LEMMA CarriesOn ==
  ASSUME IInv, SInv, NEW r \in Reviews, Handle(r), decided' = decided, Shown(r)
  PROVE  Shown(r)'
<1>1. r \in Requests /\ r # Start /\ Placed(r) /\ Alone(r)
  BY Request, RequestAssumption DEF SInv, Requests
<1>2. pc'[r] # "check"
  BY <1>1, Request DEF Handle, CreateRun, CheckStatus, ReadSnapshot, RecordReview, ReadStatus, WriteStatus,
     Load, WriteCheckpoint, Resume, Returns, Generate, MarkApproved, MarkTerminated, Raise,
     SyncSnapshot, SyncCheck, Ends, Goto
<1>3. pc'[r] \notin {"check", "snapshot", "record"} => Accepted(r)'
  <2>1. recorded \subseteq recorded'
    BY <1>1 DEF Handle, CreateRun, CheckStatus, ReadSnapshot, RecordReview, ReadStatus, WriteStatus,
       Load, WriteCheckpoint, Resume, Returns, Generate, MarkApproved, MarkTerminated, Raise,
       SyncSnapshot, SyncCheck, data
  <2>2. CASE Accepted(r)
    BY <2>1, <2>2 DEF Accepted
  <2>3. CASE pc[r] \in {"check", "snapshot"}
    BY <1>1, <2>3, Request DEF Handle, CreateRun, CheckStatus, ReadSnapshot, RecordReview, ReadStatus,
       WriteStatus, Load, WriteCheckpoint, Resume, Generate, MarkApproved, MarkTerminated, Raise,
       SyncSnapshot, SyncCheck, Goto, Shown
  <2>4. CASE pc[r] = "record"
    <3>1. RecordReview(r)
      BY <2>4 DEF Handle, CreateRun, CheckStatus, ReadSnapshot, ReadStatus, WriteStatus, Load,
         WriteCheckpoint, Resume, Generate, MarkApproved, MarkTerminated, Raise, SyncSnapshot, SyncCheck
    <3>. DEFINE e == [by |-> r, draft |-> local[r].seen, decision |-> local[r].asked]
    <3>2. e \in recorded' /\ e.by = r
      BY <3>1 DEF RecordReview
    <3>. QED
      BY <3>2 DEF Accepted
  <2>. QED
    BY <2>2, <2>3, <2>4 DEF Shown
<1>4. Deciding(r)' => Deciding(r) /\ checkpoint' = checkpoint
  <2>. SUFFICES ASSUME Deciding(r)' PROVE Deciding(r) /\ checkpoint' = checkpoint
    OBVIOUS
  <2>1. CASE CheckStatus(r) \/ ReadSnapshot(r) \/ RecordReview(r) \/ Load(r)
    <3>1. checkpoint' = checkpoint /\ pc[r] \in {"check", "snapshot", "record", "load"}
      BY <2>1 DEF CheckStatus, ReadSnapshot, RecordReview, Load, data
    <3>. QED
      BY <1>1, <3>1 DEF Placed, Deciding, Marking
  <2>2. CASE ReadStatus(r) \/ WriteStatus(r)
    BY <1>1, <2>2, Request DEF ReadStatus, WriteStatus, Ends, Goto, Deciding, Marking, data, Locals
  <2>3. CASE WriteCheckpoint(r) \/ SyncSnapshot(r) \/ SyncCheck(r)
    BY <1>1, <2>3, Request DEF WriteCheckpoint, SyncSnapshot, SyncCheck, Ends, Goto, Placed, Deciding, Marking, Locals
  <2>4. CASE Resume(r) \/ Generate(r) \/ MarkApproved(r) \/ MarkTerminated(r) \/ Raise(r)
    BY <1>1, <2>4, Request DEF Resume, Generate, MarkApproved, MarkTerminated, Raise, Returns, Ends, Goto, Deciding, Marking
  <2>5. ~CreateRun(r)
    BY <1>1 DEF CreateRun, Placed
  <2>. QED
    BY <2>1, <2>2, <2>3, <2>4, <2>5 DEF Handle
<1>. QED
  BY <1>2, <1>3, <1>4 DEF Shown

\* What a request does is awaited by the page, which offers nothing meanwhile.
LEMMA HandleOK ==
  ASSUME IInv, SInv, PInv, NEW p, Pages = {p}, NEW r \in Requests, Handle(r), UNCHANGED page
  PROVE  PInv'
<1>1. /\ PageOK(p) /\ UNCHANGED <<detail, enabled, posting, reading, decided>>
      /\ PageTyped'
  BY DEF PInv, page, PageTyped
<1>2. /\ pc[r] \notin {"ready", "done", "dead"}
      /\ pc'[r] # "ready" /\ \A q \in Requests \ {r} : pc'[q] = pc[q]
  BY Request DEF Handle, CreateRun, CheckStatus, ReadSnapshot, RecordReview, ReadStatus, WriteStatus,
     Load, WriteCheckpoint, Resume, Returns, Generate, MarkApproved, MarkTerminated, Raise,
     SyncSnapshot, SyncCheck, Ends, Goto
<1>3. posting[p] = {r}
  BY <1>2 DEF PageOK, Active, PInv
<1>4. PageOK(p) /\ pc[Start] # "ready" /\ ~enabled[p] /\ \A k \in Slots : reading[p][k] = None
  BY <1>1, <1>3 DEF PageOK
<1>5. Active' \subseteq {r} /\ pc'[Start] # "ready"
  BY <1>1, <1>2, <1>3, <1>4 DEF Active, PageOK, Requests
<1>6. r \in Reviews => Shown(r)'
  BY <1>1, <1>3, CarriesOn DEF PageOK
<1>7. PageOK(p)'
  BY <1>1, <1>3, <1>4, <1>5, <1>6 DEF PageOK
<1>8. AppliedClicked'
  <2>1. CASE Resume(r)
    <3>1. /\ r \in Reviews /\ pc[r] = "resume" /\ local[r].graph = checkpoint
          /\ applied' = applied \cup
               {[by |-> r, draft |-> local[r].graph.draft, decision |-> local[r].asked]}
      BY <2>1, Request DEF Resume, SInv, Alone, Placed
    <3>2. [by |-> r, draft |-> checkpoint.draft] \in decided
      BY <1>1, <1>3, <3>1 DEF PageOK, Shown, Deciding
    <3>. QED
      BY <1>1, <3>1, <3>2 DEF PInv, AppliedClicked
  <2>2. CASE ~Resume(r)
    <3>1. applied' = applied
      BY <2>2 DEF Handle, CreateRun, CheckStatus, ReadSnapshot, RecordReview, ReadStatus, WriteStatus,
         Load, WriteCheckpoint, Generate, MarkApproved, MarkTerminated, Raise, SyncSnapshot, SyncCheck, data
    <3>. QED
      BY <1>1, <3>1 DEF PInv, AppliedClicked
  <2>. QED
    BY <2>1, <2>2
<1>. QED
  BY <1>1, <1>7, <1>8 DEF PInv

-----------------------------------------------------------------------------
\* The theorems

\* The invariant is about these variables alone.
LEMMA StutterOnPage == ASSUME PInv, UNCHANGED pageVars PROVE PInv'
BY DEF PInv, pageVars, vars, data, page, PageTyped, AppliedClicked, PageOK, Active, Shown, Deciding, Marking,
   Accepted, UpToDate

\* Every step of the page, or of the service behind it, keeps the invariant.
LEMMA NextOnPage ==
  ASSUME OnePatientPage, IInv, SInv, PInv, [PageNext]_pageVars
  PROVE  (IInv /\ SInv /\ PInv)'
<1>. PICK p \in Pages : Pages = {p}
  BY DEF OnePatientPage
<1>. Patient /\ ~MayMiss
  BY DEF OnePatientPage
<1>1. CASE UNCHANGED pageVars
  BY <1>1, NextOK, StutterSerial, StutterOnPage DEF pageVars
<1>2. CASE ServiceStep
  BY <1>2, NextOK, HandleSerial, HandleOK DEF ServiceStep, Next
<1>3. CASE StartRun(p)
  BY <1>3, NextOK, SendSerial, StartRunOK DEF StartRun, Next, Requests
<1>4. ASSUME NEW r \in Reviews, SubmitDecision(p, r) PROVE (IInv /\ SInv /\ PInv)'
  BY <1>4, NextOK, SendSerial, SubmitDecisionOK DEF SubmitDecision, Next, Requests
<1>5. ASSUME NEW r \in Requests, Response(p, r) \/ AnswerLost(p, r)
      PROVE  (IInv /\ SInv /\ PInv)'
  <2>1. UNCHANGED vars
    BY <1>5 DEF Response, AnswerLost
  <2>. QED
    BY <1>5, <2>1, NextOK, StutterSerial, ResponseOK, AnswerLostOK
<1>6. CASE Refresh(p)
  BY <1>6, NextOK, StutterSerial, RefreshOK DEF Refresh
<1>7. ASSUME NEW k \in Slots, ReadRun(p, k) \/ ReadPending(p, k) \/ ShowAnswer(p, k) \/ RefreshFails(p, k)
      PROVE  (IInv /\ SInv /\ PInv)'
  <2>1. UNCHANGED vars
    BY <1>7 DEF ReadRun, ReadPending, ShowAnswer, RefreshFails
  <2>. QED
    BY <1>7, <2>1, NextOK, StutterSerial, ReadOK, ShowAnswerOK, RefreshFailsOK
<1>. QED
  BY <1>1, <1>2, <1>3, <1>4, <1>5, <1>6, <1>7 DEF PageNext, PageStep

\* It holds when the page is opened.
LEMMA InitOnPage == PageInit => IInv /\ SInv /\ PInv
<1>. SUFFICES ASSUME PageInit PROVE IInv /\ SInv /\ PInv
  OBVIOUS
<1>1. IInv /\ SInv
  BY InitOK, InitSerial DEF PageInit
<1>2. PageTyped /\ AppliedClicked
  BY DEF PageInit, Init, PageTyped, AppliedClicked
<1>3. ASSUME NEW p \in Pages PROVE PageOK(p)
  BY DEF PageInit, Init, PageOK, Active
<1>. QED
  BY <1>1, <1>2, <1>3 DEF PInv

\* The page shows what the run is at whenever it offers a decision, and it
\* awaits the only request in flight (PInv).
THEOREM PageInvariance == OnePatientPage => (PageSpec => [](IInv /\ SInv /\ PInv))
<1>. SUFFICES ASSUME OnePatientPage PROVE PageSpec => [](IInv /\ SInv /\ PInv)
  OBVIOUS
<1>1. (IInv /\ SInv /\ PInv) /\ [PageNext]_pageVars => (IInv /\ SInv /\ PInv)'
  BY NextOnPage
<1>. QED
  BY <1>1, InitOnPage, PTL DEF PageSpec

\* A decision is applied to the artefact its reviewer was looking at when
\* clicking, which is also the one in the audit trail.
THEOREM DecisionsAsShown == OnePatientPage => (PageSpec => []AppliedAsShown)
<1>1. SInv /\ PInv => AppliedAsShown
  BY DEF SInv, Agreement, PInv, AppliedClicked, AppliedAsShown
<1>. QED
  BY <1>1, PageInvariance, PTL

\* The page is a client that waits for each response: the run is at a gate when
\* it waits for review, no version is decided on twice, and between requests
\* the status row says what the graph is at.
THEOREM PageIsSerial ==
  OnePatientPage =>
    (PageSpec => [](WaitingAtAGate /\ AppliedAsRecorded /\ OneDecisionPerDraft /\ StatusTellsTheTruth))
<1>1. SInv => WaitingAtAGate /\ AppliedAsRecorded /\ OneDecisionPerDraft /\ StatusTellsTheTruth
  BY DEF SInv, Agreement, AwaitsReview, WaitingAtAGate, AppliedAsRecorded, StatusTellsTheTruth,
     Active, Untouched, Outside
<1>. QED
  BY <1>1, PageInvariance, PTL

=============================================================================
