\* Clients that wait for each response: three stages, four review requests (one
\* more than it takes to approve), a crash at any point and nodes that raise.
\* No symmetry, because one property is a leads-to.  Requests may stop coming:
\* no deadlock check.
SPECIFICATION Spec
CONSTANTS
  r1 = r1
  r2 = r2
  r3 = r3
  r4 = r4
  Stages = 3
  Reviews = {r1, r2, r3, r4}
  Start = start
  None = None
  Serial = TRUE
  MayRaise = TRUE
  MaxCrashes = 1
CHECK_DEADLOCK FALSE
INVARIANTS
  TypeOK
  WaitingAtAGate
  AppliedAsRecorded
  OneDecisionPerDraft
  StatusTellsTheTruth
PROPERTIES
  RejectIsTerminal
  FinalStatusStays
  ImplementsLifecycle
  UninterruptedRunEnds
