\* Three review requests that race each other and the start of the run, on two
\* stages, with one crash and nodes that raise.
SPECIFICATION Spec
CONSTANTS
  r1 = r1
  r2 = r2
  r3 = r3
  r4 = r4
  Stages = 2
  Reviews = {r1, r2, r3}
  Start = start
  None = None
  Serial = FALSE
  MayRaise = TRUE
  MaxCrashes = 1
SYMMETRY ReviewSymmetry
CHECK_DEADLOCK FALSE
INVARIANTS
  NoStageSkipped
  AppliedWasRecorded
  FinalStatusIsEarned
  GatesPresentStoredDrafts
