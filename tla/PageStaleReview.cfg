\* The answer to a decision may be lost, and the refresh after it may fail: the
\* run has left the artefact behind, the page offers to decide on it again.
SPECIFICATION PageSpec
CONSTANTS
  p1 = p1
  p2 = p2
  r1 = r1
  r2 = r2
  r3 = r3
  r4 = r4
  Stages = 2
  Reviews = {r1, r2}
  Start = start
  None = None
  Serial = FALSE
  MayRaise = FALSE
  MaxCrashes = 0
  Pages = {p1}
  Slots = {1}
  MaxRefreshes = 2
  MaxFailures = 1
  MayMiss = TRUE
  Patient = TRUE
CHECK_DEADLOCK FALSE
INVARIANTS
  AppliedAsShown
