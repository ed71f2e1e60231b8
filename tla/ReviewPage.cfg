\* One page whose user waits for it, the only client of the run: two stages and
\* four decisions, so that revisions and a complete run occur, and two
\* clicks on Refresh.  A refresh fails, or the answer to the start is lost; how a
\* decision went is never missed.  The user may stop: no deadlock check.
SPECIFICATION PageSpec
CONSTANTS
  p1 = p1
  p2 = p2
  r1 = r1
  r2 = r2
  r3 = r3
  r4 = r4
  Stages = 2
  Reviews = {r1, r2, r3, r4}
  Start = start
  None = None
  Serial = FALSE
  MayRaise = FALSE
  MaxCrashes = 0
  Pages = {p1}
  Slots = {1}
  MaxRefreshes = 2
  MaxFailures = 1
  MayMiss = FALSE
  Patient = TRUE
CHECK_DEADLOCK FALSE
INVARIANTS
  AppliedAsShown
