\* "HITL workflows survive process restarts" (PRODUCT_SPEC.md:53) against a
\* crash while a request is in flight: the run is RUNNING for ever.
SPECIFICATION Spec
CONSTANTS
  r1 = r1
  r2 = r2
  r3 = r3
  r4 = r4
  Stages = 2
  Reviews = {r1, r2}
  Start = start
  None = None
  Serial = TRUE
  MayRaise = FALSE
  MaxCrashes = 1
CHECK_DEADLOCK FALSE
PROPERTIES
  RunningEnds
