\* "Reject is terminal" (adr/005:34) against an approval and a rejection in
\* flight together: the run goes on after the rejection.
SPECIFICATION Spec
CONSTANTS
  r1 = r1
  r2 = r2
  r3 = r3
  r4 = r4
  Stages = 2
  Reviews = {r1, r2}
  Start = start
  None = None
  Serial = FALSE
  MayRaise = FALSE
  MaxCrashes = 0
CHECK_DEADLOCK FALSE
PROPERTIES
  RejectIsTerminal
