\* Every pipeline of up to three stages over three names: duplicates, unknown
\* dependencies, self-dependencies and cycles of up to three stages.  The
\* search ends: no deadlock check.
SPECIFICATION Spec
CONSTANTS
  n1 = n1
  n2 = n2
  n3 = n3
  Names = {n1, n2, n3}
  MaxStages = 3
CHECK_DEADLOCK FALSE
INVARIANTS
  CycleVerdictIsRight
  VerdictIsRight
PROPERTIES
  Terminates
