\* Three requests of any kinds on one connection of each pool, so that every
\* wait happens.  Requests that are answered stay so: no deadlock check.
SPECIFICATION Spec
CONSTANTS
  q1 = q1
  q2 = q2
  q3 = q3
  Requests = {q1, q2, q3}
  DbSize = 1
  CpSize = 1
  MaxWork = 1
CHECK_DEADLOCK FALSE
INVARIANTS
  NoCircularWait
PROPERTIES
  EveryRequestAnswered
