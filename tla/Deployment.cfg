\* Two API processes and two invocations of the migration runner, which overlap
\* or not; two files; one outage, one kill.  Everything may come to rest: no
\* deadlock check.
SPECIFICATION Spec
CONSTANTS
  p1 = p1
  p2 = p2
  m1 = m1
  m2 = m2
  Processes = {p1, p2}
  Migrators = {m1, m2}
  LastVersion = 2
  MaxOutages = 1
  MaxKills = 1
CHECK_DEADLOCK FALSE
INVARIANTS
  SchemaMatchesRecord
  RaceHasAWinner
  RunnerIsUsable
PROPERTIES
  StartsServing
