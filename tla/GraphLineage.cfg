\* PRODUCT_SPEC.md:807 against mark_approved: the approved copy of the review
\* package is a new version without lineage edges.
SPECIFICATION Spec
CONSTANTS
  SchemaCap = 1
  LogicCap = 1
  None = None
  Hooks <- ProductionHooks
  MaxVersion = 2
CHECK_DEADLOCK FALSE
INVARIANTS
  EveryVersionLinked
