\* One run of the graph, with up to two rounds of revisions at every gate (an
\* artefact is presented in versions up to three, the package four with its
\* approved copy) and nodes that raise; the judge left alone, forced into one
\* kind of complaint, and forced to escalate; caps that differ, so that
\* neither stands for the other.  A run ends: no deadlock check.
SPECIFICATION Spec
CONSTANTS
  SchemaCap = 2
  LogicCap = 1
  None = None
  Hooks <- TestHooks
  MaxVersion = 3
CHECK_DEADLOCK FALSE
INVARIANTS
  PublishedWasReviewed
  UngatedPinsAreCovered
  PackagesCoherent
  ExportIsThePackage
  GatePresentsFreshDraft
  FeedbackStaysInStage
  LineageMirrorsParents
  RetriesBounded
  VerdictIsEarned
PROPERTIES
  NothingSavedAfterReject
  ImplementsLifecycle
  ComesToRest
