\* Two concurrent sessions save two artefact types of one run, without
\* explicit version or id, as the graph nodes do, while the run is exported.
\* The system may stop: nobody has to save again.
SPECIFICATION ExportSpec
CONSTANTS
  s1 = s1
  s2 = s2
  Sessions = {s1, s2}
  Types = {"data_model", "review_package"}
  Ids = {1, 2, 3}
  None = None
  CallerVersions = {}
  CallerIds = {}
  MaxVersion = 2
  Package = "review_package"
  Exportable = {"data_model"}
  Assets = {"manifest", "tables"}
  Sources <- ExportSources
  Governance <- ExportGovernance
SYMMETRY SessionSymmetry
CHECK_DEADLOCK FALSE
INVARIANTS
  GapFree
  OneIdPerType
  LookupUnambiguous
  ExportIsAMoment
PROPERTIES
  ImplementsLog
