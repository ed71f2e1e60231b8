----------------------------- MODULE MCRunExport -----------------------------
(* Small instances of RunExport, and with it of ArtefactStore.               *)
EXTENDS RunExport, TLC

CONSTANTS s1, s2

\* Sessions are interchangeable: no property names one.
SessionSymmetry == Permutations(Sessions)

ExportTypes == {"data_model", "review_package"}

ExportSources == [manifest |-> {"review_package"}, tables |-> {"data_model"}]

\* The first version of a type has no governance metadata, later ones have the
\* label of their type.
ExportGovernance ==
  [r \in [type : ExportTypes, version : 1 .. MaxVersion + Cardinality(Sessions), artefactId : Ids] |->
     IF r.version = 1 THEN None ELSE {r.type}]

=============================================================================
