------------------------------ MODULE RunExport ------------------------------
(***************************************************************************)
(* HitlRunner.export_run and DatabricksAdapter.to_platform beside the      *)
(* saves of ArtefactStore.  The export lists the run's artefacts, fetches  *)
(* the latest of each id in a query of its own, and only then looks at     *)
(* types, approval and governance; saves go on all the while.              *)
(*                                                                         *)
(* Of a payload only the decision_state of the review package is modelled, *)
(* of an asset only the labels it carries.  Sensitivity labels,            *)
(* classifications and access notes are merged in one and the same way and *)
(* stand as one set; `extra` is left out.  The files' text, the job's      *)
(* tasks and the table columns are formatting.                             *)
(***************************************************************************)
EXTENDS ArtefactStore

CONSTANTS
  Package,     \* the review package's type
  Exportable,  \* the other types an export needs
  Assets,      \* the files of an export
  Sources,     \* Sources[a]: types asset a is derived from
  Governance   \* Governance[r]: row r's governance labels, None without metadata

ASSUME ExportAssumption ==
  /\ Package \in Types /\ Exportable \subseteq Types \ {Package}
  /\ Sources \in [Assets -> SUBSET (Exportable \cup {Package})]

VARIABLES
  approved,   \* stored review packages with decision_state "approved"
  step,       \* where export_run is
  moment,     \* history: the rows when they were listed
  refs,       \* latest_by_id, what is left to fetch
  artefacts,  \* what has been fetched
  bundle      \* what was exported: rows, and labels of each asset

export == <<step, moment, refs, artefacts, bundle>>
exportVars == <<vars, approved, export>>

Bundled == Exportable \cup {Package}

ExportInit ==
  /\ Init
  /\ approved = {}
  /\ step = "list" /\ moment = {} /\ refs = {} /\ artefacts = {} /\ bundle = None

\* Another session's step; a package is saved approved or not.
Save ==
  /\ Next
  /\ approved' \in {approved, approved \cup {r \in rows' \ rows : r.type = Package}}
  /\ UNCHANGED export

-----------------------------------------------------------------------------
\* The refs with the highest version of an id, of which the loop keeps one.
HighestOfId(R, i) ==
  {r \in R : r.artefactId = i /\ \A q \in R : q.artefactId = i => q.version <= r.version}

\* list_artefacts_for_run, one statement, and the loop that keeps the latest
\* ref of each id.
ListArtefacts ==
  /\ step = "list"
  /\ moment' = rows
  /\ \E latest \in [{r.artefactId : r \in rows} -> rows] :
       /\ \A i \in DOMAIN latest : latest[i] \in HighestOfId(rows, i)
       /\ refs' = {latest[i] : i \in DOMAIN latest}
  /\ step' = "get"
  /\ UNCHANGED <<vars, approved, artefacts, bundle>>

Selected(ref) ==
  {r \in rows : r.artefactId = ref.artefactId /\ r.version = ref.version}

\* Mutant: get_artefact is called without the version, and returns the latest.
GetLatestArtefact ==
  /\ step = "get"
  /\ \E ref \in refs :
       /\ refs' = refs \ {ref}
       /\ artefacts' = artefacts \cup HighestOfId(rows, ref.artefactId)
       /\ step' = step
  /\ UNCHANGED <<vars, approved, moment, bundle>>

\* get_artefact by id and version; scalar_one_or_none raises when several rows
\* have them (HTTP 500).
GetArtefact ==
  /\ step = "get"
  /\ \E ref \in refs :
       /\ refs' = refs \ {ref}
       /\ \/ /\ Selected(ref) = {ref}
             /\ artefacts' = artefacts \cup {ref}
             /\ step' = step
          \/ /\ Selected(ref) # {ref}
             /\ artefacts' = artefacts
             /\ step' = "raised"
  /\ UNCHANGED <<vars, approved, moment, bundle>>

\* _index_by_type: an artefact with the highest version of its type.
Indexes ==
  {index \in [{r.type : r \in artefacts} -> artefacts] :
     \A t \in DOMAIN index :
       /\ index[t].type = t
       /\ \A r \in artefacts : r.type = t => r.version <= index[t].version}

\* _merge_governance: None when no item has metadata, else all their labels.
MergeGovernance(items) ==
  IF items \subseteq {None} THEN None ELSE UNION (items \ {None})

\* bundle_gov: merged from the package and everything exported.
BundleGovernance(index) == MergeGovernance({Governance[index[t]] : t \in Bundled})

\* The governance of an asset: that of its sources, and bundle_gov.
AssetGovernance(index, a) ==
  MergeGovernance({Governance[index[t]] : t \in Sources[a]} \cup {BundleGovernance(index)})

\* _require_approved_review_package lets the export go on.
PackageApproved(index) ==
  Package \in DOMAIN index /\ index[Package] \in approved

\* to_platform, with everything fetched: refused (409) without an approved
\* package, rejected (400) when a type is missing, else a bundle.
ToPlatform ==
  /\ step = "get" /\ refs = {}
  /\ \E index \in Indexes :
       \/ /\ ~PackageApproved(index)
          /\ step' = "refused" /\ UNCHANGED bundle
       \/ /\ PackageApproved(index)
          /\ ~ Exportable \subseteq DOMAIN index
          /\ step' = "rejected" /\ UNCHANGED bundle
       \/ /\ PackageApproved(index)
          /\ Exportable \subseteq DOMAIN index
          /\ step' = "exported"
          /\ bundle' = [rows |-> {index[t] : t \in Bundled},
                        governance |-> [a \in Assets |-> AssetGovernance(index, a)]]
  /\ UNCHANGED <<vars, approved, moment, refs, artefacts>>

ExportNext == Save \/ ListArtefacts \/ GetArtefact \/ ToPlatform

ExportSpec == ExportInit /\ [][ExportNext]_exportVars

-----------------------------------------------------------------------------
\* Properties

\* The latest row of each type when the run's artefacts were listed.
LatestAt(R, t) == {r \in R : r.type = t /\ \A q \in R : q.type = t => q.version <= r.version}

CarriesGovernance(labels, r) == Governance[r] # None => labels # None /\ Governance[r] \subseteq labels

\* Whatever is saved while it fetches, an export is what was latest at one
\* moment, under a package that was approved then, and refuses for the right
\* reason: no mixture of versions from two moments, no package that has been
\* superseded by a draft, no lookup that raises.  Every file carries the
\* governance labels of everything exported.
ExportIsAMoment ==
  /\ step # "raised"
  /\ step \in {"refused", "rejected", "exported"} =>
       (step = "refused" <=> LatestAt(moment, Package) \cap approved = {})
  /\ step = "rejected" => \E t \in Exportable : LatestAt(moment, t) = {}
  /\ step = "exported" =>
       /\ bundle.rows = UNION {LatestAt(moment, t) : t \in Bundled}
       /\ \A t \in Bundled : LatestAt(moment, t) # {}
       /\ \A a \in Assets : \A r \in bundle.rows : CarriesGovernance(bundle.governance[a], r)

=============================================================================
