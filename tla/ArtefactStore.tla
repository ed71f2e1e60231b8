---------------------------- MODULE ArtefactStore ----------------------------
(***************************************************************************)
(* PostgresArtefactStore.save_artefact, run by concurrent sessions on one  *)
(* workflow run.  Each session owns a database transaction at READ         *)
(* COMMITTED: every SELECT sees what is committed when it executes, so the *)
(* two reads of a save and its INSERT are three separate steps.  The       *)
(* unique constraint on (run_id, artefact_type, version) is the only thing *)
(* that orders two saves.                                                  *)
(*                                                                         *)
(* The run exists (nothing deletes one), payloads are abstracted away, and *)
(* a payload that does not validate never gets as far as a session step.   *)
(***************************************************************************)
EXTENDS Naturals, FiniteSetsExt

CONSTANTS
  Types,           \* artefact types used in the run
  Sessions,        \* database sessions (graph nodes, API requests)
  Ids,             \* artefact ids that uuid4 or a caller can produce
  None,            \* an omitted argument
  CallerVersions,  \* versions a caller may pass explicitly; {} for the graph
  CallerIds,       \* ids a caller may pass that no save returned; {} for the graph
  MaxVersion       \* bound on the versions of a type (state space only)

ASSUME NoneAssumption == None \notin Ids \cup Nat
ASSUME CallerAssumption ==
  /\ CallerVersions \subseteq Nat \ {0}
  /\ CallerIds \subseteq Ids
ASSUME BoundAssumption == MaxVersion \in Nat

VARIABLES
  rows,   \* committed rows of the artefacts table
  pc,     \* pc[s]: where session s is in save_artefact
  save    \* save[s]: its local variables kind, version, resolved_artefact_id

vars == <<rows, pc, save>>

Row == [type : Types, version : Nat \ {0}, artefactId : Ids]

Steps == {"idle", "next_version", "artefact_id", "insert"}

\* The locals of a session that is not in save_artefact.
NoSave == [type |-> None, version |-> None, artefactId |-> None]

-----------------------------------------------------------------------------
\* Queries

Versions(t) == {r.version : r \in {x \in rows : x.type = t}}

OwnersOf(t) == {r.artefactId : r \in {x \in rows : x.type = t}}

\* The highest stored version of type t, 0 when there is none.
Latest(t) == Max(Versions(t) \cup {0})

\* Mutant: the highest version is returned as it is.
NextVersionNotIncremented(t) == Latest(t)

\* Mutant: the query of _next_version lacks its artefact_type condition.
NextVersionOfRun(t) == Max(UNION {Versions(u) : u \in Types} \cup {0}) + 1

\* _next_version: 1 when no row exists, else the highest version plus one.
NextVersion(t) == Latest(t) + 1

\* Every id some row or some save in progress already carries, with its type.
Claims ==
  {<<r.type, r.artefactId>> : r \in rows}
    \cup {<<save[s].type, save[s].artefactId>> :
            s \in {x \in Sessions : save[x].artefactId # None}}

\* Mutant: ids derived from the run instead of drawn at random.
FreshEnough(i) == i \in Ids

\* uuid4 returns an id nobody holds.
Fresh(i) == \A c \in Claims : c[2] # i

\* save_artefact returns or raises; the session is free again.
Return(s) ==
  /\ pc' = [pc EXCEPT ![s] = "idle"]
  /\ save' = [save EXCEPT ![s] = NoSave]

-----------------------------------------------------------------------------
Init ==
  /\ rows = {}
  /\ pc = [s \in Sessions |-> "idle"]
  /\ save = [s \in Sessions |-> NoSave]

(***************************************************************************)
(* A caller enters save_artefact.  Graph nodes pass no version and either  *)
(* no id or the id an earlier save of the same type returned; POST         *)
(* /dev/artefacts may pass any version and any id.                         *)
(***************************************************************************)
Begin(s) ==
  /\ pc[s] = "idle"
  /\ \E t \in Types, v \in {None} \cup CallerVersions :
       \E i \in {None} \cup OwnersOf(t) \cup CallerIds :
         /\ Latest(t) < MaxVersion
         /\ save' = [save EXCEPT ![s] = [type |-> t, version |-> v, artefactId |-> i]]
         /\ pc' = [pc EXCEPT ![s] = IF v = None THEN "next_version" ELSE "artefact_id"]
  /\ UNCHANGED rows

\* version = await self._next_version(run_id, kind_str)
ReadNextVersion(s) ==
  /\ pc[s] = "next_version"
  /\ save' = [save EXCEPT ![s].version = NextVersion(save[s].type)]
  /\ pc' = [pc EXCEPT ![s] = "artefact_id"]
  /\ UNCHANGED rows

(***************************************************************************)
(* resolved_artefact_id = artefact_id or await _artefact_id_for_type(...): *)
(* the id of some row of the type (LIMIT 1, no ORDER BY), else a new UUID. *)
(***************************************************************************)
ResolveArtefactId(s) ==
  /\ pc[s] = "artefact_id"
  /\ LET t == save[s].type IN
       \E i \in Ids :
         /\ \/ i = save[s].artefactId
            \/ save[s].artefactId = None /\ i \in OwnersOf(t)
            \/ save[s].artefactId = None /\ OwnersOf(t) = {} /\ Fresh(i)
         /\ save' = [save EXCEPT ![s].artefactId = i]
  /\ pc' = [pc EXCEPT ![s] = "insert"]
  /\ UNCHANGED rows

\* Mutant: the unique constraint is on the artefact id instead of the run and type.
InsertUnlessSameId(s) ==
  /\ pc[s] = "insert"
  /\ \A r \in rows : r.artefactId = save[s].artefactId => r.version # save[s].version
  /\ rows' = rows \cup {save[s]}
  /\ Return(s)

\* INSERT, audit event and COMMIT: one transaction, so one step.
Insert(s) ==
  /\ pc[s] = "insert"
  /\ save[s].version \notin Versions(save[s].type)
  /\ rows' = rows \cup {save[s]}
  /\ Return(s)

\* The unique constraint fires: rollback, ConflictError (HTTP 409).
InsertConflict(s) ==
  /\ pc[s] = "insert"
  /\ save[s].version \in Versions(save[s].type)
  /\ Return(s)
  /\ UNCHANGED rows

\* The request is cancelled or the process dies before COMMIT.
Abandon(s) ==
  /\ pc[s] # "idle"
  /\ Return(s)
  /\ UNCHANGED rows

SaveStep(s) ==
  \/ Begin(s)
  \/ ReadNextVersion(s)
  \/ ResolveArtefactId(s)
  \/ Insert(s)
  \/ InsertConflict(s)
  \/ Abandon(s)

Next == \E s \in Sessions : SaveStep(s)

Spec == Init /\ [][Next]_vars

-----------------------------------------------------------------------------
\* Properties

\* Every variable has its type: rows are complete rows, and a session about
\* to insert has a version and an id.
TypeOK ==
  /\ rows \subseteq Row
  /\ pc \in [Sessions -> Steps]
  /\ save \in [Sessions -> [type : Types \cup {None},
                            version : (Nat \ {0}) \cup {None},
                            artefactId : Ids \cup {None}]]
  /\ \A s \in Sessions :
       /\ pc[s] # "idle" => save[s].type \in Types
       /\ pc[s] \in {"artefact_id", "insert"} => save[s].version \in Nat \ {0}
       /\ pc[s] = "insert" => save[s].artefactId \in Ids

\* No explicit argument: how the graph nodes call the store.
AutoNumbered == CallerVersions = {} /\ CallerIds = {}

\* Versions of a type are 1, 2, ..., n with no hole, although two sessions may
\* have read the same highest version (_next_version).
GapFree == \A t \in Types : Versions(t) = 1 .. Latest(t)

\* All versions of a type share one artefact_id, although two sessions that
\* both found no row each drew a UUID (_artefact_id_for_type).
OneIdPerType ==
  \A r1, r2 \in rows : r1.type = r2.type => r1.artefactId = r2.artefactId

\* get_artefact(artefact_id, version) selects at most one row, which
\* scalar_one_or_none insists on: the constraint does not cover artefact_id.
LookupUnambiguous ==
  \A r1, r2 \in rows :
    r1.artefactId = r2.artefactId /\ r1.version = r2.version => r1 = r2

-----------------------------------------------------------------------------
(***************************************************************************)
(* The store implements the append-only log: an insert that commits is an  *)
(* append, every other step of a session is invisible.                     *)
(***************************************************************************)
OwnerOf(t) ==
  IF OwnersOf(t) = {} THEN None ELSE CHOOSE i \in Ids : i \in OwnersOf(t)

Log == INSTANCE VersionLog WITH
         length <- [t \in Types |-> Latest(t)],
         owner <- [t \in Types |-> OwnerOf(t)]

\* save_artefact behaves as an atomic append, in spite of its three steps.
ImplementsLog == Log!Spec

=============================================================================
