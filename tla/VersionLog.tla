----------------------------- MODULE VersionLog -----------------------------
(***************************************************************************)
(* What the artefact store promises the rest of the system about one run:  *)
(* every artefact type is an append-only log.  Saving appends exactly one  *)
(* entry whose version is the successor of the last one, the first entry   *)
(* gives the type an artefact id, and the id never changes afterwards.     *)
(* Saves happen one at a time, whatever the sessions that issue them do.   *)
(***************************************************************************)
EXTENDS Naturals

CONSTANTS
  Types,   \* the artefact types of a run
  Ids,     \* artefact ids (UUIDs)
  None     \* "no id yet", not in Ids

VARIABLES
  length,  \* length[t]: number of versions of type t
  owner    \* owner[t]: the artefact id shared by all versions of type t

vars == <<length, owner>>

Init ==
  /\ length = [t \in Types |-> 0]
  /\ owner = [t \in Types |-> None]

(***************************************************************************)
(* Append one version to the log of type t.  An id is taken when the log   *)
(* is empty, and it is no other type's id.                                 *)
(***************************************************************************)
Append(t) ==
  /\ length' = [length EXCEPT ![t] = @ + 1]
  /\ \E i \in Ids :
       /\ IF length[t] = 0
          THEN \A u \in Types \ {t} : owner[u] # i
          ELSE i = owner[t]
       /\ owner' = [owner EXCEPT ![t] = i]

Next == \E t \in Types : Append(t)

Spec == Init /\ [][Next]_vars

=============================================================================
