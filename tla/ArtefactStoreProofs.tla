------------------------- MODULE ArtefactStoreProofs -------------------------
(***************************************************************************)
(* Proofs about the artefact store and the export that reads it, for any   *)
(* number of sessions, types and ids, when the callers of save_artefact    *)
(* pass no explicit version or id (AutoNumbered): it numbers the versions  *)
(* of a type without holes, gives them one artefact id and implements an   *)
(* atomic append; an export is the store at one moment.                    *)
(*                                                                         *)
(* The heart of the argument is the order of the two reads of a save: the  *)
(* version is read before the id.  A session that found no row to take an  *)
(* id from had found none when it read its version either, so its version  *)
(* is 1, and the unique constraint lets one session insert version 1.      *)
(***************************************************************************)
EXTENDS RunExport, TLAPS

-----------------------------------------------------------------------------
\* The inductive invariant

\* A version read earlier is at most one past what is stored now.
SavesInRange ==
  \A s \in Sessions :
    pc[s] \in {"artefact_id", "insert"} => save[s].version <= Latest(save[s].type) + 1

\* An id a session carries is stored already, or the session is about to
\* insert the very first version of the type.
IdsSettled ==
  \A s \in Sessions :
    save[s].artefactId # None =>
      \/ save[s].artefactId \in OwnersOf(save[s].type)
      \/ pc[s] = "insert" /\ save[s].version = 1

\* No two types share an id, in the rows or in the saves under way.
IdsApart == \A c1, c2 \in Claims : c1[2] = c2[2] => c1[1] = c2[1]

IdleHasNoSave == \A s \in Sessions : pc[s] = "idle" => save[s] = NoSave

IInv ==
  /\ TypeOK
  /\ IdleHasNoSave
  /\ \A t \in Types : Latest(t) \in Nat
  /\ GapFree
  /\ OneIdPerType
  /\ SavesInRange
  /\ IdsSettled
  /\ IdsApart

-----------------------------------------------------------------------------
\* The queries

\* Versions count from 1.
LEMMA VersionsPositive ==
  ASSUME TypeOK, NEW t \in Types
  PROVE  Versions(t) \subseteq Nat \ {0}
BY DEF TypeOK, Versions, Row

\* The maximum of 1 .. n is n.
LEMMA LatestOfInterval ==
  ASSUME NEW t \in Types, NEW n \in Nat, Versions(t) = 1 .. n
  PROVE  Latest(t) = n
<1>. DEFINE S == Versions(t) \cup {0}
<1>1. n \in S /\ \A w \in S : n >= w
  OBVIOUS
<1>2. \A v \in S : (\A w \in S : v >= w) => v = n
  BY <1>1
<1>3. Max(S) = n
  BY <1>1, <1>2 DEF Max
<1>. QED
  BY <1>3 DEF Latest

\* Queries depend on the rows alone.
LEMMA QueriesUnchanged ==
  ASSUME rows' = rows, NEW t
  PROVE  /\ Versions(t)' = Versions(t)
         /\ OwnersOf(t)' = OwnersOf(t)
         /\ Latest(t)' = Latest(t)
BY DEF Versions, OwnersOf, Latest

\* A type has an owner as soon as it has a version.
LEMMA OwnedIffVersioned ==
  ASSUME NEW t
  PROVE  OwnersOf(t) = {} <=> Versions(t) = {}
BY DEF OwnersOf, Versions

\* What a row added to the table does to the queries.
LEMMA QueriesAfterInsert ==
  ASSUME NEW r, rows' = rows \cup {r}, NEW t
  PROVE  /\ t = r.type => Versions(t)' = Versions(t) \cup {r.version}
         /\ t # r.type => Versions(t)' = Versions(t)
         /\ OwnersOf(t) \subseteq OwnersOf(t)'
         /\ t = r.type => r.artefactId \in OwnersOf(t)'
         /\ t # r.type => Latest(t)' = Latest(t)
<1>1. t = r.type => Versions(t)' = Versions(t) \cup {r.version}
  BY DEF Versions
<1>2. t # r.type => Versions(t)' = Versions(t)
  BY DEF Versions
<1>3. OwnersOf(t) \subseteq OwnersOf(t)' /\ (t = r.type => r.artefactId \in OwnersOf(t)')
  BY DEF OwnersOf
<1>4. ASSUME t # r.type PROVE Latest(t)' = Latest(t)
  <2>1. Versions(t)' = Versions(t)
    BY <1>2, <1>4
  <2>. QED
    BY <2>1, Zenon DEF Latest
<1>. QED
  BY <1>1, <1>2, <1>3, <1>4

-----------------------------------------------------------------------------
\* One lemma per step of a session

\* An empty store satisfies the invariant.
LEMMA InitInv == AutoNumbered /\ Init => IInv
<1>. SUFFICES ASSUME Init PROVE IInv
  OBVIOUS
<1>1. ASSUME NEW t \in Types PROVE Versions(t) = 1 .. Latest(t) /\ Latest(t) \in Nat
  <2>1. Versions(t) = 1 .. 0
    BY DEF Init, Versions
  <2>2. Latest(t) = 0
    BY <2>1, LatestOfInterval
  <2>. QED
    BY <2>1, <2>2
<1>2. GapFree /\ \A t \in Types : Latest(t) \in Nat
  BY <1>1, Zenon DEF GapFree
<1>3. TypeOK /\ SavesInRange /\ IdsSettled /\ OneIdPerType
  BY DEF Init, TypeOK, SavesInRange, IdsSettled, OneIdPerType, NoSave, Steps
<1>4. IdsApart
  BY DEF Init, IdsApart, Claims, NoSave
<1>5. IdleHasNoSave
  BY DEF Init, IdleHasNoSave
<1>. QED
  BY <1>2, <1>3, <1>4, <1>5 DEF IInv

\* A save begins with the id of an earlier version, or none.
LEMMA BeginInv ==
  ASSUME AutoNumbered, IInv, NEW s \in Sessions, Begin(s)
  PROVE  IInv'
<1>0. PICK t \in Types : \E i \in {None} \cup OwnersOf(t) :
        /\ save' = [save EXCEPT ![s] = [type |-> t, version |-> None, artefactId |-> i]]
        /\ pc' = [pc EXCEPT ![s] = "next_version"]
        /\ rows' = rows
  BY DEF Begin, AutoNumbered
<1>1. PICK i \in {None} \cup OwnersOf(t) :
        /\ save' = [save EXCEPT ![s] = [type |-> t, version |-> None, artefactId |-> i]]
        /\ pc' = [pc EXCEPT ![s] = "next_version"]
        /\ rows' = rows
  BY <1>0
<1>. USE QueriesUnchanged, <1>1
<1>2. OwnersOf(t) \subseteq Ids
  BY DEF OwnersOf, IInv, TypeOK, Row
<1>3. TypeOK'
  BY <1>2 DEF IInv, TypeOK, Steps
<1>4. GapFree' /\ OneIdPerType' /\ \A u \in Types : Latest(u)' \in Nat
  BY DEF IInv, GapFree, OneIdPerType
<1>5. SavesInRange'
  BY DEF IInv, SavesInRange, TypeOK
<1>6. IdsSettled'
  BY DEF IInv, IdsSettled, TypeOK
<1>7. IdsApart'
  <2>1. Claims' \subseteq Claims \cup {<<t, i>>}
    BY DEF Claims, IInv, TypeOK
  <2>2. i # None => <<t, i>> \in Claims
    BY DEF Claims, OwnersOf
  <2>3. <<t, i>> \in Claims' => i # None
    BY <1>2, NoneAssumption DEF Claims, IInv, TypeOK, Row
  <2>. QED
    BY <2>1, <2>2, <2>3 DEF IdsApart, IInv
<1>9. IdleHasNoSave'
  BY DEF IInv, TypeOK, IdleHasNoSave, NoSave
<1>. QED
  BY <1>3, <1>4, <1>5, <1>6, <1>7, <1>9 DEF IInv

\* The version read is one past the latest.
LEMMA ReadNextVersionInv ==
  ASSUME IInv, NEW s \in Sessions, ReadNextVersion(s)
  PROVE  IInv'
<1>. DEFINE t == save[s].type
<1>1. /\ pc[s] = "next_version" /\ t \in Types
      /\ save' = [save EXCEPT ![s].version = Latest(t) + 1]
      /\ pc' = [pc EXCEPT ![s] = "artefact_id"]
      /\ rows' = rows
  BY DEF ReadNextVersion, NextVersion, IInv, TypeOK
<1>. USE QueriesUnchanged, <1>1
<1>2. Latest(t) + 1 \in Nat \ {0}
  BY DEF IInv
<1>3. TypeOK'
  BY <1>2 DEF IInv, TypeOK, Steps
<1>4. GapFree' /\ OneIdPerType' /\ \A u \in Types : Latest(u)' \in Nat
  BY DEF IInv, GapFree, OneIdPerType
<1>5. SavesInRange'
  BY <1>2 DEF IInv, SavesInRange, TypeOK
<1>6. IdsSettled'
  BY DEF IInv, IdsSettled, TypeOK
<1>7. Claims' = Claims
  BY DEF Claims, IInv, TypeOK
<1>8. IdsApart'
  BY <1>7 DEF IdsApart, IInv
<1>9. IdleHasNoSave'
  BY DEF IInv, TypeOK, IdleHasNoSave, NoSave
<1>. QED
  BY <1>3, <1>4, <1>5, <1>6, <1>8, <1>9 DEF IInv

\* The id is that of the type, or fresh if the type has no rows: then the
\* version read before it is 1.
LEMMA ResolveArtefactIdInv ==
  ASSUME IInv, NEW s \in Sessions, ResolveArtefactId(s)
  PROVE  IInv'
<1>. DEFINE t == save[s].type
<1>1. PICK i \in Ids :
        /\ \/ i = save[s].artefactId
           \/ save[s].artefactId = None /\ i \in OwnersOf(t)
           \/ save[s].artefactId = None /\ OwnersOf(t) = {} /\ Fresh(i)
        /\ save' = [save EXCEPT ![s].artefactId = i]
  BY DEF ResolveArtefactId
<1>2. /\ pc[s] = "artefact_id" /\ t \in Types
      /\ pc' = [pc EXCEPT ![s] = "insert"]
      /\ rows' = rows
  BY DEF ResolveArtefactId, IInv, TypeOK
<1>. USE QueriesUnchanged, <1>2
<1>3. TypeOK'
  BY <1>1 DEF IInv, TypeOK, Steps
<1>4. GapFree' /\ OneIdPerType' /\ \A u \in Types : Latest(u)' \in Nat
  BY DEF IInv, GapFree, OneIdPerType
<1>5. SavesInRange'
  BY <1>1 DEF IInv, SavesInRange, TypeOK
<1>6. OwnersOf(t) = {} => save[s].version = 1
  <2>1. SUFFICES ASSUME OwnersOf(t) = {} PROVE save[s].version = 1
    OBVIOUS
  <2>2. Versions(t) = 1 .. 0
    BY <2>1, OwnedIffVersioned
  <2>3. Latest(t) = 0
    BY <2>2, LatestOfInterval
  <2>4. save[s].version <= Latest(t) + 1
    BY DEF IInv, SavesInRange
  <2>5. save[s].version \in Nat \ {0}
    BY DEF IInv, TypeOK
  <2>. QED
    BY <2>3, <2>4, <2>5
<1>7. IdsSettled'
  <2>1. CASE i = save[s].artefactId
    BY <1>1, <2>1, NoneAssumption DEF IInv, IdsSettled, TypeOK
  <2>2. CASE i \in OwnersOf(t)
    BY <1>1, <2>2 DEF IInv, IdsSettled, TypeOK
  <2>3. CASE OwnersOf(t) = {}
    BY <1>1, <1>6, <2>3 DEF IInv, IdsSettled, TypeOK
  <2>. QED
    BY <1>1, <2>1, <2>2, <2>3
<1>8. IdsApart'
  <2>1. Claims' \subseteq Claims \cup {<<t, i>>}
    BY <1>1 DEF Claims, IInv, TypeOK
  <2>2. <<t, i>> \in Claims \/ Fresh(i)
    BY <1>1, NoneAssumption DEF Claims, OwnersOf
  <2>. QED
    BY <2>1, <2>2 DEF IdsApart, IInv, Fresh
<1>9. IdleHasNoSave'
  BY <1>1 DEF IInv, TypeOK, IdleHasNoSave, NoSave
<1>. QED
  BY <1>3, <1>4, <1>5, <1>7, <1>8, <1>9 DEF IInv

\* A session that returns, or gives up, leaves the store as it is.
LEMMA ReturnInv ==
  ASSUME IInv, NEW s \in Sessions, Return(s), rows' = rows
  PROVE  IInv'
<1>. USE QueriesUnchanged DEF Return
<1>1. TypeOK'
  BY DEF IInv, TypeOK, Steps, NoSave
<1>2. GapFree' /\ OneIdPerType' /\ \A u \in Types : Latest(u)' \in Nat
  BY DEF IInv, GapFree, OneIdPerType
<1>3. SavesInRange' /\ IdsSettled'
  BY DEF IInv, SavesInRange, IdsSettled, TypeOK, NoSave
<1>4. Claims' \subseteq Claims
  BY DEF Claims, IInv, TypeOK, NoSave
<1>5. IdsApart'
  BY <1>4 DEF IdsApart, IInv
<1>9. IdleHasNoSave'
  BY DEF IInv, TypeOK, IdleHasNoSave, NoSave
<1>. QED
  BY <1>1, <1>2, <1>3, <1>5, <1>9 DEF IInv

\* The row a committing session adds: its version is the next one and its id
\* is the one id of the type.
LEMMA InsertedRow ==
  ASSUME IInv, NEW s \in Sessions, Insert(s)
  PROVE  /\ save[s] \in Row
         /\ rows' = rows \cup {save[s]}
         /\ save[s].version = Latest(save[s].type) + 1
         /\ \A r \in rows : r.type = save[s].type => r.artefactId = save[s].artefactId
<1>. DEFINE t == save[s].type
<1>1. /\ pc[s] = "insert" /\ rows' = rows \cup {save[s]}
      /\ save[s].version \notin Versions(t)
  BY DEF Insert
<1>2. save[s] \in Row
  BY <1>1, NoneAssumption DEF IInv, TypeOK, Row
<1>3. save[s].version = Latest(t) + 1
  <2>1. Versions(t) = 1 .. Latest(t) /\ Latest(t) \in Nat
    BY <1>2 DEF IInv, GapFree, Row
  <2>2. save[s].version \in Nat \ {0} /\ save[s].version <= Latest(t) + 1
    BY <1>1, <1>2 DEF IInv, SavesInRange, Row
  <2>. QED
    BY <1>1, <2>1, <2>2
<1>4. ASSUME NEW r \in rows, r.type = t PROVE r.artefactId = save[s].artefactId
  <2>1. Versions(t) # {} /\ r.version \in Versions(t)
    BY <1>4 DEF Versions
  <2>2. save[s].version # 1
    <3>1. Versions(t) = 1 .. Latest(t) /\ Latest(t) \in Nat
      BY <1>2 DEF IInv, GapFree, Row
    <3>2. Latest(t) # 0
      BY <2>1, <3>1
    <3>. QED
      BY <1>3, <3>1, <3>2
  <2>3. save[s].artefactId \in OwnersOf(t)
    BY <1>1, <1>2, <2>2, NoneAssumption DEF IInv, IdsSettled, Row
  <2>4. PICK q \in rows : q.type = t /\ q.artefactId = save[s].artefactId
    BY <2>3 DEF OwnersOf
  <2>. QED
    BY <1>4, <2>4 DEF IInv, OneIdPerType
<1>. QED
  BY <1>1, <1>2, <1>3, <1>4

\* The insert continues its type, or is the first row of a new one.
LEMMA InsertInv ==
  ASSUME IInv, NEW s \in Sessions, Insert(s)
  PROVE  IInv'
<1>0. PICK t \in Types : t = save[s].type
  BY InsertedRow DEF Row
<1>1. /\ save[s] \in Row /\ pc[s] = "insert"
      /\ rows' = rows \cup {save[s]}
      /\ save[s].version = Latest(t) + 1
      /\ \A r \in rows : r.type = t => r.artefactId = save[s].artefactId
      /\ pc' = [pc EXCEPT ![s] = "idle"]
      /\ save' = [save EXCEPT ![s] = NoSave]
  BY <1>0, InsertedRow DEF Insert, Return
<1>2. TypeOK'
  BY <1>1 DEF IInv, TypeOK, Steps, NoSave
<1>3. /\ Versions(t)' = 1 .. Latest(t) + 1 /\ Latest(t)' = Latest(t) + 1
      /\ Latest(t) \in Nat
  <2>1. Versions(t) = 1 .. Latest(t) /\ Latest(t) \in Nat
    BY <1>1 DEF IInv, GapFree
  <2>2. Versions(t)' = Versions(t) \cup {Latest(t) + 1}
    BY <1>0, <1>1, QueriesAfterInsert
  <2>3. Versions(t)' = 1 .. Latest(t) + 1
    BY <2>1, <2>2
  <2>4. Max(Versions(t)' \cup {0}) = Latest(t) + 1
    <3>. DEFINE n == Latest(t) + 1
                S == Versions(t)' \cup {0}
    <3>1. n \in S /\ \A w \in S : n >= w
      BY <2>1, <2>3
    <3>2. \A v \in S : (\A w \in S : v >= w) => v = n
      BY <2>1, <2>3, <3>1
    <3>. HIDE DEF S, n
    <3>3. Max(S) = n
      BY <3>1, <3>2 DEF Max
    <3>. QED
      BY <3>3 DEF S, n
  <2>. QED
    BY <2>1, <2>3, <2>4 DEF Latest
<1>4. ASSUME NEW u \in Types, u # t
      PROVE  Versions(u)' = Versions(u) /\ Latest(u)' = Latest(u)
  BY <1>0, <1>1, <1>4, QueriesAfterInsert
<1>5. GapFree' /\ \A u \in Types : Latest(u)' \in Nat
  <2>1. ASSUME NEW u \in Types
        PROVE  Versions(u)' = 1 .. Latest(u)' /\ Latest(u)' \in Nat
    <3>1. CASE u = t
      BY <1>3, <3>1
    <3>2. CASE u # t
      BY <1>4, <3>2 DEF IInv, GapFree
    <3>. QED
      BY <3>1, <3>2
  <2>. QED
    BY <2>1, Zenon DEF GapFree
<1>6. OneIdPerType'
  BY <1>0, <1>1 DEF IInv, OneIdPerType
<1>7. SavesInRange'
  <2>1. SUFFICES ASSUME NEW x \in Sessions, pc'[x] \in {"artefact_id", "insert"}
                 PROVE  (save[x].version <= Latest(save[x].type) + 1)'
    BY DEF SavesInRange
  <2>2. x # s /\ save'[x] = save[x] /\ pc[x] \in {"artefact_id", "insert"}
    BY <1>1, <2>1 DEF IInv, TypeOK
  <2>3. PICK u \in Types : u = save[x].type
    BY <2>2 DEF IInv, TypeOK
  <2>4. save[x].version <= Latest(u) + 1 /\ save[x].version \in Nat
    BY <2>2, <2>3 DEF IInv, SavesInRange, TypeOK
  <2>5. save[x].version <= Latest(u)' + 1
    <3>1. CASE u = t
      BY <1>3, <2>4, <3>1
    <3>2. CASE u # t
      BY <1>4, <2>4, <3>2
    <3>. QED
      BY <3>1, <3>2
  <2>. QED
    BY <2>2, <2>3, <2>5
<1>8. IdsSettled'
  <2>1. \A u : OwnersOf(u) \subseteq OwnersOf(u)'
    BY <1>1, QueriesAfterInsert
  <2>. QED
    BY <1>0, <1>1, <2>1, NoneAssumption DEF IInv, IdsSettled, TypeOK, NoSave
<1>9. IdsApart'
  <2>1. Claims' \subseteq Claims
    BY <1>1, NoneAssumption DEF Claims, IInv, TypeOK, NoSave, Row
  <2>. QED
    BY <2>1 DEF IdsApart, IInv
<1>10. IdleHasNoSave'
  BY <1>1 DEF IInv, TypeOK, IdleHasNoSave, NoSave
<1>. QED
  BY <1>2, <1>5, <1>6, <1>7, <1>8, <1>9, <1>10 DEF IInv

-----------------------------------------------------------------------------
\* The induction

\* Every step of every session keeps the invariant.
LEMMA NextInv ==
  ASSUME AutoNumbered, IInv, [Next]_vars
  PROVE  IInv'
<1>1. CASE UNCHANGED vars
  <2>. USE <1>1, QueriesUnchanged DEF vars
  <2>1. TypeOK' /\ IdleHasNoSave' /\ OneIdPerType'
    BY DEF IInv, TypeOK, IdleHasNoSave, OneIdPerType
  <2>2. GapFree' /\ \A t \in Types : Latest(t)' \in Nat
    BY DEF IInv, GapFree
  <2>3. SavesInRange' /\ IdsSettled'
    BY DEF IInv, SavesInRange, IdsSettled
  <2>4. IdsApart'
    BY DEF IInv, IdsApart, Claims
  <2>. QED
    BY <2>1, <2>2, <2>3, <2>4 DEF IInv
<1>2. ASSUME NEW s \in Sessions, SaveStep(s) PROVE IInv'
  <2>1. CASE Begin(s)
    BY <2>1, BeginInv
  <2>2. CASE ReadNextVersion(s)
    BY <2>2, ReadNextVersionInv
  <2>3. CASE ResolveArtefactId(s)
    BY <2>3, ResolveArtefactIdInv
  <2>4. CASE Insert(s)
    BY <2>4, InsertInv
  <2>5. CASE InsertConflict(s) \/ Abandon(s)
    BY <2>5, ReturnInv DEF InsertConflict, Abandon
  <2>. QED
    BY <1>2, <2>1, <2>2, <2>3, <2>4, <2>5 DEF SaveStep
<1>. QED
  BY <1>1, <1>2 DEF Next

\* IInv holds throughout every behaviour whose callers leave version and id to
\* save_artefact.
THEOREM StoreInvariant == AutoNumbered => (Spec => []IInv)
<1>. SUFFICES ASSUME AutoNumbered PROVE Spec => []IInv
  OBVIOUS
<1>1. Init => IInv
  BY InitInv
<1>2. IInv /\ [Next]_vars => IInv'
  BY NextInv
<1>. QED
  BY <1>1, <1>2, PTL DEF Spec

\* Rows and sessions keep their types (TypeOK) when callers leave version and
\* id to save_artefact: _next_version returns a positive integer because the
\* stored versions always have a maximum.
THEOREM TypeCorrect == AutoNumbered => (Spec => []TypeOK)
BY StoreInvariant, PTL DEF IInv

\* Concurrent saves never leave a hole in the version numbers of a type
\* (_next_version and the unique constraint), for any number of sessions.
THEOREM NoVersionGaps == AutoNumbered => (Spec => []GapFree)
BY StoreInvariant, PTL DEF IInv

\* Concurrent first saves never give one type two artefact ids
\* (_artefact_id_for_type), for any number of sessions.
THEOREM StableArtefactId == AutoNumbered => (Spec => []OneIdPerType)
BY StoreInvariant, PTL DEF IInv

\* get_artefact by id and version never finds two rows.
THEOREM UnambiguousLookup == AutoNumbered => (Spec => []LookupUnambiguous)
<1>1. IInv => LookupUnambiguous
  <2>1. SUFFICES ASSUME IInv, NEW r1 \in rows, NEW r2 \in rows,
                        r1.artefactId = r2.artefactId, r1.version = r2.version
                 PROVE  r1 = r2
    BY DEF LookupUnambiguous
  <2>2. <<r1.type, r1.artefactId>> \in Claims /\ <<r2.type, r2.artefactId>> \in Claims
    BY DEF Claims
  <2>3. r1.type = r2.type
    BY <2>1, <2>2 DEF IInv, IdsApart
  <2>4. r1 \in Row /\ r2 \in Row
    BY <2>1 DEF IInv, TypeOK
  <2>. QED
    BY <2>1, <2>3, <2>4 DEF Row
<1>. QED
  BY <1>1, StoreInvariant, PTL

-----------------------------------------------------------------------------
\* Refinement

\* OwnerOf is the id of every row of the type.
LEMMA OwnerOfRows ==
  ASSUME IInv, NEW t \in Types
  PROVE  /\ OwnersOf(t) = {} => OwnerOf(t) = None
         /\ \A r \in rows : r.type = t => OwnerOf(t) = r.artefactId
<1>1. OwnersOf(t) = {} => OwnerOf(t) = None
  BY DEF OwnerOf
<1>2. ASSUME NEW r \in rows, r.type = t PROVE OwnerOf(t) = r.artefactId
  <2>1. r.artefactId \in OwnersOf(t) /\ r.artefactId \in Ids
    BY <1>2 DEF OwnersOf, IInv, TypeOK, Row
  <2>2. \A i \in OwnersOf(t) : i = r.artefactId
    BY <1>2 DEF OwnersOf, IInv, OneIdPerType
  <2>. QED
    BY <2>1, <2>2 DEF OwnerOf
<1>. QED
  BY <1>1, <1>2

\* A step that leaves the rows alone is invisible in the log.
LEMMA SilentStep == rows' = rows => UNCHANGED Log!vars
<1>. SUFFICES ASSUME rows' = rows PROVE UNCHANGED Log!vars
  OBVIOUS
<1>1. \A t \in Types : OwnerOf(t)' = OwnerOf(t)
  BY QueriesUnchanged DEF OwnerOf, OwnersOf
<1>2. \A t \in Types : Latest(t)' = Latest(t)
  BY QueriesUnchanged
<1>. QED
  BY <1>1, <1>2 DEF Log!vars

\* A committing insert is an append to the log of its type.
LEMMA InsertIsAppend ==
  ASSUME IInv, NEW s \in Sessions, Insert(s)
  PROVE  Log!Append(save[s].type)
<1>1. PICK t \in Types : t = save[s].type
  BY InsertedRow DEF Row
<1>2. PICK i \in Ids : i = save[s].artefactId
  BY InsertedRow DEF Row
<1>3. /\ rows' = rows \cup {save[s]}
      /\ save[s].version = Latest(t) + 1
      /\ \A r \in rows : r.type = t => r.artefactId = i
  BY <1>1, <1>2, InsertedRow
<1>4. IInv'
  BY InsertInv
<1>5. Latest(t)' = Latest(t) + 1 /\ OwnerOf(t)' = i
  <2>1. Versions(t)' = 1 .. Latest(t)' /\ Latest(t)' \in Nat
    BY <1>4 DEF IInv, GapFree
  <2>2. Versions(t) = 1 .. Latest(t) /\ Latest(t) \in Nat
    BY DEF IInv, GapFree
  <2>3. Versions(t)' = Versions(t) \cup {Latest(t) + 1}
    BY <1>1, <1>3, QueriesAfterInsert
  <2>4. \A m, n \in Nat : 1 .. m = (1 .. n) \cup {n + 1} => m = n + 1
    <3>1. SUFFICES ASSUME NEW m \in Nat, NEW n \in Nat, 1 .. m = (1 .. n) \cup {n + 1}
                   PROVE  m = n + 1
      OBVIOUS
    <3>2. n + 1 \in 1 .. m
      BY <3>1
    <3>3. m \in (1 .. n) \cup {n + 1}
      BY <3>1, <3>2
    <3>. QED
      BY <3>2, <3>3
  <2>5. Latest(t)' = Latest(t) + 1
    BY <2>1, <2>2, <2>3, <2>4, Zenon
  <2>6. i \in OwnersOf(t)'
    BY <1>1, <1>2, <1>3, QueriesAfterInsert
  <2>7. \A j \in OwnersOf(t)' : j = i
    BY <1>1, <1>2, <1>3 DEF OwnersOf
  <2>8. OwnerOf(t)' = i
    BY <2>6, <2>7 DEF OwnerOf
  <2>. QED
    BY <2>5, <2>8
<1>6. ASSUME NEW u \in Types, u # t
      PROVE  Latest(u)' = Latest(u) /\ OwnerOf(u)' = OwnerOf(u)
  <2>1. Latest(u)' = Latest(u)
    BY <1>1, <1>3, <1>6, QueriesAfterInsert
  <2>2. OwnersOf(u)' = OwnersOf(u)
    BY <1>1, <1>3, <1>6 DEF OwnersOf
  <2>3. OwnerOf(u)' = OwnerOf(u)
    BY <2>2 DEF OwnerOf
  <2>. QED
    BY <2>1, <2>3
<1>7. IF Latest(t) = 0
      THEN \A u \in Types \ {t} : OwnerOf(u) # i
      ELSE i = OwnerOf(t)
  <2>1. CASE Latest(t) = 0
    <3>1. SUFFICES ASSUME NEW u \in Types \ {t}, OwnerOf(u) = i PROVE FALSE
      BY <2>1
    <3>2. PICK r \in rows : r.type = u /\ r.artefactId = i
      <4>1. OwnersOf(u) # {}
        BY <3>1, OwnerOfRows, NoneAssumption
      <4>2. PICK r \in rows : r.type = u
        BY <4>1 DEF OwnersOf
      <4>. QED
        BY <3>1, <4>2, OwnerOfRows
    <3>3. <<u, i>> \in Claims
      BY <3>2 DEF Claims
    <3>4. <<t, i>> \in Claims
      BY <1>1, <1>2, NoneAssumption DEF Claims
    <3>. QED
      BY <3>1, <3>3, <3>4 DEF IInv, IdsApart
  <2>2. CASE Latest(t) # 0
    <3>1. Latest(t) \in Versions(t)
      BY <2>2 DEF IInv, GapFree
    <3>2. PICK r \in rows : r.type = t
      BY <3>1 DEF Versions
    <3>. QED
      BY <1>3, <2>2, <3>2, OwnerOfRows
  <2>. QED
    BY <2>1, <2>2
<1>8. Log!Append(t)
  <2>. DEFINE length == [u \in Types |-> Latest(u)]
              owner == [u \in Types |-> OwnerOf(u)]
  <2>1. length' = [length EXCEPT ![t] = @ + 1]
    BY <1>5, <1>6
  <2>2. owner' = [owner EXCEPT ![t] = i]
    BY <1>5, <1>6
  <2>3. IF length[t] = 0
        THEN \A u \in Types \ {t} : owner[u] # i
        ELSE i = owner[t]
    BY <1>7
  <2>. QED
    BY <2>1, <2>2, <2>3 DEF Log!Append
<1>. QED
  BY <1>1, <1>8

\* save_artefact implements the atomic append of VersionLog: whatever the
\* interleaving of its reads and inserts, callers see one log per type.
THEOREM StoreRefinesLog == AutoNumbered => (Spec => ImplementsLog)
<1>. SUFFICES ASSUME AutoNumbered PROVE Spec => ImplementsLog
  OBVIOUS
<1>1. Init => Log!Init
  <2>1. SUFFICES ASSUME Init, NEW t \in Types PROVE Latest(t) = 0 /\ OwnerOf(t) = None
    BY DEF Log!Init
  <2>2. Versions(t) = 1 .. 0
    BY <2>1 DEF Init, Versions
  <2>. QED
    BY <2>1, <2>2, LatestOfInterval DEF Init, OwnerOf, OwnersOf
<1>2. IInv /\ [Next]_vars => [Log!Next]_(Log!vars)
  <2>1. SUFFICES ASSUME IInv, [Next]_vars PROVE [Log!Next]_(Log!vars)
    OBVIOUS
  <2>2. ASSUME NEW s \in Sessions, Insert(s) PROVE Log!Next
    BY <2>1, <2>2, InsertIsAppend, InsertedRow DEF Log!Next, Row
  <2>3. ASSUME NEW s \in Sessions, SaveStep(s), ~Insert(s) PROVE rows' = rows
    BY <2>3 DEF SaveStep, Begin, ReadNextVersion, ResolveArtefactId, InsertConflict, Abandon
  <2>. QED
    BY <2>1, <2>2, <2>3, SilentStep DEF Next, vars
<1>. QED
  BY <1>1, <1>2, StoreInvariant, PTL DEF Spec, ImplementsLog, Log!Spec

-----------------------------------------------------------------------------
(***************************************************************************)
(* An export, read in many transactions while saves go on, is the store at *)
(* one moment.  It rests on two facts that hold at every moment: an id     *)
(* belongs to one type and a type to one id, so that the latest of an id   *)
(* is the latest of its type; and a row, once listed, is there to be       *)
(* fetched, the only one with its id and version.                          *)
(***************************************************************************)

\* No merged set of labels is taken for missing metadata.
LabelsAreNotNone == \A R \in SUBSET Row : UNION ({Governance[r] : r \in R} \ {None}) # None

-----------------------------------------------------------------------------
\* Rows

\* The latest rows of R, one of each type.
Tops(R) == {r \in R : r \in LatestAt(R, r.type)}

\* In the store an id is of one type and a type of one id, and type and
\* version name a row.
LEMMA RowsNamed ==
  ASSUME IInv, NEW q \in rows, NEW r \in rows
  PROVE  /\ q \in Row /\ r \in Row
         /\ q.artefactId = r.artefactId <=> q.type = r.type
         /\ q.type = r.type /\ q.version = r.version => q = r
<1>1. q \in Row /\ r \in Row
  BY DEF IInv, TypeOK
<1>2. q.artefactId = r.artefactId => q.type = r.type
  <2>1. <<q.type, q.artefactId>> \in Claims /\ <<r.type, r.artefactId>> \in Claims
    BY DEF Claims
  <2>. QED
    BY <2>1 DEF IInv, IdsApart
<1>3. q.type = r.type => q.artefactId = r.artefactId
  BY DEF IInv, OneIdPerType
<1>. QED
  BY <1>1, <1>2, <1>3 DEF Row

\* There is one latest row of a type, at most.
LEMMA LatestUnique ==
  ASSUME IInv, NEW R \in SUBSET rows, NEW t, NEW q \in LatestAt(R, t), NEW r \in LatestAt(R, t)
  PROVE  q = r
<1>1. q \in rows /\ r \in rows /\ q.type = r.type /\ q.version <= r.version /\ r.version <= q.version
  BY DEF LatestAt
<1>2. q \in Row /\ r \in Row
  BY <1>1, RowsNamed
<1>3. q.version = r.version
  BY <1>1, <1>2 DEF Row
<1>. QED
  BY <1>1, <1>3, RowsNamed

\* The highest version of an id is the latest of its type.
LEMMA HighestIsLatest ==
  ASSUME IInv, NEW q \in rows, NEW r \in HighestOfId(rows, q.artefactId)
  PROVE  r \in rows /\ r.type = q.type /\ r \in LatestAt(rows, q.type)
<1>1. r \in rows /\ r.artefactId = q.artefactId
  BY DEF HighestOfId
<1>2. r.type = q.type
  BY <1>1, RowsNamed
<1>3. ASSUME NEW x \in rows, x.type = q.type PROVE x.version <= r.version
  <2>1. x.artefactId = q.artefactId
    BY <1>3, RowsNamed
  <2>. QED
    BY <2>1 DEF HighestOfId
<1>. QED
  BY <1>1, <1>2, <1>3 DEF LatestAt

\* A save leaves the rows that are there.
LEMMA RowsStay == ASSUME Next PROVE rows \subseteq rows'
BY DEF Next, SaveStep, Begin, ReadNextVersion, ResolveArtefactId, Insert, InsertConflict, Abandon

-----------------------------------------------------------------------------
\* The invariant

\* What export_run has in hand is the latest of every type at the moment of
\* the list; an approved row that it listed was approved then.
InHand ==
  /\ step \in {"list", "get", "refused", "rejected", "exported"}
  /\ moment \subseteq rows
  /\ step = "list" => artefacts = {}
  /\ step # "list" =>
       /\ refs \cup artefacts = Tops(moment)
       /\ \A r \in moment : LatestAt(moment, r.type) # {}

ExportInv == IInv /\ InHand /\ ExportIsAMoment

\* What is in hand is not touched by a save.
LEMMA SaveExport == ASSUME AutoNumbered, ExportInv, Save PROVE ExportInv'
<1>1. IInv'
  BY NextInv DEF ExportInv, Save
<1>2. rows \subseteq rows' /\ UNCHANGED export
  BY RowsStay DEF Save
<1>3. InHand'
  BY <1>2 DEF ExportInv, InHand, export, Tops, LatestAt
<1>4. \A r \in moment : r \in approved' <=> r \in approved
  BY DEF Save, ExportInv, InHand
<1>5. ExportIsAMoment'
  <2>1. LatestAt(moment, Package) \cap approved' = LatestAt(moment, Package) \cap approved
    BY <1>4 DEF LatestAt
  <2>. QED
    BY <1>2, <2>1 DEF ExportInv, ExportIsAMoment, export, LatestAt, CarriesGovernance
<1>. QED
  BY <1>1, <1>3, <1>5 DEF ExportInv

\* The list has the latest row of each type.
LEMMA ListExport == ASSUME AutoNumbered, ExportInv, ListArtefacts PROVE ExportInv'
<1>1. IInv' /\ IInv
  BY NextInv DEF ExportInv, ListArtefacts
<1>2. PICK latest \in [{r.artefactId : r \in rows} -> rows] :
        /\ \A i \in DOMAIN latest : latest[i] \in HighestOfId(rows, i)
        /\ refs' = {latest[i] : i \in DOMAIN latest}
  BY DEF ListArtefacts
<1>3. /\ moment' = rows /\ rows' = rows /\ step' = "get" /\ artefacts' = artefacts /\ artefacts = {}
  BY DEF ListArtefacts, vars, ExportInv, InHand
<1>4. ASSUME NEW r \in rows
      PROVE  /\ latest[r.artefactId] \in refs'
             /\ latest[r.artefactId] \in rows
             /\ latest[r.artefactId] \in LatestAt(rows, r.type)
             /\ latest[r.artefactId].type = r.type
  <2>1. r.artefactId \in DOMAIN latest
    BY <1>2
  <2>2. latest[r.artefactId] \in HighestOfId(rows, r.artefactId) /\ latest[r.artefactId] \in refs'
    BY <1>2, <2>1
  <2>. QED
    BY <1>1, <2>2, HighestIsLatest
<1>5. refs' \subseteq Tops(rows)
  <2>. SUFFICES ASSUME NEW x \in refs' PROVE x \in Tops(rows)
    OBVIOUS
  <2>1. PICK r \in rows : x = latest[r.artefactId]
    BY <1>2
  <2>. QED
    BY <1>4, <2>1 DEF Tops
<1>6. Tops(rows) \subseteq refs'
  <2>. SUFFICES ASSUME NEW x \in Tops(rows) PROVE x \in refs'
    OBVIOUS
  <2>1. x \in rows /\ x \in LatestAt(rows, x.type)
    BY DEF Tops
  <2>2. x = latest[x.artefactId]
    BY <1>1, <1>4, <2>1, LatestUnique
  <2>. QED
    BY <1>4, <2>1, <2>2
<1>7. InHand'
  <2>1. \A r \in rows : LatestAt(rows, r.type) # {}
    BY <1>4
  <2>2. Tops(moment') = Tops(rows) /\ refs' \cup artefacts' = Tops(rows)
    BY <1>3, <1>5, <1>6
  <2>. QED
    BY <1>3, <2>1, <2>2 DEF InHand, Tops, LatestAt
<1>8. ExportIsAMoment'
  BY <1>3 DEF ExportIsAMoment
<1>. QED
  BY <1>1, <1>7, <1>8 DEF ExportInv

\* A listed row is found, and no other.
LEMMA GetExport == ASSUME AutoNumbered, ExportInv, GetArtefact PROVE ExportInv'
<1>1. IInv' /\ IInv
  BY NextInv DEF ExportInv, GetArtefact
<1>2. PICK ref \in refs :
        /\ refs' = refs \ {ref}
        /\ \/ artefacts' = artefacts \cup {ref} /\ step' = step
           \/ Selected(ref) # {ref}
  BY DEF GetArtefact
<1>3. step = "get" /\ rows' = rows /\ moment' = moment
  BY DEF GetArtefact, vars
<1>4. ref \in rows
  BY <1>3 DEF ExportInv, InHand, Tops
<1>5. Selected(ref) = {ref}
  <2>1. \A r \in Selected(ref) : r = ref
    BY <1>1, <1>4, RowsNamed DEF Selected
  <2>. QED
    BY <1>4, <2>1 DEF Selected
<1>6. artefacts' = artefacts \cup {ref} /\ step' = step
  BY <1>2, <1>5
<1>7. InHand'
  BY <1>2, <1>3, <1>6 DEF ExportInv, InHand, Tops, LatestAt
<1>8. ExportIsAMoment'
  BY <1>3, <1>6 DEF ExportIsAMoment
<1>. QED
  BY <1>1, <1>7, <1>8 DEF ExportInv

-----------------------------------------------------------------------------
\* The bundle

\* What is fetched is indexed by the latest row of each type.
LEMMA IndexIsLatest ==
  ASSUME ExportInv, step = "get", refs = {}, NEW index \in Indexes
  PROVE  /\ \A t \in DOMAIN index : index[t] \in rows /\ LatestAt(moment, t) = {index[t]}
         /\ \A t : t \notin DOMAIN index => LatestAt(moment, t) = {}
<1>1. artefacts = Tops(moment) /\ moment \subseteq rows /\ IInv
  BY DEF ExportInv, InHand
<1>2. /\ DOMAIN index = {r.type : r \in artefacts}
      /\ \A t \in DOMAIN index : index[t] \in artefacts /\ index[t].type = t
  BY DEF Indexes
<1>3. ASSUME NEW t \in DOMAIN index PROVE index[t] \in rows /\ LatestAt(moment, t) = {index[t]}
  <2>1. index[t] \in moment /\ index[t] \in LatestAt(moment, t)
    BY <1>1, <1>2 DEF Tops
  <2>2. \A r \in LatestAt(moment, t) : r = index[t]
    BY <1>1, <2>1, LatestUnique
  <2>. QED
    BY <1>1, <2>1, <2>2
<1>4. ASSUME NEW t, NEW r \in LatestAt(moment, t) PROVE t \in DOMAIN index
  <2>1. r \in Tops(moment) /\ r.type = t
    BY DEF LatestAt, Tops
  <2>. QED
    BY <1>1, <1>2, <2>1
<1>. QED
  BY <1>3, <1>4

\* Every asset carries the labels of everything that is bundled.
LEMMA LabelsKept ==
  ASSUME LabelsAreNotNone, NEW index, \A t \in Bundled : index[t] \in Row,
         NEW a \in Assets, NEW t \in Bundled
  PROVE  CarriesGovernance(AssetGovernance(index, a), index[t])
<1>. DEFINE items == {Governance[index[u]] : u \in Bundled}
            own == {Governance[index[u]] : u \in Sources[a]}
<1>. SUFFICES ASSUME Governance[index[t]] # None
              PROVE  /\ AssetGovernance(index, a) # None
                     /\ Governance[index[t]] \subseteq AssetGovernance(index, a)
  BY DEF CarriesGovernance
<1>1. Governance[index[t]] \in items
  OBVIOUS
<1>2. BundleGovernance(index) = UNION (items \ {None})
  BY <1>1 DEF BundleGovernance, MergeGovernance
<1>3. UNION (items \ {None}) # None
  <2>1. {index[u] : u \in Bundled} \in SUBSET Row
    OBVIOUS
  <2>2. items = {Governance[r] : r \in {index[u] : u \in Bundled}}
    OBVIOUS
  <2>. QED
    BY <2>1, <2>2 DEF LabelsAreNotNone
<1>4. AssetGovernance(index, a) = UNION ((own \cup {BundleGovernance(index)}) \ {None})
  BY <1>2, <1>3 DEF AssetGovernance, MergeGovernance
<1>5. Sources[a] \subseteq Bundled
  BY ExportAssumption DEF Bundled
<1>6. own \subseteq items
  BY <1>5
<1>. HIDE DEF items, own
<1>7. AssetGovernance(index, a) = UNION (items \ {None})
  BY <1>2, <1>3, <1>4, <1>6
<1>. QED
  BY <1>1, <1>3, <1>7

\* to_platform answers for the moment of the list.
LEMMA PlatformExport ==
  ASSUME AutoNumbered, LabelsAreNotNone, ExportInv, ToPlatform
  PROVE  ExportInv'
<1>1. IInv'
  BY NextInv DEF ExportInv, ToPlatform
<1>2. /\ step = "get" /\ refs = {}
      /\ UNCHANGED <<rows, approved, moment, refs, artefacts>>
  BY DEF ToPlatform, vars
<1>3. PICK index \in Indexes :
       \/ /\ ~PackageApproved(index)
          /\ step' = "refused" /\ UNCHANGED bundle
       \/ /\ PackageApproved(index)
          /\ ~ Exportable \subseteq DOMAIN index
          /\ step' = "rejected" /\ UNCHANGED bundle
       \/ /\ PackageApproved(index)
          /\ Exportable \subseteq DOMAIN index
          /\ step' = "exported"
          /\ bundle' = [rows |-> {index[t] : t \in Bundled},
                        governance |-> [a \in Assets |-> AssetGovernance(index, a)]]
  BY DEF ToPlatform
<1>4. /\ \A t \in DOMAIN index : index[t] \in rows /\ LatestAt(moment, t) = {index[t]}
      /\ \A t : t \notin DOMAIN index => LatestAt(moment, t) = {}
  BY <1>2, IndexIsLatest
<1>5. InHand'
  BY <1>2, <1>3 DEF ExportInv, InHand, Tops, LatestAt
<1>6. ~PackageApproved(index) <=> LatestAt(moment, Package) \cap approved = {}
  BY <1>4 DEF PackageApproved
<1>7. CASE step' = "refused"
  <2>1. LatestAt(moment, Package) \cap approved = {}
    BY <1>3, <1>6, <1>7
  <2>. QED
    BY <1>1, <1>2, <1>5, <1>7, <2>1 DEF ExportInv, ExportIsAMoment, LatestAt
<1>8. CASE step' = "rejected"
  <2>1. LatestAt(moment, Package) \cap approved # {} /\ \E t \in Exportable : LatestAt(moment, t) = {}
    BY <1>3, <1>4, <1>6, <1>8
  <2>. QED
    BY <1>1, <1>2, <1>5, <1>8, <2>1 DEF ExportInv, ExportIsAMoment, LatestAt
<1>9. CASE step' = "exported"
  <2>1. /\ LatestAt(moment, Package) \cap approved # {} /\ Bundled \subseteq DOMAIN index
        /\ bundle' = [rows |-> {index[t] : t \in Bundled},
                      governance |-> [a \in Assets |-> AssetGovernance(index, a)]]
    BY <1>3, <1>6, <1>9 DEF PackageApproved, Bundled
  <2>2. \A t \in Bundled : index[t] \in Row /\ LatestAt(moment, t) = {index[t]}
    BY <1>4, <2>1 DEF ExportInv, IInv, TypeOK
  <2>3. bundle'.rows = UNION {LatestAt(moment, t) : t \in Bundled}
    BY <2>1, <2>2
  <2>4. \A t \in Bundled : LatestAt(moment, t) # {}
    BY <2>2
  <2>5. \A a \in Assets : \A r \in bundle'.rows : CarriesGovernance(bundle'.governance[a], r)
    BY <2>1, <2>2, LabelsKept
  <2>6. ExportIsAMoment'
    BY <1>2, <1>9, <2>1, <2>3, <2>4, <2>5
    DEF ExportIsAMoment, LatestAt, CarriesGovernance
  <2>. QED
    BY <1>1, <1>5, <2>6 DEF ExportInv
<1>. QED
  BY <1>3, <1>7, <1>8, <1>9

-----------------------------------------------------------------------------
\* The theorem

\* An export is the store at one moment, under a package approved then, and
\* every file carries the labels of all of it, however many sessions save
\* between its reads.
THEOREM ExportAtOneMoment ==
  AutoNumbered /\ LabelsAreNotNone => (ExportSpec => []ExportIsAMoment)
<1>. SUFFICES ASSUME AutoNumbered, LabelsAreNotNone PROVE ExportSpec => []ExportIsAMoment
  OBVIOUS
<1>1. ExportInit => ExportInv
  BY InitInv DEF ExportInit, ExportInv, InHand, ExportIsAMoment
<1>2. ExportInv /\ [ExportNext]_exportVars => ExportInv'
  <2>. SUFFICES ASSUME ExportInv, [ExportNext]_exportVars PROVE ExportInv'
    OBVIOUS
  <2>1. CASE UNCHANGED exportVars
    <3>1. IInv'
      BY <2>1, NextInv DEF exportVars, ExportInv
    <3>. QED
      BY <2>1, <3>1 DEF exportVars, vars, export, ExportInv, InHand, ExportIsAMoment, Tops,
         LatestAt, CarriesGovernance
  <2>. QED
    BY <2>1, SaveExport, ListExport, GetExport, PlatformExport DEF ExportNext
<1>3. ExportInv => ExportIsAMoment
  BY DEF ExportInv
<1>. QED
  BY <1>1, <1>2, <1>3, PTL DEF ExportSpec

=============================================================================
