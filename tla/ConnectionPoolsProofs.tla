----------------------- MODULE ConnectionPoolsProofs -----------------------
(***************************************************************************)
(* For any number of requests and any sizes of the two pools, requests     *)
(* never wait for each other in a circle.  The argument is an order of the *)
(* pools: nothing is acquired while a checkpointer connection is held, and *)
(* no second session connection while one is, be it a node's.              *)
(***************************************************************************)
EXTENDS ConnectionPools, FiniteSetTheorems, TLAPS

(* A request in an operation of the checkpointer needs no connection to    *)
(* leave it.                                                               *)
LEMMA CheckpointerEnds ==
    ASSUME NEW from \in InCheckpointer, NEW to \in Places, <<from, to>> \in Moves
    PROVE  Held("cp", to) = {} /\ Held("db", to) \subseteq Held("db", from)
<1>1. /\ <<from, to>> \notin StartRun \cup OneSession
      /\ <<from, to>> \in ApplyReview => from = "peeking" /\ to = "peeked"
      /\ <<from, to>> \in Invocation => to = "running"
      /\ <<from, to>> \notin Work
      /\ <<from, to>> \in SyncAndDetail => from = "snapshot" /\ to = "synced"
      /\ <<from, to>> \in Detail => \/ from = "choosing" /\ to = "chosen"
                                    \/ from = "presenting" /\ to = "answered"
  BY DEF InCheckpointer, StartRun, OneSession, ApplyReview, Invocation, Work,
         SyncAndDetail, Detail
<1> QED
  BY <1>1 DEF Moves, Held, InSession, InCheckpointer

(* A request in a session, its handler's or a node's, never asks for a     *)
(* second connection of that pool.                                         *)
LEMMA OneSessionAtATime ==
    ASSUME NEW from \in InSession \cup {"saving"}, NEW to \in Places, <<from, to>> \in Moves
    PROVE  Held("db", to) \subseteq Held("db", from)
<1>1. /\ from \in InSession => to # "saving"
      /\ from = "saving" => to = "running"
  BY DEF Moves, InSession, StartRun, OneSession, ApplyReview, Invocation, Work,
         SyncAndDetail, Detail
<1> QED
  BY <1>1 DEF Held, InSession

(* Nothing in use, no wait.                                                *)
LEMMA FreePool ==
    ASSUME NEW pool \in {"db", "cp"}, InUse(pool) = {},
           NEW from, NEW to
    PROVE  Available(pool, from, to)
<1>1. Cardinality(InUse(pool)) = 0
  BY FS_EmptySet
<1>2. Size(pool) \in Nat \ {0}
  BY PoolsAssumption DEF Size
<1> QED
  BY <1>1, <1>2 DEF Available

(* Where a request goes is a move from where it is.                        *)
LEMMA GoalIsAMove ==
    ASSUME TypeOK, NEW r \in Requests, at[r] # "answered"
    PROVE  goal[r] \in Places /\ <<at[r], goal[r]>> \in Moves
  BY DEF TypeOK, GoalsFrom

(* The three cases: some request is in the checkpointer; else one is in a  *)
(* session; else all connections are free.                                 *)
LEMMA SomeoneCanMove ==
    ASSUME TypeOK PROVE NoCircularWait
<1> SUFFICES ASSUME NEW q \in Requests, at[q] # "answered"
             PROVE  \E r \in Requests : CanMove(r)
  BY DEF NoCircularWait
<1>1. CASE \E r \in Requests : at[r] \in InCheckpointer
  <2>1. PICK r \in Requests : at[r] \in InCheckpointer
    BY <1>1
  <2>2. at[r] # "answered"
    BY <2>1 DEF InCheckpointer
  <2>3. Held("cp", goal[r]) = {} /\ Held("db", goal[r]) \subseteq Held("db", at[r])
    BY <2>1, <2>2, GoalIsAMove, CheckpointerEnds
  <2> QED
    BY <2>2, <2>3 DEF CanMove, Available
<1>2. CASE ~ \E r \in Requests : at[r] \in InCheckpointer
  <2>1. InUse("cp") = {}
    BY <1>2 DEF InUse, Held
  <2>2. CASE \E r \in Requests : at[r] \in InSession \cup {"saving"}
    <3>1. PICK r \in Requests : at[r] \in InSession \cup {"saving"}
      BY <2>2
    <3>2. at[r] # "answered"
      BY <3>1 DEF InSession
    <3>3. Available("db", at[r], goal[r])
      BY <3>1, <3>2, GoalIsAMove, OneSessionAtATime DEF Available
    <3> QED
      BY <2>1, <3>2, <3>3, FreePool DEF CanMove
  <2>3. CASE ~ \E r \in Requests : at[r] \in InSession \cup {"saving"}
    <3>1. InUse("db") = {}
      BY <2>3 DEF InUse, Held
    <3> QED
      BY <2>1, <3>1, FreePool DEF CanMove
  <2> QED
    BY <2>2, <2>3
<1> QED
  BY <1>1, <1>2

(* The places of the requests and their goals stay what the handlers allow. *)
THEOREM TypeCorrect == Spec => []TypeOK
<1>1. Init => TypeOK
  <2>1. Arrivals \subseteq Places /\ {"creating", "checking", "reading", "querying"} \subseteq Places
    BY DEF Places, Arrivals, InSession
  <2> QED
    BY <2>1 DEF Init, TypeOK
<1>2. TypeOK /\ [Next]_vars => TypeOK'
  <2> SUFFICES ASSUME TypeOK, [Next]_vars PROVE TypeOK'
    OBVIOUS
  <2>1. CASE UNCHANGED vars
    BY <2>1 DEF TypeOK, vars
  <2>2. ASSUME NEW r \in Requests, Move(r) PROVE TypeOK'
    <3>1. /\ at[r] # "answered"
          /\ at' = [at EXCEPT ![r] = goal[r]]
      BY <2>2 DEF Move, CanMove
    <3>2. goal[r] \in GoalsFrom(at[r], work[r]) /\ goal[r] \in Places
      BY DEF TypeOK
    <3>3. /\ work' \in [Requests -> 0..MaxWork]
          /\ \A q \in Requests \ {r} : work'[q] = work[q]
      <4>1. CASE <<at[r], goal[r]>> \in Work
        <5>1. work[r] > 0
          BY <3>1, <3>2, <4>1 DEF GoalsFrom
        <5>2. work' = [work EXCEPT ![r] = work[r] - 1]
          BY <2>2, <4>1 DEF Move
        <5>3. work[r] \in 0..MaxWork /\ MaxWork \in Nat
          BY PoolsAssumption DEF TypeOK
        <5>4. work[r] - 1 \in 0..MaxWork
          BY <5>1, <5>3
        <5> QED
          BY <5>2, <5>4 DEF TypeOK
      <4>2. CASE <<at[r], goal[r]>> \notin Work
        BY <2>2, <4>2 DEF Move, TypeOK
      <4> QED
        BY <4>1, <4>2
    <3>4. PICK to \in GoalsFrom(goal[r], work'[r]) : goal' = [goal EXCEPT ![r] = to]
      BY <2>2 DEF Move
    <3>5. to \in Places
      BY <3>4 DEF GoalsFrom, Places
    <3>6. at' \in [Requests -> Places] /\ goal' \in [Requests -> Places]
      BY <3>1, <3>2, <3>4, <3>5 DEF TypeOK
    <3>7. ASSUME NEW q \in Requests PROVE goal'[q] \in GoalsFrom(at'[q], work'[q])
      <4>1. CASE q = r
        BY <3>1, <3>4, <4>1 DEF TypeOK
      <4>2. CASE q # r
        BY <3>1, <3>3, <3>4, <4>2 DEF TypeOK
      <4> QED
        BY <4>1, <4>2
    <3> QED
      BY <3>3, <3>6, <3>7 DEF TypeOK
  <2> QED
    BY <2>1, <2>2 DEF Next
<1> QED
  BY <1>1, <1>2, PTL DEF Spec

(* Whatever the requests are and however many connections there are, some  *)
(* request that is not answered has what it needs to go on.                *)
THEOREM NeverACircularWait == Spec => []NoCircularWait
  BY TypeCorrect, SomeoneCanMove, PTL
=============================================================================
