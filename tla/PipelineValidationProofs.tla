----------------------- MODULE PipelineValidationProofs -----------------------
(***************************************************************************)
(* The cycle verdict of PipelineValidation is right for every pipeline, of *)
(* any number of stages and in any order of the keys and dependencies.     *)
(*                                                                         *)
(* The calls under way form a path in the graph (PathOK), which the node   *)
(* that is met twice closes into a cycle.  What a finished call leaves in  *)
(* visited is out of reach of every circular set (NoneCircular): its       *)
(* dependencies were all visited before it, so that the last of a circular *)
(* set to be visited would have had to wait for itself.                    *)
(***************************************************************************)
EXTENDS PipelineValidation, SequenceTheorems, FiniteSetTheorems, TLAPS

-----------------------------------------------------------------------------
\* The inductive invariant

\* visiting holds exactly the nodes of the calls under way, each once.
StackOK ==
  /\ \A n \in Names : n \in visiting <=> \E i \in 1 .. Len(stack) : stack[i] = n
  /\ \A i, j \in 1 .. Len(stack) : stack[i] = stack[j] => i = j
  /\ visiting \cap visited = {}

\* Each call was made for a dependency of the one around it.
PathOK == \A i \in 1 .. Len(stack) - 1 : stack[i + 1] \in Graph[stack[i]]

\* A call goes through the dependencies of its node; one that it has dealt
\* with is visited, or is being visited by the call within.
DealtWith ==
  pc = "search" => \A i \in 1 .. Len(stack) :
    /\ rest[stack[i]] \subseteq Graph[stack[i]]
    /\ \A d \in (Graph[stack[i]] \cap Keys) \ rest[stack[i]] :
         \/ d \in visited
         \/ i < Len(stack) /\ d = stack[i + 1]

\* No visited node belongs to a circular set.
NoneCircular == \A S \in SUBSET Keys : Circular(S) => S \cap visited = {}

\* Every key is still to come, under way or visited.
KeysCovered ==
  /\ pc = "search" => Keys \subseteq todo \cup visiting \cup visited
  /\ pc = "done" /\ "cycle" \notin failures => Keys \subseteq visited

\* A reported cycle is there, and ends the search.
CycleReported ==
  /\ "cycle" \in failures => pc = "done" /\ HasCycle
  /\ pc = "structure" => failures = {} /\ stack = <<>> /\ visiting = {} /\ visited = {}

IInv ==
  /\ TypeOK /\ StackOK /\ PathOK /\ DealtWith
  /\ NoneCircular /\ KeysCovered /\ CycleReported

-----------------------------------------------------------------------------
\* Lemmas about the graph

\* The graph maps keys to sets of names.
LEMMA GraphType ==
  ASSUME stages \in Seq(Stage)
  PROVE  /\ Keys \subseteq Names
         /\ \A n \in Keys : Graph[n] \subseteq Names
  <1>1. \A i \in Positions : stages[i].name \in Names /\ stages[i].dependencies \subseteq Names
    <2>1. \A i \in Positions : stages[i] \in Stage
      BY DEF Positions
    <2>. QED
      BY <2>1 DEF Stage
  <1>2. Keys \subseteq Names
    BY <1>1 DEF Keys
  <1>3. ASSUME NEW n \in Keys
        PROVE  DependenciesOf(n, LastOfName) \subseteq Names
    <2>1. LastOfName \subseteq Positions
      BY DEF LastOfName
    <2>. QED
      BY <1>1, <2>1 DEF DependenciesOf
  <1>. QED
    BY <1>2, <1>3 DEF Graph

\* No step changes the pipeline, nor anything that is derived from it.
LEMMA PipelineFixed ==
  ASSUME [Next]_vars
  PROVE  stages' = stages /\ Keys' = Keys /\ Graph' = Graph /\ HasCycle' = HasCycle
  <1>1. stages' = stages
    BY DEF Next, vars, CheckStructure, VisitKey, VisitDependency, Leave, Finish
  <1>2. Positions' = Positions /\ Keys' = Keys
    BY <1>1 DEF Positions, Keys
  <1>3. LastOfName' = LastOfName
    BY <1>1, <1>2 DEF LastOfName
  <1>4. Graph' = Graph
    BY <1>1, <1>2, <1>3 DEF Graph, DependenciesOf
  <1>5. HasCycle' = HasCycle
    BY <1>2, <1>4 DEF HasCycle, Circular
  <1>. QED
    BY <1>1, <1>2, <1>4, <1>5

-----------------------------------------------------------------------------
\* Initial states and steps

\* The invariant holds of every pipeline before its validation.
LEMMA InitOK == Init => IInv
  <1>. SUFFICES ASSUME Init PROVE IInv
    OBVIOUS
  <1>1. stages \in Seq(Stage) /\ stages # <<>>
    BY MaxStagesAssumption DEF Init
  <1>2. TypeOK
    BY <1>1 DEF Init, TypeOK, Failures
  <1>3. StackOK /\ PathOK /\ DealtWith
    BY DEF Init, StackOK, PathOK, DealtWith
  <1>4. NoneCircular /\ KeysCovered /\ CycleReported
    BY DEF Init, NoneCircular, KeysCovered, CycleReported
  <1>. QED
    BY <1>2, <1>3, <1>4 DEF IInv

\* The checks before the search leave it to begin with all keys to come.
LEMMA CheckStructureOK == IInv /\ CheckStructure => IInv'
  <1>. SUFFICES ASSUME IInv, CheckStructure PROVE IInv'
    OBVIOUS
  <1>1. stages' = stages /\ Keys' = Keys /\ Graph' = Graph /\ HasCycle' = HasCycle
    BY PipelineFixed DEF Next
  <1>2. TypeOK'
    BY <1>1 DEF IInv, TypeOK, CheckStructure, StructuralFailures, Failures
  <1>3. stack' = <<>> /\ visiting' = {} /\ visited' = {}
    BY DEF IInv, CycleReported, CheckStructure
  <1>4. StackOK' /\ PathOK' /\ DealtWith' /\ NoneCircular'
    BY <1>3 DEF StackOK, PathOK, DealtWith, NoneCircular
  <1>5. KeysCovered' /\ CycleReported'
    BY <1>1, <1>3 DEF KeysCovered, CycleReported, CheckStructure, StructuralFailures
  <1>. QED
    BY <1>2, <1>4, <1>5 DEF IInv

\* With every key dealt with and no call under way, all keys are visited.
LEMMA FinishOK == IInv /\ Finish => IInv'
  <1>. SUFFICES ASSUME IInv, Finish PROVE IInv'
    OBVIOUS
  <1>1. stages' = stages /\ Keys' = Keys /\ Graph' = Graph /\ HasCycle' = HasCycle
    BY PipelineFixed DEF Next
  <1>2. TypeOK' /\ StackOK' /\ PathOK' /\ DealtWith'
    BY <1>1 DEF IInv, TypeOK, StackOK, PathOK, DealtWith, Finish
  <1>3. NoneCircular'
    BY <1>1 DEF IInv, NoneCircular, Circular, Finish
  <1>4. visiting = {}
    <2>1. \A n \in Names : n \notin visiting
      BY DEF IInv, StackOK, Finish
    <2>. QED
      BY <2>1, GraphType DEF IInv, TypeOK
  <1>5. KeysCovered' /\ CycleReported'
    BY <1>1, <1>4 DEF IInv, KeysCovered, CycleReported, Finish
  <1>. QED
    BY <1>2, <1>3, <1>5 DEF IInv

\* A call that has dealt with all its dependencies leaves a node that no
\* circular set has: the dependency it would need in the set is visited.
LEMMA LeaveOK == IInv /\ Leave => IInv'
  <1>. SUFFICES ASSUME IInv, Leave PROVE IInv'
    OBVIOUS
  <1>1. stages' = stages /\ Keys' = Keys /\ Graph' = Graph /\ HasCycle' = HasCycle
    BY PipelineFixed DEF Next
  <1>. DEFINE k == Len(stack)
  <1>2. /\ stack \in Seq(Keys) /\ k \in Nat \ {0}
        /\ Top = stack[k] /\ Top \in Keys /\ Top \in Names /\ Top \in visiting
    <2>1. stack \in Seq(Keys) /\ k \in Nat \ {0} /\ Top = stack[k] /\ Top \in Keys
      BY DEF IInv, TypeOK, Leave, Top
    <2>2. Top \in Names
      BY <2>1, GraphType DEF IInv, TypeOK
    <2>. QED
      BY <2>1, <2>2 DEF IInv, StackOK
  <1>3. /\ stack' \in Seq(Keys) /\ Len(stack') = k - 1
        /\ \A i \in 1 .. k - 1 : stack'[i] = stack[i]
    <2>1. \A i \in 1 .. k - 1 : stack[i] \in Keys
      BY <1>2
    <2>2. stack' = SubSeq(stack, 1, k - 1)
      BY DEF Leave
    <2>. HIDE DEF k
    <2>. QED
      BY <1>2, <2>1, <2>2, SubSeqProperties
  <1>4. TypeOK'
    BY <1>1, <1>2, <1>3 DEF IInv, TypeOK, Leave
  <1>5. StackOK'
    <2>1. ASSUME NEW n \in Names
          PROVE  n \in visiting' <=> \E i \in 1 .. Len(stack') : stack'[i] = n
      <3>1. n \in visiting' <=> n \in visiting /\ n # Top
        BY DEF Leave
      <3>2. n \in visiting <=> \E i \in 1 .. k : stack[i] = n
        BY DEF IInv, StackOK
      <3>3. \A i \in 1 .. k : stack[i] = Top <=> i = k
        BY <1>2 DEF IInv, StackOK
      <3>. HIDE DEF k
      <3>. QED
        BY <1>2, <1>3, <3>1, <3>2, <3>3
    <2>2. \A i, j \in 1 .. Len(stack') : stack'[i] = stack'[j] => i = j
      BY <1>2, <1>3 DEF IInv, StackOK
    <2>3. visiting' \cap visited' = {}
      BY DEF IInv, StackOK, Leave
    <2>. QED
      BY <2>1, <2>2, <2>3 DEF StackOK
  <1>6. PathOK'
    BY <1>1, <1>2, <1>3 DEF IInv, PathOK
  <1>7. DealtWith'
    <2>1. pc = "search" /\ rest' = rest /\ visited' = visited \cup {Top} /\ DealtWith
      BY DEF IInv, Leave
    <2>2. SUFFICES ASSUME NEW i \in 1 .. k - 1
                   PROVE  /\ rest[stack[i]] \subseteq Graph[stack[i]]
                          /\ \A d \in (Graph[stack[i]] \cap Keys) \ rest[stack[i]] :
                               \/ d \in visited \cup {Top}
                               \/ i < k - 1 /\ d = stack'[i + 1]
      BY <1>1, <1>3, <2>1 DEF DealtWith
    <2>3. i \in 1 .. k /\ i < k /\ (i = k - 1 \/ i < k - 1) /\ i + 1 \in 1 .. k
      BY <1>2
    <2>4. i < k - 1 => stack'[i + 1] = stack[i + 1]
      BY <1>2, <1>3
    <2>5. i = k - 1 => stack[i + 1] = Top
      BY <1>2
    <2>6. /\ rest[stack[i]] \subseteq Graph[stack[i]]
          /\ \A d \in (Graph[stack[i]] \cap Keys) \ rest[stack[i]] :
               d \in visited \/ d = stack[i + 1]
      BY <2>1, <2>3 DEF DealtWith
    <2>. HIDE DEF k
    <2>. QED
      BY <2>3, <2>4, <2>5, <2>6
  <1>8. NoneCircular'
    <2>1. \A d \in Graph[Top] \cap Keys : d \in visited
      BY <1>2 DEF IInv, DealtWith, Leave
    <2>2. SUFFICES ASSUME NEW S \in SUBSET Keys, Circular(S), Top \in S PROVE FALSE
      BY <1>1 DEF IInv, NoneCircular, Circular, Leave
    <2>3. PICK d \in S : d \in Graph[Top]
      BY <2>2 DEF Circular
    <2>. QED
      BY <2>1, <2>2, <2>3 DEF IInv, NoneCircular
  <1>9. KeysCovered' /\ CycleReported'
    BY <1>1 DEF IInv, KeysCovered, CycleReported, Leave
  <1>. QED
    BY <1>4, <1>5, <1>6, <1>7, <1>8, <1>9 DEF IInv

\* A node met again on the path closes a cycle: the path from it on is circular.
LEMMA PathCloses ==
  ASSUME IInv, stack # <<>>, NEW n \in Keys, n \in visiting, n \in Graph[Top]
  PROVE  HasCycle
  <1>. DEFINE k == Len(stack)
  <1>1. /\ stack \in Seq(Keys) /\ k \in Nat \ {0} /\ Top = stack[k]
        /\ \A i \in 1 .. k : stack[i] \in Keys
    BY DEF IInv, TypeOK, Top
  <1>2. PICK j \in 1 .. k : stack[j] = n
    BY GraphType DEF IInv, TypeOK, StackOK
  <1>3. \A i \in 1 .. k - 1 : stack[i + 1] \in Graph[stack[i]]
    BY DEF IInv, PathOK
  <1>. DEFINE S == {stack[i] : i \in j .. k}
  <1>. HIDE DEF k
  <1>4. S \in SUBSET Keys
    BY <1>1, <1>2
  <1>5. ASSUME NEW i \in j .. k PROVE Graph[stack[i]] \cap S # {}
    <2>1. CASE i = k
      BY <1>1, <1>2, <2>1
    <2>2. CASE i # k
      <3>1. i \in 1 .. k - 1 /\ i + 1 \in j .. k
        BY <1>1, <1>2, <2>2
      <3>. QED
        BY <1>3, <3>1
    <2>. QED
      BY <2>1, <2>2
  <1>6. Circular(S)
    <2>1. S # {} /\ \A m \in S : \E i \in j .. k : m = stack[i]
      BY <1>1, <1>2
    <2>. HIDE DEF S
    <2>. QED
      BY <1>5, <2>1 DEF Circular
  <1>. QED
    BY <1>4, <1>6 DEF HasCycle

\* A cycle that is found is reported, and the search is over.
LEMMA FindCycleOK ==
  ASSUME IInv, [Next]_vars, NEW n \in Keys, FindCycle(n), HasCycle,
         TypeOK', UNCHANGED <<stack, visiting, visited>>
  PROVE  IInv'
  <1>1. stages' = stages /\ Keys' = Keys /\ Graph' = Graph /\ HasCycle' = HasCycle
    BY PipelineFixed
  <1>2. pc' = "done" /\ "cycle" \in failures'
    BY DEF FindCycle
  <1>3. StackOK' /\ PathOK' /\ DealtWith'
    BY <1>1, <1>2 DEF IInv, StackOK, PathOK, DealtWith
  <1>4. NoneCircular'
    BY <1>1 DEF IInv, NoneCircular, Circular
  <1>5. KeysCovered' /\ CycleReported'
    BY <1>1, <1>2 DEF KeysCovered, CycleReported
  <1>. QED
    BY <1>3, <1>4, <1>5 DEF IInv

\* A node that needs no call is ticked off, a visited one or no stage at all.
LEMMA PassOverOK ==
  ASSUME IInv, [Next]_vars, TypeOK', UNCHANGED <<pc, failures, stack, visiting, visited>>,
         todo \ todo' \subseteq visited,
         \A m \in Names : rest'[m] \subseteq rest[m]
                            /\ rest[m] \ rest'[m] \subseteq visited \cup (Names \ Keys)
  PROVE  IInv'
  <1>1. stages' = stages /\ Keys' = Keys /\ Graph' = Graph /\ HasCycle' = HasCycle
    BY PipelineFixed
  <1>2. StackOK' /\ PathOK'
    BY <1>1 DEF IInv, StackOK, PathOK
  <1>3. DealtWith'
    <2>1. \A i \in 1 .. Len(stack) : stack[i] \in Names
      BY GraphType DEF IInv, TypeOK
    <2>. QED
      BY <1>1, <2>1 DEF IInv, DealtWith
  <1>4. NoneCircular'
    BY <1>1 DEF IInv, NoneCircular, Circular
  <1>5. KeysCovered' /\ CycleReported'
    BY <1>1 DEF IInv, KeysCovered, CycleReported
  <1>. QED
    BY <1>2, <1>3, <1>4, <1>5 DEF IInv

\* A new call is made for a node that is not on the path, and extends it.
LEMMA DescendOK ==
  ASSUME IInv, [Next]_vars, pc = "search", NEW n \in Keys, Descend(n),
         TypeOK', visited' = visited, todo \ todo' \subseteq {n},
         rest'[n] = Graph[n],
         \A m \in Names \ {n} : rest'[m] \subseteq rest[m],
         \A m \in Names \ {n} : rest[m] # rest'[m] =>
            stack # <<>> /\ m = Top /\ rest[m] \ rest'[m] \subseteq {n},
         stack # <<>> => n \in Graph[Top]
  PROVE  IInv'
  <1>. DEFINE k == Len(stack)
  <1>1. stages' = stages /\ Keys' = Keys /\ Graph' = Graph /\ HasCycle' = HasCycle
    BY PipelineFixed
  <1>2. /\ stack \in Seq(Keys) /\ k \in Nat /\ n \in Names
        /\ \A i \in 1 .. k : stack[i] \in Names /\ stack[i] # n
    BY GraphType DEF IInv, TypeOK, StackOK, Descend
  <1>3. /\ Len(stack') = k + 1 /\ stack'[k + 1] = n
        /\ \A i \in 1 .. k : stack'[i] = stack[i]
    BY <1>2, AppendProperties DEF Descend
  <1>4. StackOK'
    <2>1. ASSUME NEW m \in Names
          PROVE  m \in visiting' <=> \E i \in 1 .. Len(stack') : stack'[i] = m
      <3>1. m \in visiting' <=> m \in visiting \/ m = n
        BY DEF Descend
      <3>2. m \in visiting <=> \E i \in 1 .. k : stack[i] = m
        BY DEF IInv, StackOK
      <3>. HIDE DEF k
      <3>. QED
        BY <1>2, <1>3, <3>1, <3>2
    <2>2. \A i, j \in 1 .. Len(stack') : stack'[i] = stack'[j] => i = j
      <3>1. \A i, j \in 1 .. k : stack[i] = stack[j] => i = j
        BY DEF IInv, StackOK
      <3>. HIDE DEF k
      <3>. QED
        BY <1>2, <1>3, <3>1
    <2>3. visiting' \cap visited' = {}
      BY DEF IInv, StackOK, Descend
    <2>. QED
      BY <2>1, <2>2, <2>3 DEF StackOK
  <1>5. PathOK'
    <2>. SUFFICES ASSUME NEW i \in 1 .. k PROVE stack'[i + 1] \in Graph[stack[i]]
      BY <1>1, <1>2, <1>3 DEF PathOK
    <2>1. CASE i = k
      BY <1>2, <1>3, <2>1 DEF Top
    <2>2. CASE i # k
      <3>1. i \in 1 .. k - 1 /\ i + 1 \in 1 .. k
        BY <1>2, <2>2
      <3>. QED
        BY <1>3, <3>1 DEF IInv, PathOK
    <2>. QED
      BY <2>1, <2>2
  <1>6. DealtWith'
    <2>. SUFFICES ASSUME NEW i \in 1 .. k + 1
                  PROVE  /\ rest'[stack'[i]] \subseteq Graph[stack'[i]]
                         /\ \A d \in (Graph[stack'[i]] \cap Keys) \ rest'[stack'[i]] :
                              d \in visited \/ (i < k + 1 /\ d = stack'[i + 1])
      BY <1>1, <1>3 DEF DealtWith
    <2>1. CASE i = k + 1
      BY <1>3, <2>1
    <2>2. CASE i # k + 1
      <3>1. i \in 1 .. k /\ stack'[i] = stack[i] /\ stack[i] \in Names \ {n}
        BY <1>2, <1>3, <2>2
      <3>2. rest'[stack'[i]] \subseteq Graph[stack'[i]]
        BY <3>1 DEF IInv, DealtWith
      <3>3. ASSUME NEW d \in (Graph[stack[i]] \cap Keys) \ rest'[stack[i]]
            PROVE  d \in visited \/ d = stack'[i + 1]
        <4>1. CASE d \in rest[stack[i]]
          <5>1. stack[i] = Top /\ stack # <<>> /\ d = n
            BY <3>1, <4>1
          <5>2. i = k
            BY <1>2, <3>1, <5>1 DEF IInv, StackOK, Top
          <5>. QED
            BY <1>3, <5>1, <5>2
        <4>2. CASE d \notin rest[stack[i]]
          <5>1. d \in visited \/ (i < k /\ d = stack[i + 1])
            BY <3>1, <4>2 DEF IInv, DealtWith
          <5>2. i < k => i + 1 \in 1 .. k
            <6>. HIDE DEF k
            <6>. QED
              BY <1>2, <3>1
          <5>3. i < k => stack'[i + 1] = stack[i + 1]
            BY <1>3, <5>2
          <5>. QED
            BY <5>1, <5>3
        <4>. QED
          BY <4>1, <4>2
      <3>. HIDE DEF k
      <3>4. i < k + 1
        BY <1>2, <3>1
      <3>5. ASSUME NEW d \in (Graph[stack'[i]] \cap Keys) \ rest'[stack'[i]]
            PROVE  d \in visited \/ (i < k + 1 /\ d = stack'[i + 1])
        BY <3>1, <3>3, <3>4
      <3>. QED
        BY <3>2, <3>5
    <2>. QED
      BY <2>1, <2>2
  <1>7. NoneCircular'
    BY <1>1 DEF IInv, NoneCircular, Circular
  <1>8. KeysCovered' /\ CycleReported'
    BY <1>1 DEF IInv, KeysCovered, CycleReported, Descend
  <1>. QED
    BY <1>4, <1>5, <1>6, <1>7, <1>8 DEF IInv

\* any() comes to a key.
LEMMA VisitKeyOK == IInv /\ VisitKey => IInv'
  <1>. SUFFICES ASSUME IInv, VisitKey PROVE IInv'
    OBVIOUS
  <1>1. PICK n \in todo :
          /\ todo' = todo \ {n}
          /\ \/ (FindCycle(n) \/ SkipVisited(n)) /\ UNCHANGED rest
             \/ Descend(n) /\ rest' = [rest EXCEPT ![n] = Graph[n]]
    BY DEF VisitKey
  <1>2. /\ pc = "search" /\ stack = <<>> /\ UNCHANGED <<stages, visited>>
        /\ n \in Keys /\ n \in Names /\ [Next]_vars
        /\ rest \in [Names -> SUBSET Names]
    BY GraphType DEF IInv, TypeOK, VisitKey, Next
  <1>3. visiting = {}
    BY <1>2, GraphType DEF IInv, TypeOK, StackOK
  <1>4. Keys' = Keys /\ Graph[n] \subseteq Names
    BY <1>2, GraphType, PipelineFixed DEF IInv, TypeOK
  <1>5. CASE SkipVisited(n) /\ UNCHANGED rest
    <2>1. TypeOK'
      BY <1>1, <1>2, <1>4, <1>5 DEF IInv, TypeOK, SkipVisited
    <2>. QED
      BY <1>1, <1>2, <1>5, <2>1, PassOverOK DEF SkipVisited
  <1>6. CASE Descend(n) /\ rest' = [rest EXCEPT ![n] = Graph[n]]
    <2>1. stack' \in Seq(Keys)
      BY <1>2, <1>6, AppendProperties DEF IInv, TypeOK, Descend
    <2>2. TypeOK'
      BY <1>1, <1>2, <1>4, <1>6, <2>1 DEF IInv, TypeOK, Descend
    <2>3. /\ rest'[n] = Graph[n]
          /\ \A m \in Names \ {n} : rest'[m] = rest[m]
      BY <1>2, <1>6
    <2>. QED
      BY <1>1, <1>2, <1>6, <2>2, <2>3, DescendOK
  <1>7. ~FindCycle(n)
    BY <1>3 DEF FindCycle
  <1>. QED
    BY <1>1, <1>5, <1>6, <1>7

\* The innermost call comes to a dependency.
LEMMA VisitDependencyOK == IInv /\ VisitDependency => IInv'
  <1>. SUFFICES ASSUME IInv, VisitDependency PROVE IInv'
    OBVIOUS
  <1>1. PICK n \in rest[Top] :
         \/ /\ n \notin Keys
            /\ rest' = [rest EXCEPT ![Top] = @ \ {n}]
            /\ UNCHANGED <<failures, pc, stack, visiting>>
         \/ /\ n \in Keys
            /\ FindCycle(n) \/ SkipVisited(n)
            /\ rest' = [rest EXCEPT ![Top] = @ \ {n}]
         \/ /\ n \in Keys
            /\ Descend(n)
            /\ rest' = [rest EXCEPT ![Top] = @ \ {n}, ![n] = Graph[n]]
    BY DEF VisitDependency
  <1>2. /\ pc = "search" /\ stack # <<>> /\ UNCHANGED <<stages, todo, visited>>
        /\ [Next]_vars
        /\ rest \in [Names -> SUBSET Names] /\ stack \in Seq(Keys)
    BY DEF IInv, TypeOK, VisitDependency, Next
  <1>3. Top \in Keys /\ Top \in Names /\ Top \in visiting /\ n \in Names
    <2>1. Top \in Keys /\ Len(stack) \in 1 .. Len(stack)
      BY <1>2 DEF Top
    <2>2. Top \in Names
      BY <2>1, GraphType DEF IInv, TypeOK
    <2>. QED
      BY <1>2, <2>1, <2>2 DEF IInv, StackOK, Top
  <1>4. n \in Graph[Top]
    BY <1>2 DEF IInv, DealtWith, Top
  <1>5. Keys' = Keys
    BY <1>2, PipelineFixed
  <1>6. CASE n \notin Keys /\ rest' = [rest EXCEPT ![Top] = @ \ {n}]
             /\ UNCHANGED <<failures, pc, stack, visiting>>
    <2>1. TypeOK'
      BY <1>2, <1>5, <1>6 DEF IInv, TypeOK
    <2>2. \A m \in Names : rest'[m] \subseteq rest[m] /\ rest[m] \ rest'[m] \subseteq {n}
      BY <1>2, <1>6
    <2>. QED
      BY <1>2, <1>3, <1>6, <2>1, <2>2, PassOverOK
  <1>7. CASE n \in Keys /\ SkipVisited(n) /\ rest' = [rest EXCEPT ![Top] = @ \ {n}]
    <2>1. TypeOK'
      BY <1>2, <1>5, <1>7 DEF IInv, TypeOK, SkipVisited
    <2>2. \A m \in Names : rest'[m] \subseteq rest[m] /\ rest[m] \ rest'[m] \subseteq {n}
      BY <1>2, <1>7
    <2>. QED
      BY <1>2, <1>7, <2>1, <2>2, PassOverOK DEF SkipVisited
  <1>8. CASE n \in Keys /\ FindCycle(n) /\ rest' = [rest EXCEPT ![Top] = @ \ {n}]
    <2>1. TypeOK'
      BY <1>2, <1>5, <1>8 DEF IInv, TypeOK, FindCycle, Failures
    <2>2. HasCycle
      BY <1>2, <1>4, <1>8, PathCloses DEF FindCycle
    <2>. QED
      BY <1>2, <1>8, <2>1, <2>2, FindCycleOK DEF FindCycle
  <1>9. CASE n \in Keys /\ Descend(n) /\ rest' = [rest EXCEPT ![Top] = @ \ {n}, ![n] = Graph[n]]
    <2>1. stack' \in Seq(Keys)
      BY <1>2, <1>9, AppendProperties DEF Descend
    <2>2. n # Top /\ Graph[n] \subseteq Names
      BY <1>3, <1>9, GraphType DEF IInv, TypeOK, Descend
    <2>3. TypeOK'
      BY <1>2, <1>3, <1>5, <1>9, <2>1, <2>2 DEF IInv, TypeOK, Descend
    <2>4. /\ rest'[n] = Graph[n]
          /\ rest'[Top] = rest[Top] \ {n}
          /\ \A m \in Names \ {n, Top} : rest'[m] = rest[m]
      BY <1>2, <1>3, <1>9, <2>2
    <2>. QED
      BY <1>2, <1>4, <1>9, <2>3, <2>4, DescendOK
  <1>. QED
    BY <1>1, <1>6, <1>7, <1>8, <1>9

-----------------------------------------------------------------------------
\* Theorems

\* The invariant holds in every state of every validation.
THEOREM Invariance == Spec => []IInv
  <1>1. Init => IInv
    BY InitOK
  <1>2. IInv /\ [Next]_vars => IInv'
    <2>. SUFFICES ASSUME IInv, [Next]_vars PROVE IInv'
      OBVIOUS
    <2>1. CASE CheckStructure
      BY <2>1, CheckStructureOK
    <2>2. CASE VisitKey
      BY <2>2, VisitKeyOK
    <2>3. CASE VisitDependency
      BY <2>3, VisitDependencyOK
    <2>4. CASE Leave
      BY <2>4, LeaveOK
    <2>5. CASE Finish
      BY <2>5, FinishOK
    <2>6. CASE UNCHANGED vars
      <3>1. stages' = stages /\ Keys' = Keys /\ Graph' = Graph /\ HasCycle' = HasCycle
        BY PipelineFixed
      <3>2. TypeOK' /\ StackOK' /\ PathOK' /\ DealtWith'
        BY <2>6, <3>1 DEF IInv, TypeOK, StackOK, PathOK, DealtWith, vars
      <3>3. NoneCircular' /\ KeysCovered' /\ CycleReported'
        BY <2>6, <3>1 DEF IInv, NoneCircular, Circular, KeysCovered, CycleReported, vars
      <3>. QED
        BY <3>2, <3>3 DEF IInv
    <2>. QED
      BY <2>1, <2>2, <2>3, <2>4, <2>5, <2>6 DEF Next
  <1>. QED
    BY <1>1, <1>2, PTL DEF Spec

\* The variables of the search have their types, whatever the pipeline.
THEOREM TypeCorrect == Spec => []TypeOK
  <1>1. IInv => TypeOK
    BY DEF IInv
  <1>. QED
    BY <1>1, Invariance, PTL

\* validate_pipeline_specification reports a cycle exactly when there is a set
\* of stages that wait for each other, in a pipeline of any size.
THEOREM CycleVerdict == Spec => []CycleVerdictIsRight
  <1>1. IInv => CycleVerdictIsRight
    <2>. SUFFICES ASSUME IInv, pc = "done", "cycle" \notin failures, HasCycle PROVE FALSE
      BY DEF IInv, CycleReported, CycleVerdictIsRight
    <2>1. PICK S \in SUBSET Keys : Circular(S)
      BY DEF HasCycle
    <2>2. S # {} /\ S \subseteq visited
      BY <2>1 DEF IInv, KeysCovered, Circular
    <2>. QED
      BY <2>1, <2>2 DEF IInv, NoneCircular
  <1>. QED
    BY <1>1, Invariance, PTL

-----------------------------------------------------------------------------
\* The verdict on the whole pipeline

\* The order in which the calls have returned: the dependencies of a visited
\* node that are stages were visited before it.
VisitedOrdered ==
  \E f \in [visited -> 1 .. Cardinality(visited)] :
    /\ \A m, n \in visited : f[m] = f[n] => m = n
    /\ \A n \in visited : \A d \in Graph[n] \cap Keys : d \in visited /\ f[d] < f[n]

\* The search adds nothing to the failures but the cycle.
Recorded == pc # "structure" => failures \ {"cycle"} = StructuralFailures

VerdictInv == Recorded /\ VisitedOrdered

\* A non-empty set of natural numbers has a least element.
LEMMA Least ==
  ASSUME NEW T \in SUBSET Nat, T # {}
  PROVE  \E x \in T : \A y \in T : x <= y
  <1>. DEFINE R == {ij \in Nat \X Nat : ij[1] < ij[2]}
  <1>1. IsWellFoundedOn(R, Nat)
    BY NatLessThanWellFounded DEF OpToRel
  <1>. HIDE DEF R
  <1>2. PICK x \in T : \A y \in T : <<y, x>> \notin R
    BY <1>1, WFMin
  <1>3. ASSUME NEW y \in T PROVE x <= y
    <2>1. x \in Nat /\ y \in Nat /\ <<y, x>> \notin R
      BY <1>2
    <2>. QED
      BY <2>1 DEF R
  <1>. QED
    BY <1>3

\* There are no more keys than stages.
LEMMA KeysBounded ==
  ASSUME stages \in Seq(Stage)
  PROVE  IsFiniteSet(Keys) /\ Cardinality(Keys) <= Len(stages) /\ Positions = 1 .. Len(stages)
  <1>. DEFINE f == [i \in Positions |-> stages[i].name]
  <1>1. Positions = 1 .. Len(stages) /\ Len(stages) \in Nat
    BY DEF Positions
  <1>2. f \in Surjection(1 .. Len(stages), Keys)
    BY <1>1 DEF Surjection, Keys
  <1>3. ExistsSurjection(1 .. Len(stages), Keys)
    BY <1>2 DEF ExistsSurjection
  <1>. QED
    BY <1>1, <1>3, FS_NatSurjection, FS_SurjCardinalityBound

\* The node that a call leaves comes after all its dependencies.
LEMMA LeaveOrdered == ASSUME IInv, VisitedOrdered, Leave PROVE VisitedOrdered'
  <1>. DEFINE c == Cardinality(visited)
  <1>1. stages' = stages /\ Keys' = Keys /\ Graph' = Graph
    BY PipelineFixed DEF Next
  <1>2. /\ Len(stack) \in Nat \ {0} /\ Top = stack[Len(stack)] /\ Top \in Keys /\ rest[Top] = {}
        /\ pc = "search" /\ visited' = visited \cup {Top}
    BY DEF IInv, TypeOK, Leave, Top
  <1>3. Top \notin visited
    BY <1>2, GraphType DEF IInv, StackOK, TypeOK
  <1>4. Graph[Top] \cap Keys \subseteq visited
    BY <1>2 DEF IInv, DealtWith
  <1>5. IsFiniteSet(visited) /\ c \in Nat /\ Cardinality(visited') = c + 1
    <2>1. IsFiniteSet(visited)
      BY KeysBounded, FS_Subset DEF IInv, TypeOK
    <2>. QED
      BY <1>2, <1>3, <2>1, FS_AddElement, FS_CardinalityType
  <1>6. PICK f \in [visited -> 1 .. c] :
          /\ \A m, n \in visited : f[m] = f[n] => m = n
          /\ \A n \in visited : \A d \in Graph[n] \cap Keys : d \in visited /\ f[d] < f[n]
    BY DEF VisitedOrdered
  <1>. DEFINE g == [n \in visited \cup {Top} |-> IF n = Top THEN c + 1 ELSE f[n]]
  <1>. HIDE DEF c
  <1>7. g \in [visited' -> 1 .. c + 1]
    BY <1>2, <1>5, <1>6
  <1>8. /\ g[Top] = c + 1
        /\ \A n \in visited : g[n] = f[n] /\ f[n] < c + 1
    BY <1>3, <1>5, <1>6
  <1>. HIDE DEF g
  <1>9. \A m, n \in visited' : g[m] = g[n] => m = n
    BY <1>2, <1>5, <1>6, <1>8
  <1>10. \A n \in visited' : \A d \in Graph[n] \cap Keys : d \in visited' /\ g[d] < g[n]
    BY <1>2, <1>4, <1>6, <1>8
  <1>. QED
    BY <1>1, <1>5, <1>7, <1>9, <1>10 DEF VisitedOrdered

\* Every step of the search keeps the order and the failures recorded.
LEMMA NextVerdict == IInv /\ VerdictInv /\ [Next]_vars => VerdictInv'
  <1>. SUFFICES ASSUME IInv, VerdictInv, [Next]_vars PROVE VerdictInv'
    OBVIOUS
  <1>1. stages' = stages /\ Keys' = Keys /\ Graph' = Graph
    BY PipelineFixed
  <1>2. StructuralFailures' = StructuralFailures
    BY <1>1 DEF StructuralFailures, Duplicated, Positions
  <1>3. "cycle" \notin StructuralFailures
    BY DEF StructuralFailures
  <1>4. Recorded'
    <2>1. CASE CheckStructure
      BY <1>2, <1>3, <2>1 DEF CheckStructure, Recorded
    <2>2. CASE VisitKey \/ VisitDependency \/ Leave \/ Finish \/ UNCHANGED vars
      BY <1>2, <2>2 DEF VerdictInv, Recorded, VisitKey, VisitDependency, Leave, Finish, FindCycle,
         SkipVisited, Descend, vars
    <2>. QED
      BY <2>1, <2>2 DEF Next
  <1>5. VisitedOrdered'
    <2>1. CASE visited' = visited
      BY <1>1, <2>1 DEF VerdictInv, VisitedOrdered
    <2>2. CASE Leave
      BY <2>2, LeaveOrdered DEF VerdictInv
    <2>. QED
      BY <2>1, <2>2 DEF Next, CheckStructure, VisitKey, VisitDependency, Finish, vars
  <1>. QED
    BY <1>4, <1>5 DEF VerdictInv

\* Where names are unique, the graph has what the stages declare.
LEMMA GraphDeclared ==
  ASSUME stages \in Seq(Stage), ~Duplicated, NEW i \in Positions
  PROVE  stages[i].name \in Keys /\ Graph[stages[i].name] = stages[i].dependencies
  <1>1. \A j \in Positions : stages[j].name = stages[i].name => j = i
    BY DEF Duplicated
  <1>2. i \in LastOfName
    BY <1>1, KeysBounded DEF LastOfName
  <1>3. {j \in LastOfName : stages[j].name = stages[i].name} = {i}
    BY <1>1, <1>2 DEF LastOfName
  <1>. QED
    BY <1>3 DEF Keys, Graph, DependenciesOf

\* A pipeline without a failure runs in the order of the visits.
LEMMA PassedRuns ==
  ASSUME IInv, VerdictInv, pc = "done", failures = {}
  PROVE  ~Duplicated /\ \E order \in Orders : Runs(order)
  <1>1. stages \in Seq(Stage) /\ visited = Keys
    BY DEF IInv, TypeOK, KeysCovered
  <1>2. ~Duplicated /\ \A i \in Positions : stages[i].dependencies \subseteq Keys
    BY DEF VerdictInv, Recorded, StructuralFailures, Failures
  <1>3. PICK f \in [Keys -> 1 .. Cardinality(Keys)] :
          /\ \A m, n \in Keys : f[m] = f[n] => m = n
          /\ \A n \in Keys : \A d \in Graph[n] \cap Keys : f[d] < f[n]
    BY <1>1 DEF VerdictInv, VisitedOrdered
  <1>. DEFINE order == [i \in Positions |-> f[stages[i].name]]
  <1>4. order \in Orders
    <2>1. \A i \in Positions : stages[i].name \in Keys
      BY DEF Keys
    <2>2. Cardinality(Keys) \in Nat /\ Len(stages) \in Nat /\ Cardinality(Keys) <= Len(stages)
      BY <1>1, KeysBounded, FS_CardinalityType
    <2>3. order \in [Positions -> Positions]
      BY <1>1, <1>3, <2>1, <2>2, KeysBounded
    <2>4. \A i, j \in Positions : order[i] = order[j] => i = j
      BY <1>2, <1>3, <2>1 DEF Duplicated
    <2>. QED
      BY <2>3, <2>4 DEF Orders
  <1>5. Runs(order)
    <2>. SUFFICES ASSUME NEW i \in Positions, NEW d \in stages[i].dependencies
                  PROVE  \E j \in Positions : stages[j].name = d /\ order[j] < order[i]
      BY DEF Runs
    <2>1. d \in Keys /\ stages[i].name \in Keys /\ d \in Graph[stages[i].name]
      BY <1>1, <1>2, GraphDeclared
    <2>2. f[d] < f[stages[i].name]
      BY <1>3, <2>1
    <2>3. PICK j \in Positions : stages[j].name = d
      BY <2>1 DEF Keys
    <2>. QED
      BY <2>2, <2>3
  <1>. QED
    BY <1>2, <1>4, <1>5

\* A pipeline that can be run has no failure: the first stage to run of a
\* circular set would have to come after another of the set.
LEMMA RunsPasses ==
  ASSUME IInv, VerdictInv, pc = "done", ~Duplicated, NEW order \in Orders, Runs(order)
  PROVE  failures = {}
  <1>1. /\ stages \in Seq(Stage) /\ order \in [Positions -> Positions] /\ Positions \subseteq Nat
        /\ failures \subseteq Failures
    BY KeysBounded DEF IInv, TypeOK, Orders
  <1>2. \A i \in Positions : \A d \in stages[i].dependencies :
          \E j \in Positions : stages[j].name = d /\ order[j] < order[i]
    BY DEF Runs
  <1>3. StructuralFailures = {}
    <2>1. \A i \in Positions : stages[i].dependencies \subseteq Keys
      BY <1>2 DEF Keys
    <2>2. ASSUME NEW i \in Positions PROVE stages[i].name \notin stages[i].dependencies
      <3>1. \A j \in Positions : stages[j].name = stages[i].name => ~(order[j] < order[i])
        BY <1>1 DEF Duplicated
      <3>. QED
        BY <1>2, <3>1
    <2>. QED
      BY <2>1, <2>2 DEF StructuralFailures
  <1>4. ~HasCycle
    <2>. SUFFICES ASSUME NEW S \in SUBSET Keys, Circular(S) PROVE FALSE
      BY DEF HasCycle
    <2>. DEFINE T == {order[i] : i \in {j \in Positions : stages[j].name \in S}}
    <2>1. T \subseteq Nat /\ T # {}
      <3>1. T \subseteq Nat
        BY <1>1
      <3>2. PICK n \in S : n \in Keys
        BY DEF Circular
      <3>3. PICK i \in Positions : stages[i].name = n
        BY <3>2 DEF Keys
      <3>4. order[i] \in T
        BY <3>2, <3>3
      <3>. QED
        BY <3>1, <3>4
    <2>2. PICK x \in T : \A y \in T : x <= y
      BY <2>1, Least
    <2>3. PICK i \in Positions : x = order[i] /\ stages[i].name \in S
      BY <2>2
    <2>4. PICK d \in S : d \in stages[i].dependencies
      BY <1>1, <2>3, GraphDeclared DEF Circular
    <2>5. PICK j \in Positions : stages[j].name = d /\ order[j] < order[i]
      BY <1>2, <2>4
    <2>6. order[i] <= order[j] /\ order[i] \in Nat /\ order[j] \in Nat
      BY <1>1, <2>2, <2>3, <2>4, <2>5
    <2>. QED
      BY <2>5, <2>6
  <1>5. "cycle" \notin failures
    BY <1>4 DEF IInv, CycleReported
  <1>. QED
    BY <1>3, <1>5 DEF VerdictInv, Recorded

\* validate_pipeline_specification fails a pipeline exactly when names are not
\* unique or its stages cannot be run in any order, whatever their number.
THEOREM VerdictOnPipeline == Spec => []VerdictIsRight
  <1>1. Init => VerdictInv
    <2>. SUFFICES ASSUME Init PROVE VerdictInv
      OBVIOUS
    <2>1. Recorded /\ visited = {}
      BY DEF Init, Recorded
    <2>2. [n \in {} |-> 0] \in [visited -> 1 .. Cardinality(visited)]
      BY <2>1
    <2>. QED
      BY <2>1, <2>2 DEF VerdictInv, VisitedOrdered
  <1>2. IInv /\ VerdictInv => VerdictIsRight
    BY PassedRuns, RunsPasses DEF VerdictIsRight
  <1>. QED
    BY <1>1, <1>2, Invariance, NextVerdict, PTL DEF Spec

-----------------------------------------------------------------------------
\* The search comes to an end

\* The dependencies of n that no call has looked at yet.
Unseen(n) ==
  IF n \in visiting THEN rest[n] ELSE IF n \in visited THEN {} ELSE Graph[n]

\* What the validation has ahead of it: to get on to the search and to the end
\* of it, to come to the keys, to look at their dependencies, and to leave them.
Ahead ==
  {<<"reach", p>> : p \in CASE pc = "structure" -> {"search", "done"}
                            [] pc = "search" -> {"done"}
                            [] OTHER -> {}}
    \cup {<<"key", n>> : n \in IF pc = "structure" THEN Keys ELSE todo}
    \cup {<<"look", nd>> : nd \in {x \in Keys \X Names : x[2] \in Unseen(x[1])}}
    \cup {<<"leave", n>> : n \in Keys \ visited}

\* A finite set is finite when its members are tagged.
LEMMA Tagged ==
  ASSUME NEW S, IsFiniteSet(S), NEW tag
  PROVE  IsFiniteSet({<<tag, x>> : x \in S})
  <1>1. {<<tag, x>> : x \in S} = {tag} \X S
    OBVIOUS
  <1>2. IsFiniteSet({tag})
    BY FS_Singleton
  <1>3. IsFiniteSet({tag} \X S)
    BY <1>2, FS_Product
  <1>. QED
    BY <1>1, <1>3

\* A step takes from what is ahead, part by part.
LEMMA AheadShrinks ==
  ASSUME stages' = stages, Keys' = Keys, Graph' = Graph, visited \subseteq visited',
         \/ pc' = pc /\ todo' \subseteq todo
         \/ pc = "structure" /\ pc' = "search" /\ todo' \subseteq Keys
         \/ pc = "search" /\ pc' = "done" /\ todo' \subseteq todo,
         \A n \in Keys : Unseen(n)' \subseteq Unseen(n),
         \/ pc' # pc
         \/ pc # "structure" /\ todo' # todo
         \/ \E n \in Keys, d \in Names : d \in Unseen(n) \ Unseen(n)'
         \/ \E n \in Keys : n \in visited' \ visited
  PROVE  Ahead' \subseteq Ahead /\ Ahead' # Ahead
  <1>. DEFINE reach == CASE pc = "structure" -> {"search", "done"}
                         [] pc = "search" -> {"done"}
                         [] OTHER -> {}
              keys == IF pc = "structure" THEN Keys ELSE todo
              look == {x \in Keys \X Names : x[2] \in Unseen(x[1])}
              leave == Keys \ visited
  <1>1. Ahead = {<<"reach", p>> : p \in reach} \cup {<<"key", n>> : n \in keys}
                  \cup {<<"look", nd>> : nd \in look} \cup {<<"leave", n>> : n \in leave}
    BY DEF Ahead
  <1>2. Ahead' = {<<"reach", p>> : p \in reach'} \cup {<<"key", n>> : n \in keys'}
                   \cup {<<"look", nd>> : nd \in look'} \cup {<<"leave", n>> : n \in leave'}
    BY DEF Ahead
  <1>3. reach' \subseteq reach /\ keys' \subseteq keys /\ look' \subseteq look /\ leave' \subseteq leave
    <2>1. reach' \subseteq reach
      OBVIOUS
    <2>2. keys' \subseteq keys
      OBVIOUS
    <2>3. look' \subseteq look
      OBVIOUS
    <2>4. leave' \subseteq leave
      OBVIOUS
    <2>. QED
      BY <2>1, <2>2, <2>3, <2>4
  <1>4. reach' # reach \/ keys' # keys \/ look' # look \/ leave' # leave
    <2>1. CASE pc' # pc
      <3>1. reach' # reach
        BY <2>1
      <3>. QED
        BY <3>1
    <2>2. CASE pc' = pc /\ pc # "structure" /\ todo' # todo
      <3>1. keys' # keys
        BY <2>2
      <3>. QED
        BY <3>1
    <2>3. ASSUME NEW n \in Keys, NEW d \in Names, d \in Unseen(n) \ Unseen(n)'
          PROVE  look' # look
      <3>1. <<n, d>> \in look /\ <<n, d>> \notin look'
        BY <2>3
      <3>. QED
        BY <3>1
    <2>4. ASSUME NEW n \in Keys, n \in visited' \ visited
          PROVE  leave' # leave
      <3>1. n \in leave /\ n \notin leave'
        BY <2>4
      <3>. QED
        BY <3>1
    <2>. QED
      BY <2>1, <2>2, <2>3, <2>4
  <1>. HIDE DEF reach, keys, look, leave
  <1>5. Ahead' \subseteq Ahead
    BY <1>1, <1>2, <1>3
  <1>6. /\ \A p : <<"reach", p>> \in Ahead <=> p \in reach
        /\ \A n : <<"key", n>> \in Ahead <=> n \in keys
        /\ \A nd : <<"look", nd>> \in Ahead <=> nd \in look
        /\ \A n : <<"leave", n>> \in Ahead <=> n \in leave
    BY <1>1
  <1>7. /\ \A p : <<"reach", p>> \in Ahead' <=> p \in reach'
        /\ \A n : <<"key", n>> \in Ahead' <=> n \in keys'
        /\ \A nd : <<"look", nd>> \in Ahead' <=> nd \in look'
        /\ \A n : <<"leave", n>> \in Ahead' <=> n \in leave'
    BY <1>2
  <1>8. Ahead' # Ahead
    <2>. SUFFICES ASSUME Ahead' = Ahead PROVE FALSE
      OBVIOUS
    <2>1. reach' = reach /\ keys' = keys /\ look' = look /\ leave' = leave
      BY <1>6, <1>7
    <2>. QED
      BY <2>1, <1>4
  <1>. QED
    BY <1>5, <1>8

\* Every step does: nothing is done twice, in whatever order it is come to.
LEMMA StepShrinks == IInv /\ Next => Ahead' \subseteq Ahead /\ Ahead' # Ahead
  <1>. SUFFICES ASSUME IInv, Next PROVE Ahead' \subseteq Ahead /\ Ahead' # Ahead
    OBVIOUS
  <1>1. stages' = stages /\ Keys' = Keys /\ Graph' = Graph
    BY PipelineFixed
  <1>2. /\ Keys \subseteq Names /\ \A n \in Keys : Graph[n] \subseteq Names
        /\ todo \subseteq Keys /\ rest \in [Names -> SUBSET Names] /\ visiting \cap visited = {}
    BY GraphType DEF IInv, TypeOK, StackOK
  <1>3. CASE CheckStructure
    <2>1. /\ pc = "structure" /\ pc' = "search" /\ todo' = Keys
          /\ UNCHANGED <<rest, visiting, visited>>
      BY <1>3 DEF CheckStructure
    <2>2. \A n \in Keys : Unseen(n)' \subseteq Unseen(n)
      BY <1>1, <2>1 DEF Unseen
    <2>. QED
      BY <1>1, <2>1, <2>2, AheadShrinks
  <1>4. CASE VisitKey
    <2>1. PICK n \in todo :
            /\ pc = "search" /\ visited' = visited /\ todo' = todo \ {n}
            /\ \/ (FindCycle(n) \/ SkipVisited(n)) /\ UNCHANGED rest
               \/ Descend(n) /\ rest' = [rest EXCEPT ![n] = Graph[n]]
      BY <1>4 DEF VisitKey
    <2>2. pc' \in {"search", "done"}
      BY <2>1 DEF FindCycle, SkipVisited, Descend
    <2>3. \A m \in Keys : Unseen(m)' \subseteq Unseen(m)
      <3>1. CASE FindCycle(n) \/ SkipVisited(n)
        <4>1. UNCHANGED <<rest, visiting, visited>>
          BY <2>1, <3>1 DEF FindCycle, SkipVisited, Descend
        <4>. QED
          BY <1>1, <4>1 DEF Unseen
      <3>2. CASE Descend(n)
        <4>1. /\ n \notin visiting \cup visited /\ visiting' = visiting \cup {n}
              /\ rest' = [rest EXCEPT ![n] = Graph[n]] /\ n \in Names
          BY <1>2, <2>1, <3>2 DEF FindCycle, SkipVisited, Descend
        <4>. QED
          BY <1>1, <1>2, <2>1, <4>1 DEF Unseen
      <3>. QED
        BY <2>1, <3>1, <3>2
    <2>. QED
      BY <1>1, <2>1, <2>2, <2>3, AheadShrinks
  <1>5. CASE VisitDependency
    <2>0. PICK t : t = Top
      OBVIOUS
    <2>1. PICK n \in rest[t] :
            /\ pc = "search" /\ stack # <<>> /\ UNCHANGED <<todo, visited>>
            /\ \/ /\ rest' = [rest EXCEPT ![t] = @ \ {n}]
                  /\ visiting' = visiting /\ pc' \in {"search", "done"}
               \/ /\ Descend(n) /\ n \in Keys
                  /\ rest' = [rest EXCEPT ![t] = @ \ {n}, ![n] = Graph[n]]
      BY <1>5, <2>0 DEF VisitDependency, FindCycle, SkipVisited
    <2>2. t \in visiting /\ t \in Keys /\ t \notin visited
      <3>1. Len(stack) \in 1 .. Len(stack) /\ stack \in Seq(Keys)
        BY <2>1 DEF IInv, TypeOK
      <3>2. t \in Keys
        BY <2>0, <3>1 DEF Top
      <3>. QED
        BY <1>2, <2>0, <3>1, <3>2 DEF IInv, StackOK, Top
    <2>3. n \in Names /\ n \in Unseen(t) /\ n \notin Unseen(t)'
      <3>1. n \in Names /\ n \in Unseen(t)
        BY <1>2, <2>2 DEF Unseen
      <3>2. t \in visiting' /\ n \notin rest'[t]
        BY <1>2, <2>1, <2>2 DEF Descend
      <3>3. Unseen(t)' = rest'[t]
        BY <3>2 DEF Unseen
      <3>. QED
        BY <3>1, <3>2, <3>3
    <2>4. \A m \in Keys : Unseen(m)' \subseteq Unseen(m)
      <3>1. CASE rest' = [rest EXCEPT ![t] = @ \ {n}] /\ visiting' = visiting
        BY <1>1, <1>2, <2>1, <2>2, <3>1 DEF Unseen
      <3>2. CASE Descend(n) /\ n \in Keys /\ rest' = [rest EXCEPT ![t] = @ \ {n}, ![n] = Graph[n]]
        <4>1. n \notin visiting \cup visited /\ visiting' = visiting \cup {n} /\ n # t
          BY <2>2, <3>2 DEF Descend
        <4>. QED
          BY <1>1, <1>2, <2>1, <2>2, <3>2, <4>1 DEF Unseen
      <3>. QED
        BY <2>1, <3>1, <3>2
    <2>5. pc' \in {"search", "done"}
      BY <2>1 DEF Descend
    <2>6. \E m \in Keys, d \in Names : d \in Unseen(m) \ Unseen(m)'
      BY <2>2, <2>3
    <2>. QED
      BY <1>1, <2>1, <2>4, <2>5, <2>6, AheadShrinks
  <1>6. CASE Leave
    <2>1. /\ pc = "search" /\ stack # <<>> /\ rest[Top] = {}
          /\ visiting' = visiting \ {Top} /\ visited' = visited \cup {Top}
          /\ UNCHANGED <<pc, todo, rest>>
      BY <1>6 DEF Leave
    <2>2. Top \in visiting /\ Top \in Keys /\ Top \notin visited
      <3>1. Len(stack) \in 1 .. Len(stack) /\ stack \in Seq(Keys)
        BY <2>1 DEF IInv, TypeOK
      <3>2. Top \in Keys
        BY <3>1 DEF Top
      <3>. QED
        BY <1>2, <3>1, <3>2 DEF IInv, StackOK, Top
    <2>3. \A m \in Keys : Unseen(m)' \subseteq Unseen(m)
      BY <1>1, <1>2, <2>1, <2>2 DEF Unseen
    <2>. QED
      BY <1>1, <2>1, <2>2, <2>3, AheadShrinks
  <1>7. CASE Finish
    <2>1. pc = "search" /\ pc' = "done" /\ UNCHANGED <<todo, rest, visiting, visited>>
      BY <1>7 DEF Finish
    <2>2. \A n \in Keys : Unseen(n)' \subseteq Unseen(n)
      BY <1>1, <2>1 DEF Unseen
    <2>. QED
      BY <1>1, <2>1, <2>2, AheadShrinks
  <1>. QED
    BY <1>3, <1>4, <1>5, <1>6, <1>7 DEF Next

\* There is only so much of it.
LEMMA AheadFinite ==
  ASSUME IInv, IsFiniteSet(Names)
  PROVE  IsFiniteSet(Ahead)
  <1>. DEFINE reach == CASE pc = "structure" -> {"search", "done"}
                         [] pc = "search" -> {"done"}
                         [] OTHER -> {}
              keys == IF pc = "structure" THEN Keys ELSE todo
              look == {x \in Keys \X Names : x[2] \in Unseen(x[1])}
              leave == Keys \ visited
  <1>1. IsFiniteSet(Keys) /\ todo \subseteq Keys
    BY KeysBounded DEF IInv, TypeOK
  <1>2. IsFiniteSet(reach)
    <2>1. reach \subseteq {"search", "done"}
      OBVIOUS
    <2>2. IsFiniteSet({"search", "done"})
      <3>1. IsFiniteSet({"search"}) /\ IsFiniteSet({"done"})
        BY FS_Singleton
      <3>2. IsFiniteSet({"search"} \cup {"done"})
        BY <3>1, FS_Union
      <3>3. {"search"} \cup {"done"} = {"search", "done"}
        OBVIOUS
      <3>. QED
        BY <3>2, <3>3
    <2>. QED
      BY <2>1, <2>2, FS_Subset
  <1>3. IsFiniteSet(keys) /\ IsFiniteSet(leave)
    BY <1>1, FS_Subset
  <1>4. IsFiniteSet(look)
    BY <1>1, FS_Product, FS_Subset
  <1>. HIDE DEF reach, keys, look, leave
  <1>5. /\ IsFiniteSet({<<"reach", p>> : p \in reach}) /\ IsFiniteSet({<<"key", n>> : n \in keys})
        /\ IsFiniteSet({<<"look", nd>> : nd \in look}) /\ IsFiniteSet({<<"leave", n>> : n \in leave})
    BY <1>2, <1>3, <1>4, Tagged
  <1>6. Ahead = {<<"reach", p>> : p \in reach} \cup {<<"key", n>> : n \in keys}
                  \cup {<<"look", nd>> : nd \in look} \cup {<<"leave", n>> : n \in leave}
    BY DEF Ahead, reach, keys, look, leave
  <1>. QED
    BY <1>5, <1>6, FS_Union

\* The search ends whatever the pipeline: what it has ahead of it is finite and
\* gets less with every step.
THEOREM SearchIsShort ==
  IsFiniteSet(Names) =>
    (Spec => []IsFiniteSet(Ahead) /\ [][Cardinality(Ahead') < Cardinality(Ahead)]_vars)
  <1>. SUFFICES ASSUME IsFiniteSet(Names)
                PROVE  Spec => []IsFiniteSet(Ahead) /\ [][Cardinality(Ahead') < Cardinality(Ahead)]_vars
    OBVIOUS
  <1>1. IInv => IsFiniteSet(Ahead)
    BY AheadFinite
  <1>2. IInv /\ [Next]_vars => [Cardinality(Ahead') < Cardinality(Ahead)]_vars
    <2>. SUFFICES ASSUME IInv, Next
                  PROVE  Cardinality(Ahead') < Cardinality(Ahead)
      OBVIOUS
    <2>1. IsFiniteSet(Ahead) /\ Ahead' \subseteq Ahead /\ Ahead' # Ahead
      BY AheadFinite, StepShrinks
    <2>2. /\ Cardinality(Ahead') <= Cardinality(Ahead) /\ IsFiniteSet(Ahead')
          /\ Cardinality(Ahead') = Cardinality(Ahead) => Ahead' = Ahead
      BY <2>1, FS_Subset
    <2>3. Cardinality(Ahead') \in Nat /\ Cardinality(Ahead) \in Nat
      BY <2>1, <2>2, FS_CardinalityType
    <2>. QED
      BY <2>1, <2>2, <2>3
  <1>. QED
    BY <1>1, <1>2, Invariance, PTL DEF Spec

=============================================================================
