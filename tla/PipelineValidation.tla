-------------------------- MODULE PipelineValidation --------------------------
(***************************************************************************)
(* validate_pipeline_specification: the static checks of one pipeline, run *)
(* by the graph's validate_pipeline node.  The checks of stage identity    *)
(* and of references are one step, the depth-first search for a cycle is   *)
(* one step per call and return of _dfs, its recursion an explicit stack.  *)
(*                                                                         *)
(* The search runs on `graph`, a dict built from the stages: when two      *)
(* stages have one name the later one's dependencies are all it sees.      *)
(* Lists whose order does not matter to the verdict (dependencies, the     *)
(* keys of the dict) are sets.  Kinds and validation rules yield warnings  *)
(* only and are left out.                                                  *)
(***************************************************************************)
EXTENDS Naturals, Sequences

CONSTANTS
  Names,      \* stage names; a dependency may name a stage that is not there
  MaxStages   \* bound: stages in a pipeline

ASSUME MaxStagesAssumption == MaxStages \in Nat \ {0}

VARIABLES
  stages,     \* pipeline.stages, which nothing changes
  pc,         \* "structure", "search", "done"
  failures,   \* the kinds of FAIL among the results
  todo,       \* keys of graph that any(...) has not come to
  stack,      \* nodes of the calls of _dfs under way, outermost first
  rest,       \* rest[n]: dependencies of n that its call has not looked at
  visiting, visited

vars == <<stages, pc, failures, todo, stack, rest, visiting, visited>>

Stage == [name : Names, dependencies : SUBSET Names]

Failures == {"duplicate", "unknown", "self", "cycle"}

Positions == DOMAIN stages

\* name_set, and the keys of graph.
Keys == {stages[i].name : i \in Positions}

Duplicated == \E i, j \in Positions : i # j /\ stages[i].name = stages[j].name

\* The positions of the stages whose name no later stage has.
LastOfName == {i \in Positions : \A j \in Positions : stages[j].name = stages[i].name => j <= i}

DependenciesOf(n, positions) ==
  UNION {stages[i].dependencies : i \in {j \in positions : stages[j].name = n}}

\* graph: the dict comprehension keeps the last stage of each name.
Graph == [n \in Keys |-> DependenciesOf(n, LastOfName)]

-----------------------------------------------------------------------------
\* PipelineSpecificationPayload has at least one stage, so that the early
\* return for an empty pipeline is out of reach.
Init ==
  /\ \E k \in 1 .. MaxStages : stages \in [1 .. k -> Stage]
  /\ pc = "structure"
  /\ failures = {}
  /\ todo = {} /\ stack = <<>>
  /\ rest = [n \in Names |-> {}]
  /\ visiting = {} /\ visited = {}

\* Mutant: the names are compared after they were made a set.
StructuralFailuresButDuplicate ==
  {f \in Failures :
    \/ f = "unknown" /\ \E i \in Positions : ~ stages[i].dependencies \subseteq Keys
    \/ f = "self" /\ \E i \in Positions : stages[i].name \in stages[i].dependencies}

\* What the checks before the search report.
StructuralFailures ==
  {f \in Failures :
    \/ f = "duplicate" /\ Duplicated
    \/ f = "unknown" /\ \E i \in Positions : ~ stages[i].dependencies \subseteq Keys
    \/ f = "self" /\ \E i \in Positions : stages[i].name \in stages[i].dependencies}

\* The checks before the search; any() has all keys before it.
CheckStructure ==
  /\ pc = "structure"
  /\ failures' = StructuralFailures
  /\ todo' = Keys
  /\ pc' = "search"
  /\ UNCHANGED <<stages, stack, rest, visiting, visited>>

\* _dfs(n) returns True: every call under way returns True, and so does any().
FindCycle(n) ==
  /\ n \in visiting
  /\ failures' = failures \cup {"cycle"}
  /\ pc' = "done"
  /\ UNCHANGED <<stack, visiting>>

\* _dfs(n) returns False at once.
SkipVisited(n) ==
  /\ n \notin visiting
  /\ n \in visited
  /\ UNCHANGED <<failures, pc, stack, visiting>>

\* _dfs(n) goes through the dependencies of n.
Descend(n) ==
  /\ n \notin visiting \cup visited
  /\ visiting' = visiting \cup {n}
  /\ stack' = Append(stack, n)
  /\ UNCHANGED <<failures, pc>>

Top == stack[Len(stack)]

\* any(_dfs(n) for n in graph) comes to its next key.
VisitKey ==
  /\ pc = "search" /\ stack = <<>>
  /\ \E n \in todo :
       /\ todo' = todo \ {n}
       /\ \/ (FindCycle(n) \/ SkipVisited(n)) /\ UNCHANGED rest
          \/ Descend(n) /\ rest' = [rest EXCEPT ![n] = Graph[n]]
  /\ UNCHANGED <<stages, visited>>

\* The innermost call comes to its next dependency; one that is not a stage of
\* the pipeline is passed over.
VisitDependency ==
  /\ pc = "search" /\ stack # <<>>
  /\ \E n \in rest[Top] :
       \/ /\ n \notin Keys
          /\ rest' = [rest EXCEPT ![Top] = @ \ {n}]
          /\ UNCHANGED <<failures, pc, stack, visiting>>
       \/ /\ n \in Keys
          /\ FindCycle(n) \/ SkipVisited(n)
          /\ rest' = [rest EXCEPT ![Top] = @ \ {n}]
       \/ /\ n \in Keys
          /\ Descend(n)
          /\ rest' = [rest EXCEPT ![Top] = @ \ {n}, ![n] = Graph[n]]
  /\ UNCHANGED <<stages, todo, visited>>

\* Mutant: a call that returns False leaves its node in visiting.
LeaveMarked ==
  /\ pc = "search" /\ stack # <<>> /\ rest[Top] = {}
  /\ visited' = visited \cup {Top}
  /\ stack' = SubSeq(stack, 1, Len(stack) - 1)
  /\ UNCHANGED <<stages, pc, failures, todo, rest, visiting>>

\* The innermost call has seen every dependency and returns False.
Leave ==
  /\ pc = "search" /\ stack # <<>> /\ rest[Top] = {}
  /\ visiting' = visiting \ {Top}
  /\ visited' = visited \cup {Top}
  /\ stack' = SubSeq(stack, 1, Len(stack) - 1)
  /\ UNCHANGED <<stages, pc, failures, todo, rest>>

\* Mutant: the search goes no further for a pipeline that has failed a check.
FinishWithoutFailures ==
  /\ pc = "search" /\ stack = <<>> /\ todo = {} /\ failures = {}
  /\ pc' = "done"
  /\ UNCHANGED <<stages, failures, todo, stack, rest, visiting, visited>>

\* any() has come to its end: no cycle.
Finish ==
  /\ pc = "search" /\ stack = <<>> /\ todo = {}
  /\ pc' = "done"
  /\ UNCHANGED <<stages, failures, todo, stack, rest, visiting, visited>>

Next == CheckStructure \/ VisitKey \/ VisitDependency \/ Leave \/ Finish

Fairness == WF_vars(Next)

Spec == Init /\ [][Next]_vars /\ Fairness

-----------------------------------------------------------------------------
\* Properties

\* Every variable has its type; only keys of the graph are searched.
TypeOK ==
  /\ stages \in Seq(Stage) /\ stages # <<>>
  /\ pc \in {"structure", "search", "done"}
  /\ failures \subseteq Failures
  /\ todo \subseteq Keys
  /\ stack \in Seq(Keys)
  /\ rest \in [Names -> SUBSET Names]
  /\ visiting \subseteq Keys
  /\ visited \subseteq Keys

\* A set of stages each of which waits for another stage of the set: none of
\* them can ever be the first to run.
Circular(S) == S # {} /\ \A n \in S : Graph[n] \cap S # {}

HasCycle == \E S \in SUBSET Keys : Circular(S)

\* The search reports a cycle exactly when the graph it was given has one.
CycleVerdictIsRight ==
  pc = "done" => ("cycle" \in failures <=> HasCycle)

\* An order of the stages in which each comes after all it depends on.
Runs(order) ==
  \A i \in Positions : \A d \in stages[i].dependencies :
    \E j \in Positions : stages[j].name = d /\ order[j] < order[i]

Orders == {f \in [Positions -> Positions] : \A i, j \in Positions : f[i] = f[j] => i = j}

\* The verdict on the whole pipeline, as its stages declare it: no FAIL is
\* reported exactly when names are unique and the stages can be run in some
\* order.  A cycle that a duplicate name hides from the search still fails.
VerdictIsRight ==
  pc = "done" => (failures = {} <=> ~Duplicated /\ \E order \in Orders : Runs(order))

\* The search ends, cycles or not.
Terminates == <>(pc = "done")

=============================================================================
