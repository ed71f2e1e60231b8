-------------------------- MODULE ConnectionPools --------------------------
(***************************************************************************)
(* The requests of the HTTP API against the two connection pools of the    *)
(* process: SQLAlchemy's, from which every store session draws             *)
(* (persistence/db.py), and psycopg's, from which the checkpointer draws   *)
(* (orchestration/checkpointer.py).  A request is where its handler is in  *)
(* orchestration/runner.py; what matters of a place is the connections     *)
(* held there: a session's of the handler, a session's of a graph node,    *)
(* and the checkpointer's.  A session gives its connection back at commit  *)
(* and at its end; the checkpointer holds one per operation.               *)
(*                                                                         *)
(* Both pools give up a wait after 30 seconds.  That is left out: the      *)
(* question is whether requests could need it.                             *)
(***************************************************************************)
EXTENDS Naturals, FiniteSets

CONSTANTS
    Requests,
    DbSize,         \* pool_size + max_overflow of the engine
    CpSize,         \* max_size of the checkpointer's pool
    MaxWork         \* bound on the saves and checkpoints of one invocation

ASSUME PoolsAssumption ==
    /\ IsFiniteSet(Requests)
    /\ DbSize \in Nat \ {0} /\ CpSize \in Nat \ {0}
    /\ MaxWork \in Nat

VARIABLES
    at,             \* where each request is
    goal,           \* where it goes from there, if it has to wait for it
    work            \* saves and checkpoints its invocation has still to do

vars == <<at, goal, work>>

(* create_run, submit_review, get_run, and the handlers with one session.  *)
Arrivals == {"create", "review", "detail", "list"}

(* The places where a session of the handler has a connection: after its   *)
(* first statement, until it commits or is closed.                         *)
InSession == {"creating", "checking", "peeking", "peeked", "confirming",
              "sync_check", "reading", "listing", "choosing", "chosen",
              "querying"}

(* The places inside an operation of the checkpointer.                     *)
InCheckpointer == {"peeking", "loading", "putting", "snapshot", "choosing",
                   "presenting"}

(* The places inside ainvoke; a node has a session of its own in "saving". *)
InInvocation == {"resuming", "loading", "running", "saving", "putting"}

Connections == {"handler", "node", "checkpointer"}

(* Mutant: the checkpointer keeps its connection for the whole invocation. *)
HeldByCheckpointerThroughRun(pool, place) ==
    {c \in Connections :
        \/ pool = "db" /\ c = "handler" /\ place \in InSession
        \/ pool = "db" /\ c = "node" /\ place = "saving"
        \/ pool = "cp" /\ c = "checkpointer" /\ place \in InCheckpointer \cup InInvocation}

(* Mutant: ainvoke is called inside the handler's session.                 *)
HeldAcrossInvoke(pool, place) ==
    {c \in Connections :
        \/ pool = "db" /\ c = "handler" /\ place \in InSession \cup InInvocation
        \/ pool = "db" /\ c = "node" /\ place = "saving"
        \/ pool = "cp" /\ c = "checkpointer" /\ place \in InCheckpointer}

(* The connections of a pool that a request has in a place.                *)
Held(pool, place) ==
    {c \in Connections :
        \/ pool = "db" /\ c = "handler" /\ place \in InSession
        \/ pool = "db" /\ c = "node" /\ place = "saving"
        \/ pool = "cp" /\ c = "checkpointer" /\ place \in InCheckpointer}

Places == Arrivals \cup InSession \cup InCheckpointer \cup InInvocation \cup
          {"created", "recorded", "stopped", "synced", "run_read", "listed",
           "answered"}

(* A duplicate id is a conflict.  Here and below the refresh that follows  *)
(* a commit, in a connection taken anew, counts as part of the session.    *)
StartRun == {<<"create", "creating">>, <<"creating", "answered">>,
             <<"creating", "created">>, <<"created", "confirming">>,
             <<"confirming", "resuming">>}

(* apply_review: the checkpoint is read while the session that read the    *)
(* run still holds its connection; the status is set after record_review's *)
(* commit.                                                                 *)
ApplyReview == {<<"review", "checking">>, <<"checking", "answered">>,
                <<"checking", "peeking">>, <<"peeking", "peeked">>,
                <<"peeked", "recorded">>, <<"recorded", "confirming">>}

(* ainvoke: the checkpoint is loaded, nodes open sessions of their own and *)
(* each step is checkpointed; it ends at a gate, at END or by an exception. *)
Invocation == {<<"resuming", "loading">>, <<"loading", "running">>,
               <<"saving", "running">>, <<"putting", "running">>,
               <<"running", "stopped">>, <<"running", "answered">>}

Work == {<<"running", "saving">>, <<"running", "putting">>}

SyncAndDetail == {<<"stopped", "snapshot">>, <<"snapshot", "synced">>,
                  <<"synced", "sync_check">>, <<"sync_check", "run_read">>}

(* get_run_detail and _build_detail, which reads the checkpoint inside its *)
(* session when the run has artefacts, and again when it waits for review. *)
Detail == {<<"detail", "reading">>, <<"reading", "answered">>, <<"reading", "run_read">>,
           <<"run_read", "listing">>, <<"listing", "listed">>,
           <<"listing", "choosing">>, <<"choosing", "chosen">>, <<"chosen", "listed">>,
           <<"listed", "answered">>, <<"listed", "presenting">>,
           <<"presenting", "answered">>}

(* list_artefacts, get_artefact, list_events, list_lineage, export_run and *)
(* the readiness check's ping.                                             *)
OneSession == {<<"list", "querying">>, <<"querying", "answered">>}

Moves == StartRun \cup ApplyReview \cup Invocation \cup Work
         \cup SyncAndDetail \cup Detail \cup OneSession

(* Where a request may go from a place, with so much work left.            *)
GoalsFrom(place, left) ==
    IF place = "answered" THEN {"answered"}
    ELSE {to \in Places : /\ <<place, to>> \in Moves
                          /\ <<place, to>> \in Work => left > 0}

Size(pool) == IF pool = "db" THEN DbSize ELSE CpSize

InUse(pool) == {x \in Requests \X Connections : x[2] \in Held(pool, at[x[1]])}

(* A place that needs a connection not held before waits for a free one;   *)
(* no place needs two of them.                                             *)
Available(pool, from, to) ==
    \/ Held(pool, to) \subseteq Held(pool, from)
    \/ Cardinality(InUse(pool)) < Size(pool)

CanMove(r) ==
    /\ at[r] # "answered"
    /\ \A pool \in {"db", "cp"} : Available(pool, at[r], goal[r])

(* The outcome of what a request does in a place, which decides where it   *)
(* goes, is known before it waits for the connection it needs there.       *)
Move(r) ==
    /\ CanMove(r)
    /\ at' = [at EXCEPT ![r] = goal[r]]
    /\ work' = IF <<at[r], goal[r]>> \in Work
               THEN [work EXCEPT ![r] = @ - 1] ELSE work
    /\ \E to \in GoalsFrom(goal[r], work'[r]) : goal' = [goal EXCEPT ![r] = to]

Init ==
    /\ at \in [Requests -> Arrivals]
    /\ work \in [Requests -> 0..MaxWork]
    /\ goal \in [Requests -> {"creating", "checking", "reading", "querying"}]
    /\ \A r \in Requests : goal[r] \in GoalsFrom(at[r], work[r])

Next == \E r \in Requests : Move(r)

(* Handlers that have what they need go on; waits for a connection need no *)
(* more than that, because the requests are finitely many.                 *)
Spec == Init /\ [][Next]_vars /\ \A r \in Requests : WF_vars(Move(r))

----------------------------------------------------------------------------
TypeOK ==
    /\ at \in [Requests -> Places]
    /\ work \in [Requests -> 0..MaxWork]
    /\ goal \in [Requests -> Places]
    /\ \A r \in Requests : goal[r] \in GoalsFrom(at[r], work[r])

(* However many requests compete for however few connections, one that is  *)
(* not answered yet can go on, or another one can: sessions wait for the   *)
(* checkpointer's pool, nothing that holds one of its connections ever     *)
(* waits for a session, and nothing that holds a session for a second one  *)
(* (runner.py:146, 170, 212).                                              *)
NoCircularWait ==
    (\E r \in Requests : at[r] # "answered") => \E r \in Requests : CanMove(r)

(* Every request is answered without the help of a pool's timeout.         *)
EveryRequestAnswered == \A r \in Requests : <>(at[r] = "answered")
=============================================================================
