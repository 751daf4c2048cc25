---------------------------- MODULE Connections ----------------------------
(***************************************************************************)
(* What a process opens when it starts, uses while it serves and closes    *)
(* when it stops: the connectors in the manager's order, the models, the   *)
(* pool of the checkpointer, Redis, the LLM client.  Any step of the start *)
(* may fail, and the process may die at any time; the file of the reranker *)
(* outlives it.  While the process serves, systems go away, hang and come  *)
(* back, and health checks ask all of them at once, each with a time-out.  *)
(*                                                                         *)
(* The drivers differ in one thing that matters here: SQLAlchemy, Motor,   *)
(* the Qdrant client and the Oracle pool replace a connection that was     *)
(* lost, the one connection of ADW or BDP is lost for good.                *)
(***************************************************************************)
EXTENDS Naturals, Sequences, SequencesExt, FiniteSets

CONSTANTS
    Databases,    \* the business databases that settings map to
    PoolBackend,  \* checkpointer_backend is "postgres"
    RedisBackend, \* redis_backend is "redis"
    Reranking,    \* reranker_enabled, with the ONNX backend
    Quantize,     \* reranker_quantize
    MaxChanges,   \* how often a system changes its state: bound of the model
    MaxStarts     \* how many processes run one after the other: bound of the model

ConnectionsAssumption ==
    /\ Databases \subseteq {"ADW", "BDP", "CRP", "TEST"}
    /\ PoolBackend \in BOOLEAN /\ RedisBackend \in BOOLEAN
    /\ Reranking \in BOOLEAN /\ Quantize \in BOOLEAN
    /\ MaxChanges \in Nat /\ MaxStarts \in Nat

VARIABLES
    stage,    \* where the lifespan of the process is
    order,    \* the connectors in their order
    todo,     \* the connectors still to connect, or to disconnect
    open,     \* what is open
    offered,  \* _db_connectors: the databases that are not left out
    failed,   \* history: "pool": it failed when opened, "close": a close raised
    file,     \* model.onnx of the reranker: "none", "partial" or "whole"
    died,     \* history: a process ended while it wrote that file
    state,    \* what each system does: it is up, refuses, or hangs
    lost,     \* drivers whose connection was lost
    check,    \* the answers to a health check: "waiting", "yes" or "no"
    unwell,   \* history: systems that were not up since the check began
    changes, starts

serving == <<state, lost, check, unwell, changes>>
cached == <<file, died>>
vars == <<stage, order, todo, open, offered, failed, cached, serving, starts>>

Infra == <<"mongo", "qdrant", "postgres">>  \* _REQUIRED_INFRA
Systems == Range(Infra) \cup Databases

Stages == {"connect", "reranker", "export", "quantize", "load", "pool", "compile", "redis",
           "serve", "leave", "close llm", "close redis", "disconnect", "stopped", "dead"}
Open == Systems \cup {"executor", "tasks", "pool", "redis", "llm"}

TypeOK ==
    /\ stage \in Stages /\ order \in Seq(Systems) /\ todo \in Seq(Systems)
    /\ open \subseteq Open /\ offered \subseteq Databases /\ failed \subseteq {"pool", "close"}
    /\ file \in {"none", "partial", "whole"} /\ died \in BOOLEAN
    /\ state \in [Systems -> {"up", "refuses", "hangs"}] /\ lost \subseteq Systems
    /\ DOMAIN check \subseteq Systems
    /\ \A n \in DOMAIN check : check[n] \in {"waiting", "yes", "no"}
    /\ unwell \subseteq Systems

\* The order of the connectors: the databases come from a set, in any order.
Orders == {Infra \o s : s \in SetToSeqs(Databases)}
AllUp == [n \in Systems |-> "up"]

Init ==
    /\ order \in Orders
    /\ stage = "connect" /\ todo = order /\ open = {} /\ offered = Databases /\ failed = {}
    /\ state = AllUp /\ lost = {} /\ check = <<>> /\ unwell = {} /\ changes = 0
    /\ file = "none" /\ died = FALSE /\ starts = 1

-----------------------------------------------------------------------------
(* Start: connect_all, create_checkpointer, the graph, Redis                *)

\* An exception leaves the start: the finally of lifespan is next.
Abort == stage' = "close llm" /\ UNCHANGED todo

\* The client is made and tried; a trial that fails closes it.
Connects == open' = open \cup {Head(todo)} /\ todo' = Tail(todo) /\ UNCHANGED <<stage, offered>>

\* MongoDB and the common database: without them the process does not start.
ConnectMongo ==
    /\ Head(todo) = "mongo"
    /\ \/ Connects
       \/ Abort /\ UNCHANGED <<open, offered>>
ConnectPostgres ==
    /\ Head(todo) = "postgres"
    /\ \/ Connects
       \/ Abort /\ UNCHANGED <<open, offered>>

\* Qdrant: when the trial has passed the executor is made and the embedding model
\* is loaded and warmed up on it, and may fail.
ConnectQdrant ==
    /\ Head(todo) = "qdrant" /\ UNCHANGED offered
    /\ \/ open' = open \cup {"qdrant", "executor"} /\ todo' = Tail(todo) /\ UNCHANGED stage
       \/ open' = open \cup {"qdrant", "executor"} /\ Abort
       \/ UNCHANGED open /\ Abort

\* A business database that fails is left out.
ConnectDatabase ==
    /\ Head(todo) \in Databases
    /\ \/ Connects
       \/ /\ offered' = offered \ {Head(todo)} /\ todo' = Tail(todo)
          /\ UNCHANGED <<stage, open>>

\* connect_all
ConnectNext ==
    /\ stage = "connect" /\ todo # <<>>
    /\ ConnectMongo \/ ConnectPostgres \/ ConnectQdrant \/ ConnectDatabase
    /\ UNCHANGED <<order, failed, cached, serving, starts>>

Start == UNCHANGED <<order, todo, open, offered, failed, serving, starts>>

\* _warmup_reranker
WarmUp ==
    /\ stage = "connect" /\ todo = <<>>
    /\ stage' = IF Reranking THEN "reranker" ELSE "pool"
    /\ Start /\ UNCHANGED cached

\* _resolve_onnx_model: a file of that name is taken for the model.
ResolveModel ==
    /\ stage = "reranker" /\ stage' = IF file = "none" THEN "export" ELSE "load"
    /\ Start /\ UNCHANGED cached

\* _export_to_onnx writes a file of another name first, and renames it unless it
\* is to be quantized.
Export ==
    /\ stage = "export"
    /\ \/ stage' = "close llm" /\ UNCHANGED cached
       \/ ~Quantize /\ stage' = "load" /\ file' = "whole" /\ UNCHANGED died
       \/ Quantize /\ stage' = "quantize" /\ file' = "partial" /\ UNCHANGED died
    /\ Start

\* quantize_dynamic writes the file itself; it may raise.
QuantizeEnds ==
    /\ stage = "quantize"
    /\ \/ stage' = "load" /\ file' = "whole" /\ UNCHANGED died
       \/ stage' = "close llm" /\ died' = TRUE /\ UNCHANGED file
    /\ Start

\* load of the backend: a file that is not whole raises.
Load ==
    /\ stage = "load"
    /\ stage' \in IF file = "whole" THEN {"pool", "close llm"} ELSE {"close llm"}
    /\ Start /\ UNCHANGED cached

Process(next) == stage' = next /\ UNCHANGED <<order, todo, offered, cached, serving, starts>>

\* create_checkpointer: the pool is open before a try guards it.
OpenPool ==
    /\ stage = "pool"
    /\ \/ Process("compile") /\ UNCHANGED failed
          /\ open' = IF PoolBackend THEN open \cup {"pool"} ELSE open
       \/ PoolBackend /\ Process("close llm") /\ failed' = failed \cup {"pool"}
          /\ open' = open \cup {"pool"}

\* The graph is compiled inside of the guard.
Compile ==
    /\ stage = "compile" /\ \E next \in {"redis", "leave"} : Process(next)
    /\ UNCHANGED <<open, failed>>

\* The stores of cancel flags and active runs: Redis, or memory.
OpenRedis ==
    /\ stage = "redis" /\ Process("serve") /\ UNCHANGED failed
    /\ \/ RedisBackend /\ open' = open \cup {"redis"}
       \/ UNCHANGED open

-----------------------------------------------------------------------------
(* Turns, as far as they open something                                     *)

\* get_llm_client makes the client when it is first asked for.
UseLlm ==
    /\ stage = "serve" /\ Process("serve") /\ open' = open \cup {"llm"} /\ UNCHANGED failed

\* _encode_async tells the tracker in a task of its own; it ends some time.
Encode ==
    /\ stage = "serve" /\ Process("serve") /\ UNCHANGED failed
    /\ open' \in {open \cup {"tasks"}, open \ {"tasks"}}

-----------------------------------------------------------------------------
(* Health checks                                                            *)

Unasked == UNCHANGED <<stage, order, todo, open, offered, failed, cached, starts>>

\* health_check_all asks the connectors that are not left out.
StartCheck ==
    /\ stage = "serve" /\ check = <<>> /\ Unasked
    /\ check' = [n \in Range(Infra) \cup offered |-> "waiting"]
    /\ unwell' = {n \in Systems : state[n] # "up"}
    /\ UNCHANGED <<state, lost, changes>>

\* The health_check of the drivers: an exception is a no.
PingEnds(n) ==
    /\ state[n] # "hangs"
    /\ check' = [check EXCEPT ![n] = IF state[n] = "up" /\ n \notin lost THEN "yes" ELSE "no"]
\* wait_for gives up.
PingTimesOut(n) == state[n] = "hangs" /\ check' = [check EXCEPT ![n] = "no"]
Ping(n) ==
    /\ n \in DOMAIN check /\ check[n] = "waiting" /\ Unasked
    /\ PingEnds(n) \/ PingTimesOut(n)
    /\ UNCHANGED <<state, lost, unwell, changes>>

CheckOver == check # <<>> /\ \A n \in DOMAIN check : check[n] # "waiting"

\* /health/ready: ready if every answer is a yes, so that a load balancer takes
\* the process out of service for one that is a no; /health tells them.
EndCheck ==
    /\ CheckOver /\ check' = <<>> /\ unwell' = {} /\ Unasked
    /\ UNCHANGED <<state, lost, changes>>

\* Which connection is replaced when it was lost.
Adw == [name |-> "ADW", replaced |-> FALSE]
Bdp == [name |-> "BDP", replaced |-> FALSE]
Crp == [name |-> "CRP", replaced |-> TRUE]
Test == [name |-> "TEST", replaced |-> TRUE]
Postgres == [name |-> "postgres", replaced |-> TRUE]
Single == {d.name : d \in {e \in {Adw, Bdp, Crp, Test, Postgres} : ~e.replaced}}

\* A system goes away, hangs or comes back.
Change(n) ==
    /\ stage = "serve" /\ changes < MaxChanges /\ changes' = changes + 1 /\ Unasked
    /\ \E s \in {"up", "refuses", "hangs"} \ {state[n]} :
         /\ state' = [state EXCEPT ![n] = s]
         /\ lost' = IF s = "refuses" /\ n \in Single THEN lost \cup {n} ELSE lost
         /\ unwell' = IF check # <<>> /\ s # "up" THEN unwell \cup {n} ELSE unwell
    /\ UNCHANGED check

-----------------------------------------------------------------------------
(* Stop: the exit of create_checkpointer, then the finally of lifespan       *)

\* The server stops when its requests are done.
Stop == stage = "serve" /\ check = <<>> /\ Process("leave") /\ UNCHANGED <<open, failed>>

\* A close that goes well, and one that raises when only some of it is closed.
Closes(what, some, then, raises) ==
    \/ open' = open \ what /\ stage' = then /\ UNCHANGED failed
    \/ /\ (what \ some) \cap open # {} /\ failed' = failed \cup {"close"}
       /\ open' = open \ some /\ stage' = raises

Kept == UNCHANGED <<order, offered, cached, serving, starts>>

LeavePool ==
    /\ stage = "leave" /\ Closes({"pool"}, {}, "close llm", "close llm")
    /\ Kept /\ UNCHANGED todo

\* close_llm_client: an exception is logged.
CloseLlm ==
    /\ stage = "close llm" /\ Closes({"llm"}, {}, "close redis", "close redis")
    /\ Kept /\ UNCHANGED todo

\* Redis is closed, outside of any try; disconnect_all is next.  A database that was
\* left out keeps its place in the order and has nothing to close.
CloseRedis ==
    /\ stage = "close redis" /\ Closes({"redis"}, {}, "disconnect", "stopped")
    /\ todo' = order /\ Kept

BeforeClient_KeepsTasks(n) == IF n = "qdrant" THEN {"executor"} ELSE {}
\* disconnect of a connector; that of Qdrant cancels its tasks and ends the
\* executor before it closes the client.
BeforeClient(n) == IF n = "qdrant" THEN {"tasks", "executor"} ELSE {}
DisconnectNext ==
    /\ stage = "disconnect" /\ todo # <<>>
    /\ Closes({Head(todo)} \cup BeforeClient(Head(todo)), BeforeClient(Head(todo)),
              IF Len(todo) = 1 THEN "stopped" ELSE "disconnect", "stopped")
    /\ todo' = Tail(todo) /\ Kept

\* The process dies.
Die ==
    /\ stage \notin {"stopped", "dead"} /\ stage' = "dead" /\ open' = {}
    /\ died' = (died \/ stage = "quantize")
    /\ UNCHANGED <<order, todo, offered, failed, file, serving, starts>>

\* A new process makes a new manager, and finds the file.
Restart ==
    /\ stage \in {"stopped", "dead"} /\ starts < MaxStarts /\ starts' = starts + 1
    /\ order' \in Orders
    /\ stage' = "connect" /\ todo' = order' /\ open' = {} /\ offered' = Databases /\ failed' = {}
    /\ state' = AllUp /\ lost' = {} /\ check' = <<>> /\ unwell' = {} /\ changes' = 0
    /\ UNCHANGED cached

Over == stage \in {"stopped", "dead"} /\ starts = MaxStarts /\ UNCHANGED vars

Next ==
    \/ ConnectNext \/ WarmUp \/ ResolveModel \/ Export \/ QuantizeEnds \/ Load
    \/ OpenPool \/ Compile \/ OpenRedis \/ UseLlm \/ Encode \/ StartCheck \/ EndCheck
    \/ \E n \in Systems : Ping(n) \/ Change(n)
    \/ Stop \/ LeavePool \/ CloseLlm \/ CloseRedis \/ DisconnectNext
    \/ Die \/ Restart \/ Over

Spec == Init /\ [][Next]_vars

-----------------------------------------------------------------------------
(* Properties                                                               *)

\* "Resources are released also when the start fails" (lifespan): whatever step of
\* the start failed, nothing stays open, but for a pool that failed while it was
\* opened and for what comes after a close that raised.
NothingStaysOpen == stage = "stopped" /\ failed = {} => open = {}

\* A health check tells of a system that was up all the time that it is down only
\* if it is one whose connection is not replaced, and was lost.
AlarmsHaveCause ==
    CheckOver => \A n \in DOMAIN check :
        check[n] = "no" => n \in unwell \cup ({"ADW", "BDP"} \cap lost)

\* The model that is loaded is whole, unless a process was stopped while it wrote
\* the file: then no start will ever succeed.
CachedModelIsWhole == stage = "load" => file = "whole" \/ (Quantize /\ died)

ConnectionsHold == NothingStaysOpen /\ AlarmsHaveCause /\ CachedModelIsWhole

=============================================================================
