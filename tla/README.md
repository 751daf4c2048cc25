# Data Copilot: TLA+ models, checks and proofs

Data Copilot turns a question in natural language into SQL, runs it and
presents the result. It is a FastAPI service around a LangGraph graph whose
nodes call LLMs, search stores and business databases. This directory holds
TLA+ modules of the parts of `src/src/` (and of one batch job of
`src/devtools/`) whose correctness depends on order, interleaving, counters and
failures, the TLC configurations that check them, and TLAPS proofs of the main
theorems. Paths below are relative to `src/src/` unless they start with
`devtools/`, `docs/`, `resources/` or `static/` (SQL and prompt files stand under
`resources/`).

    tlc -config MCReasoningLoop_safety.cfg MCReasoningLoop.tla
    tlapm ReasoningLoop_proofs.tla

## 1. Inventory

| Component | State it keeps | Operations | Hard behaviour | What makes it correct |
|---|---|---|---|---|
| **Reason layer, control** `agents/graph/pipeline.py`, `agents/nodes/reason/*` | `PipelineState.reason`: phase, failure type, plan, hypotheses, generated and validated SQL, target system | one LangGraph node per step, conditional edges | three nested loops (explore, replan, fix) that feed each other; an LLM decides most branches | only validated SQL is executed; the loops end; a given-up turn stays given up; SQL goes to the system it was written for |
| **Reason layer, knowledge** `reasoning_preparer`, `context_retriever`, `context_interpreter`, `confidence_scorer` | plan, executed keys, explored tables, use cases, terms, knowledge items | run steps in parallel, enrich, load, judge, score | steps and the look-ups of their enrichment overlap; results are loaded after they were awaited | what a step found is known when the turn decides; what is learned stays learned |
| **Tools of the catalogue and of columns** `nodes/reason/tools.py`, `connectors/impl/mongo_connector.py` | none | search tables, terms and codes; values, dates, profile of a column | pages are queries of their own, read in any order and again; what a search returns is taken as what was asked for | pages are parts of one list; what is told of a column is of that column |
| **Vector search** `connectors/impl/qdrant_connector.py`, `reranker.py`, `nodes/reason/tools.py` | points loaded so far | search manuals, search use cases, rerank | limits, prefetch, filter, threshold and sort by length apply one after the other; ids to exclude pass through six calls | a turn that asks again goes on where it stopped |
| **Loop guards** `agents/state/state.py`, `services/confidence_scorer.py` | five counters of `LoopGuard`, readiness score | increment, `should_terminate`, `should_escalate_to_structural`, `evaluate_readiness` | limits compared in different nodes, before or after the increment | every loop costs a bounded counter |
| **Target routing** `services/target_db_resolver.py`, `connectors/manager.py` | SELECTED tables, `target_db`, registered connectors | `resolve_target_db`, `get_query_db` | the decision is cached in the state and cleared on replans | generation, validation and execution use one database |
| **Cancel store** `services/cancel_store.py`, `agents/graph/cancel.py` | Redis flag per thread with turn id or wildcard, TTL; memory fall-back | request, check, pop | the flag is raised between two nodes or during a query; the store may be down | a cancelled turn does no more work and ends |
| **LLM client** `utils/llm/*` | breaker state, consecutive failures, time of opening; think filter of a stream; name of the current node | `guard`, `on_success`, `on_failure`, parse retries, requests of three adapters, at once or streaming | calls of many turns share one breaker; outcomes arrive late; a tag is cut by chunks; every request is built twice, in one function for each way; a reader may leave a stream | the breaker's state agrees with the outcomes; OPEN is left; text and thoughts are told apart however they are cut; a call is accounted for under the node that made it |
| **Session runner** `agents/graph/runner.py` | checkpoint (`next`, interrupts), active run, messages | run, resume, abandon, clear | second message while a run is active; crash in the middle; interrupt or leftover of a crash | an answer reaches the question it was given to; a cancelled turn is not resumed |
| **Active run store** `services/active_run_store.py`, `agents/graph/active_run.py` | one entry per thread, TTL | mark, compare-and-delete | two runs of one session | a run deletes only its own entry |
| **Message store** `services/message_store.py` | `checkpoint_dc_messages` (thread, seq), pending buffer per thread | save, flush, update metadata | pool down; buffer taken before an await | messages keep their order, none is lost |
| **List of sessions** `services/session_service.py`, `message_store.py` | `checkpoint_dc_session_index` | register, rename, archive, list by page | the list changes its order while it is read; a session is registered before its question is saved | a list read to its end has shown what was there; what is listed can be opened |
| **Turn snapshots** `services/turn_snapshot_store.py`, `save_turn_snapshot.py`, `continue_orchestrator.py` | last snapshots of a session | restore, trim, select, append | reads that fail; a reference to a turn whose row lacks a part | the rows shown again are those of the turn referred to |
| **Interpret layer** `agents/nodes/interpret/*`, `services/intent_classifier.py`, `query_normalizer.py` | intent, normalized query, ambiguity signals | classify, orchestrate, normalize, ask, answer | four nodes ask through one handler; inference past a limit of questions; the answer of the LLM is checked and repaired slot by slot, twice | an answer goes back to who asked; the reason layer gets a query, whose slots hold what the later layers read |
| **Present layer** `agents/nodes/present/*`, `services/data_analyzer.py`, `services/visualization/*` | result, analysis, picture, answer | a chain of nodes, two of them streaming | a text that does not parse has been shown; cancellation between nodes and chunks | the answer is complete; each streamed part is closed once |
| **Front end** `main.py`, `routers/sessions.py`, `services/session_service.py` | WebSocket connections, download cache | receive, send, store, download | the socket is lost while a turn runs; the cache is full | a client that stays gets the answer and its end once; a session downloads what it was told of last |
| **Tracking** `utils/tracker/**`, `utils/logger.py` | handler, trace, telemetry file | chain start and end, events, save, resume, report | nested chains with one name; events of chains that ended; a trace that goes on in another run | the trace is one story and its report tells it |
| **Index of the SQL history** `devtools/scripts/enrich_sql_history.py` | cursor file, queue, points | incremental and full runs, write-back, reconcile | two stores without a transaction; rows change during a run; crash between writes | what the cursor passed is in the index |
| **Accounts of a turn** `services/insight_builder.py`, `process_summary_builder.py` | the marks the reason layer leaves: owner of a step, finder of a table, judgments | put together at the end of a turn | the marks are set in seven nodes and cleared in few of them; forced generations and answered questions leave by other ways | what is shown was done, and what was done is shown |
| **Connectors and other resources** `connectors/**`, `main.py` (lifespan), `agents/graph/checkpointer.py`, `reranker.py` | clients, pools, models, the file of the exported reranker | start, health check, replace, stop | any step of the start may fail; systems hang, go away and come back; a process dies while it writes the file | what was opened is closed; an alarm has a cause; a model that is loaded is whole |
| **SQL validation** `services/sql_safety_checker.py`, `nodes/reason/sql_validator.py`, `sql_generator.py`, `utils/sqlglot_analyzer.py` | the generated statement and its verdicts | extract, check (four layers), route | four layers, each with exits of its own; the route is computed a second time for the trace | what passes was checked and run; the trace names the node that comes next |
| **SQL formatting** `utils/sql_formatter.py` | none | rewrite a statement | its output is stored as the executed SQL, from which later turns start | the tokens stay |
| **Configuration, prompts, seed tools** | settings | load | | |

How they interact. The front end calls the runner once per message. The runner
marks the session active, pops an old cancel flag, looks at the checkpoint for
an interrupt, and starts or resumes the graph. A turn goes through the interpret
layer, the reason layer and the present layer; their nodes call the LLM client
(one process-wide breaker), the connectors (through the manager) and the cancel
store. State flows between nodes only through `PipelineState`, which LangGraph
checkpoints after every superstep. The cancel endpoint writes the cancel store
from outside. The runner saves the messages of a turn, from which the next
connection restores snapshots; the callback handler sends progress and writes
the trace; `_run_ws_pipeline` sends the result and fills the download cache.
The batch job fills the collection that the vector search reads.

The hazards these behaviours bring, each at its line and with the properties
that watch it, are listed in `PROJECT.json` under `hazards`.

## 2. Modules

| Module | Models | Code it stands for |
|---|---|---|
| `ReasoningLoop` | one turn of the reason layer, with loop guards, routing, the clarification interrupt and cancellation | `pipeline.py`, the eight reason nodes, `sql_executor.py`, `clarification_handler.py`, `state.py`, `confidence_scorer.py`, `target_db_resolver.py`, `cancel.py` |
| `TurnContract`, `ReasonTurn` | what the reason layer promises, without its loops; the refinement mapping | the same |
| `Knowledge` | what a turn learns: items, plan, parallel steps, loading, judging, readiness | `reasoning_preparer.py`, `context_retriever.py`, `context_interpreter.py`, `confidence_scorer.py` |
| `Tools` | the searches of the catalogue and what is told of a column | `tools.py`, `mongo_connector.py`, the values kept by `context_interpreter.py`, the restored codes of `turn_snapshot_store.py` |
| `Validation` | an SQL text from the answer of the LLM to the executor, with computed verdicts | `sql_validator.py`, `sql_safety_checker.py`, `sqlglot_analyzer.py`, `sql_generator.py` |
| `Insight` | the marks of a turn and the two accounts made of them | `insight_builder.py`, `process_summary_builder.py`, and the reason nodes that set the marks |
| `Formatter` | which tokens of a statement are stored, in which order, with what between them | `sql_formatter.py`, the save in `runner.py` |
| `Retrieval` | the two vector searches and the reranker, across the batches of a turn | `qdrant_connector.py`, `reranker.py`, `tools.py` |
| `Interpret` | the nodes before the reason layer, with their questions | `nodes/interpret/*`, the edges of `pipeline.py` |
| `Normalizer` | how the slots of a normalized query are made, checked and repaired | `services/query_normalizer.py`, `nodes/interpret/query_normalizer.py`, `models/normalization.py` |
| `Present` | the nodes after it, with streamed and plain LLM calls | `nodes/present/*`, `data_analyzer.py`, `visualization/*`, `retry.py` |
| `ThinkFilter` | the filter that splits a streamed answer into text and thoughts | `utils/llm/client.py` |
| `Delivery` | what a client of the WebSocket receives of a turn | `main.py` |
| `ResultCache` | the results kept for `/api/download` | `main.py` |
| `CircuitBreaker` | the breaker and the calls that go through it | `circuit_breaker.py`, `retry.py` |
| `LlmClient` | one call of an LLM: its request, what its caller gets, what the trace is told | `client.py`, `retry.py`, `tracker/context.py`, `tracker/dispatch.py` |
| `Connections` | what a process opens, checks, replaces and closes | `manager.py`, `connectors/impl/*`, `checkpointer.py`, `main.py`, `reranker.py` |
| `SessionTurns` | the messages of a session: register of active runs, cancel flag, resume or start, checkpoint, crashes | `runner.py`, `cancel_store.py`, `cancel.py`, `active_run_store.py`, `active_run.py`, the cancel endpoint and the WebSocket loop |
| `MessageStore` | how the messages of a session are saved, buffered and reported | `message_store.py`, the saves of `runner.py`, `_fetch_user_seqs` |
| `SessionIndex` | the list of a user's sessions, and a reader who turns its pages | `message_store.py`, `session_service.py`, `runner.py` |
| `TurnSnapshots` | what a turn can refer back to, and what it leaves for the next | `turn_snapshot_store.py`, `continue_orchestrator.py`, `save_turn_snapshot.py`, `runner.py` |
| `Tracker` | progress, trace and report of a run and of the run that resumes it | `utils/tracker/*` |
| `Reembed` | the batch that keeps the index of the SQL history | `enrich_sql_history.py` |
| `TurnLayers`, `Services`, `Records` | several of these side by side, and what they promise together | the same |
| `MC...` | instances of these for TLC | |
| `..._proofs` | theorems about them | |

The modules share no variables. `ReasoningLoop` is one turn seen from inside,
`SessionTurns` a sequence of turns of which only the ends are kept, and
`MessageStore` the same runs seen from the table of messages. What one module
leaves open (how a turn ends, whether a save fails, what a search returns) is a
choice in the others. The one composition by refinement is `ReasonTurn`: the
rest of the program relies on no more of the reason layer than `TurnContract`
says.

Since most modules need only a small instance, three modules hold several of
them side by side, each with variables of its own, and state their properties
together: `TurnLayers` has `Interpret`, `Present` and `Delivery`; `Services` has
`MessageStore`, `Normalizer`, `Validation`, `Insight`, `Connections` and `LlmClient`; `Records`
has `Knowledge`, `TurnSnapshots`, `ResultCache`, `Tracker`, `Reembed` and
`SessionIndex`. `MCTurn`, `MCServices` and `MCRecords` extend them with the values
for TLC, and with the modules that no theorem is about: `MCTurn` with `ThinkFilter`,
`Retrieval` and `Tools`, `MCServices` with `Formatter` (on the statements of
`MCStatements`). A variable `part` says which of them moves in a
behaviour; the others stay in an initial state. Nothing is lost by that: without
shared variables an interleaving of two of them shows a property of one nothing
new. The theorems are about the same three modules and need no `part`: they hold of
each module's own specification (`V!Spec`, `K!Spec` ...).

### ReasoningLoop

`node` is the node LangGraph runs next, or where the turn stopped: `present`
(handed to the present layer), `end` (error text written), `aborted` (an
exception left the graph), `abandoned` (interrupted and never resumed),
`awaiting_answer` (interrupted). An action is one superstep: the wrapper
`with_cancel_check`, the body of the node, and the conditional edge evaluated
on the updated state, which is why the edges appear primed
(`node' = RouteAfterRecoveryAgent'`).

| Action | Code |
|---|---|
| `CancelledAtEntry` | the wrapper finds the flag, sets `status` CANCELLED and skips the body; the edges are followed all the same |
| `ReasoningPreparer` | first plan and hypothesis, `phase` EXPLORING |
| `ContextRetriever` | PENDING steps cut at the rest of the tool budget (`Executed`), `tool_call_count` |
| `ContextInterpreter` | new knowledge: any readiness band, any selection of tables |
| `ReadinessGate` | verdict, routing to one system, forced generation after replans, context of the failure |
| `SqlGenerator` | SQL, GENERATION_FAILED, or a routing failure; `generate_attempts` |
| `ValidatorWithoutSql`, `ValidatorRejectsByRule`, `ValidatorRunsSql`, `SemanticCheck` | `sql_validator`: no SQL; Layer 1/2a; Layer 3; Layer 2b with the cancel check in front of it. The node is cut in two at that check because the flag may appear while the query runs |
| `RecoveryAsksUser`, `RecoveryGivesUp`, `RecoveryReplans` | the three outcomes of `recovery_agent`, after the common entry `RecoveryEntry` |
| `ClarificationHandler`, `Answer`, `Abandon` | interrupt; resume by the next message; a next message that finds a cancel flag |
| `ResultFinalizer`, `SqlExecutor`, `HandleError` | the end of the turn |
| `NodeRaises` | exceptions no node catches: no connector for the system, an open breaker in `recovery_agent` |
| `Cancel` | `POST /sessions/{id}/cancel` |

What is abstracted, and why it is enough:

- *LLM and database answers* are choices. Everything the code does with an
  answer that changes control is kept.
- *Knowledge* is kept as far as control reads it: `readiness` is one of the
  three bands that the thresholds 0.65 and 0.55 cut, `explored` tells whether a
  table is known, `selected` the systems of the SELECTED tables. `Knowledge` has
  what stands behind these.
- *Counters* stop at the largest limit they are compared with (`Bump`): every
  comparison is `>=`, so larger values behave alike.
- `error_message` is set in exactly the states with status CANCELLED or ERROR,
  so the edge that reads it reads the status.
- LangGraph's own recursion limit is outside the code (the repository sets
  none; the library's default raises an exception after very many supersteps)
  and is left out: a loop only it would stop counts as a loop.
- `CancelStoreMayFail` lets a look-up miss the flag, as the store does when
  Redis fails (`cancel.py` treats an error as "not cancelled").
- Plans are bounded by `MaxPlanSteps` per plan; this is the only bound of the
  model that is not a setting of the program.

### TurnContract and ReasonTurn

`TurnContract` is the reason layer as its callers see it: it works, may ask the
user at most `MaxAsks` questions, passes at most one query, and either stops or
presents the result of the query it passed. `ReasonTurn` maps `ReasoningLoop` to
it: `Stage` folds the nodes, `Passed` is the validated SQL with the database it
was checked on, `Presented` the SQL the executor ran with the database it ran
on. `ContractKept` is `Contract!Spec` under that mapping, checked by the run
`safety` and proved in `ReasoningLoop_proofs`. It is more than the invariants of
`ReasoningLoop`: no step may exchange, forget or pass a query twice.

### Knowledge

| Action | Code |
|---|---|
| `Prepare` | `reasoning_preparer`: the items of the query, the first plan |
| `Begin` | `context_retriever_node` up to the `gather`: steps skipped, qualified and cut at the rest of the budget |
| `Answer(i)`, `Enrich(i)`, `Fail(i)` | `_run_step`, as two actions because it awaits its tool and then the look-ups of its use cases; the steps share `keys` and `local` |
| `Gathered` | all steps have ended |
| `Interpret` | `context_interpreter_node`: load the raw results, let the LLM judge, merge |
| `Replan` | `recovery_agent` appends steps |
| `Verdict`, `Reaches` | `evaluate_readiness`, `calculate_readiness` |

`found` is a history variable: the tables and use cases returned by steps that
are DONE. The LLM may judge whatever it is shown in any way; facts, evidence,
confidence values, observed rows and code columns are left out. The score is
computed in hundredths; its rounding to thousandths matters with hundreds of
items only.

### Retrieval

A search is a step (`Plan`), a batch of them runs in parallel (`Retrieve`,
`Answer`, `Fail`), and what it returned is loaded at its end (`Interpret`).
`Seen` is read once for all steps of a batch, as in the code. `SearchSqlHistory`
composes what `search_sql_history` and `Reranker.rerank` do one after the other:
the growing prefetch, the filter of the server, the score threshold, the sort by
length before the batch of the cross-encoder and the way back, the cut to
`top_k`. The models are external: one score for each query and point, and for
the cross-encoder every order of the points (`Judgments`).

### Tools

`SearchPage` is a page of one of the four searches of MongoDB, `GetColumnValues`,
`GetDateDistribution` and `GetColumnProfile` are the queries about a column;
`Ranked` and `AllRows` are the order that `$sort` and the joins give, `PageOf` the
clamping of the page. The LLM asks for pages in any order and for the same again.
`Observe` is what the table keeps of values and dates, `Restore` what a restored
turn takes from a search by name. A document is its words, its name and the rows
that are joined to it; values are numbers in the order of SQL, 0 is NULL.

### Validation

One action per layer, in the order of `sql_validator`, after `Generate`, which
decides what is taken for SQL. A statement is the record of what the checks find
in its text (how it starts, whether it parses, tables, columns, aggregates,
groups); how sqlglot finds them is left out. Verdicts that `ReasoningLoop` takes
as choices are computed here. `RouteAfterSqlValidator` is the edge,
`InferTraceRouting` its copy for the trace.

### Insight

The actions are the nodes of the reason layer reduced to the marks they leave:
the hypothesis a step belongs to, the step that found a table, the statement each
judgment was made of. `Shown`, `Used`, `Candidate`, `Calls`, `Matched`, `WithSql`,
`ValidationDetail`, `JourneyValidation` and the two lists of caveats are what the
builders make of them at the end; `ToldOfStep`, `History` and `Rounds` are what
`recovery_agent` tells the LLM on the way. Two things these operators show are the
code's own and no property is about them: the caveat of a join is given whenever
more than one table is not rejected, whatever the SQL reads, and a step that was
not run yet is told to the LLM with the mark of a failed one
(`recovery_agent.py:812`).

### Formatter

`Format` is `format_sql_tabular` on the tree of sqlparse: a cursor `c` goes over
the nodes and puts out tokens, each with the gap in front of it (none, a space, a
line). Indentation and widths are left out. `Store` is the save of the runner. `Reads` and
`Meaning` are the tokens a reader finds in the text and in the tree: a line
comment hides what follows on its line, and two words without a gap are one.

### Connections

The stages of `lifespan`: `Connect...` in the manager's order with every way to
fail, the export of the reranker's model (`Export`, `QuantizeEnds`), the pool,
Redis, `serve`, and the way out, which a failing start takes too. While the
process serves, systems go away, hang and come back, and a health check asks all
of them at once. `Die` ends a process anywhere; `Restart` starts the next, which
finds the file the first one left. The driver decides whether a lost connection
is replaced.

### LlmClient

One call: who makes it (`create`, a stream, with or without retries), of which
provider and model, with or without a system prompt and thoughts. `RequestOf` has
the request each of the adapters sends, `Answers` what the model may say in
pieces of text and thought, the last of which may be cut. A text is the set of the
pieces it is made of: their order is that of the answer. `Tell` is the LLM_CALL
event, which takes its node from `_current_node`; `Leave` and `Collect` are a
stream that its reader leaves and the collection of its generator, between which
the graph may go on (`NextNode`).

### Interpret and Normalizer

An action of `Interpret` is a node with its edge (`RouteAfterIntent`, `RouteAfterNormalize`,
`RouteAfterClarify`), in the manner of `ReasoningLoop`. `SkipCancelled` is the
wrapper; `continue_orchestrator` has none. `ClassifyAsks`, `Normalize` and `Ask`
make questions pending, `Answer` resolves one of them and goes back to its
source, `ClassifyForced` is `_handle_forced_progression` at the limit. A signal is made
of what the LLM wrote and may be refused, which ends the turn (`ClassifyRaises`,
`NormalizeRaises`). The texts
are kept as where they came from (`typed`, `merged`, `extraction`), the query as
`none`, `default`, `made` or `restored`.

`Normalizer` opens its node `query_normalizer`: `Rewrite`, `Phase1`, `Phase2`,
`Finish` and `Signals`. A rewriting that fails leaves the text as it was typed, a phase
or a repair that fails leaves the default query. An ambiguity that `AmbiguitySignal`
refuses raises outside the `try`, after the query was made: `SignalRefused`. An answer of the LLM is a record
of the slots in which the code reads or repairs something; a value is valid, valid but for
its case, wrong, or missing. `ValidStructure` is `_validate_structure`,
`Postprocess` the chain of `_post_...` functions in its order.

### Present and ThinkFilter

An action of `Present` is a node, or one step of a streamed call
(`llm_stream_with_parse_retry`): `Chunk`, `Reparse`, `CancelStream` and the ends
`AnalysisStreamed`, `SvgStreamed`. `shown` and `told` are what a client holds
that follows the events, a text is the sequence of its chunks, and a chunk is
the attempt that made it, so that a remainder of an earlier attempt would be
seen. In this release `turn_reset` clears `streaming_enabled`, so the graph
takes the plain calls only; the streamed calls are what the same functions do
for a caller that sets the flag, and both are modelled.

`ThinkFilter` is `QwenThinkFilter` letter by letter: this is the one module whose
data is text, because what is at stake is a tag that is cut between two chunks.
The tags are shortened to `<>` and `</>`: they share their first letter, as the
real ones do, and no tag contains its own beginning again.

### Delivery and ResultCache

`Delivery` is `websocket_endpoint` and `_run_ws_pipeline` for one connection: `pc`
is the next message to send, `view` what the client of the turn has received.
Every send has two outcomes (`Sent`, `NotSent`), and the socket may be lost at
any moment. Progress events of a turn count as one. `ResultCache` is the dict
behind `/api/download` with all connections of all sessions; between the return of a turn (`TurnWithRows`, `TurnRaised`) and the step that
stores and announces its rows (`Store`) the messages of the answer are awaited, and other
connections of the session may return and store. A run that raised, a client that left
and a turn over REST are recorded in `mishap`, two answers of a session on their way at
once in `overlap`.

### CircuitBreaker

`state`, `failures` (up to the threshold) and `remaining` (ticks until the
reset timeout) are the fields of the breaker; `pc` and `attempt` the position
of each call in `llm_call_with_parse_retry`; `stale` is a history variable,
the calls that were at the provider when the breaker last opened. `Enter` is
the entry of `guard()`, `Answers`, `FailsCounted` and `FailsUncounted` its
exit: the lock is not held while the provider works, so any number of calls
overlap. The switch `llm_cb_enabled` is taken as on. `Reset` is offered by the
class, although only tests call it.

### SessionTurns

A run is one call of `run_pipeline`; runs are numbered by arrival and a turn by
the run that started it. `flag` is the cancel flag, kept as the set of turns it
covers: one turn, or all of them for the wildcard. `active` is the entry of the
register, with the number of the run in place of its token. `checkpoint` is
what the code reads of the LangGraph thread: the turn and its `next`.

| Action | Code |
|---|---|
| `MarkActive` | `mark_active` at the top of `run_pipeline` |
| `PrepareInput` | `pop_cancel`, then `sanitize`: a rejected input leaves at once |
| `CheckInterrupt` | `_check_interrupt`; a failing `aget_state` counts as a new session |
| `StartTurn`, `ResumeTurn` | the two calls of `ainvoke`. A resumption goes on where the thread stands when LangGraph reads it, which another run may have moved |
| `NodeIsCancelled`, `NodeRuns`, `TurnEnds`, `TurnAsks`, `NodeRaises` | supersteps of the graph. `NodeRuns` is possible with a flag up as well: some nodes have no check, and a failing store counts as no flag |
| `ClearActive` | the `finally`: compare-and-delete |
| `Cancel` | the cancel endpoint, for a turn or for the session |
| `FlagExpires`, `ActiveExpires` | the TTLs of Redis |
| `Crash` | the process dies; what each backend keeps is kept |

`open`, `intent`, `hit` and the four `mishaps` are history variables: what the
user saw and did, and what went wrong so far. No guard reads them. They let a
property say under which circumstances it holds: `MessageAnswersOpenQuestion`
needs a session without overlap, failure, expiry and rejected input after a
cancel, and each of these premises is there because TLC found the property
violated without it.

### MessageStore

`pc[r]` is the call of `save_message` in which a run is (`early`, `user`,
`assistant`, `errorUser`, `error`) or the place between them; `batch[r]` what
that call has still to write; `buffer` the pending list of the thread; `log`
the rows by `seq`. A message is its run, role and type.

| Action | Code |
|---|---|
| `Start`, `GraphEnds`, `RunRaises` | the runner calls `save_message`, which takes the buffer and appends its own message (`Call`) without an await |
| `Insert` | one INSERT of the loop |
| `SaveSucceeds`, `SaveFails` | the call returns a seq or None (`Returns`), and the runner goes on to its next save in the same step. `SaveFails` covers a pool without connection, a failing INSERT, and one that committed and lost its answer |
| `Result` | the result leaves the run; `update_message_metadata` may fail |

`HistoryIsRead` is what readers of the table rely on: rows in the order of the
conversation (`HistoryInOrder`), and the question before an answer being the one
it answers (`RestoredTurnHasItsQuestion`).

The code numbers rows by `MAX(seq) + 1`; a collision of two concurrent INSERTs
raises, which is one reason of `SaveFails`. The primary key also has the date,
so that the collision of two rows on different days of one session is not
rejected by it; the model has one day. Without a pool (MemorySaver) nothing is
ever saved. A crash empties the buffer; the rows are all that is left, and the
model stops there.

### SessionIndex

`lastActive` is the column of that name, 0 for a thread without a row. `Ask` is the
upsert with which a run begins (it may fail, which is only logged), `Save` the first
save of its message; `Archive`, `Unarchive` and `Rename` are the user's, and a reader
takes page after page while they are full (`ReadPage`). The order of a page is a
number, not a sequence: a session is on the page at `next` when as many listed
sessions come before it as `LIMIT` and `OFFSET` ask for (`Before`, `Page`). `steady`
and `left` are history variables about the list since its first page was read.

### TurnSnapshots

`rows` is the table of messages, `list` the snapshots in the state of the graph.
`BeginRestored` reads the table as `restore_from_db` does (rows, then the
sequence numbers of the questions, each of which may fail), `ShowRows` and
`Regenerate` are the routes of the orchestrator, the `End...` actions what the
ends of a turn write. The rows that the `LIMIT` lets through are a set (`Fetched`:
fewer than `Limit` references are newer), and the restored list is the one order of
them that `list.sort` may leave (`Sorted`), so that both can be proved about. What no
read can get wrong is left to `Interpret`.

### Tracker

The `On...` operators are the methods of the callback handler; the actions are
what LangGraph does with chains: they nest (`StartChain`, `EndChain`), events
come from the innermost chain, from the node's own or from one that has ended
(`Event`), a run starts with a new handler and may resume the file of the run
before (`StartRun`, `EndRun`). `Bars` and `Findings` are what the report makes
of a trace; `CameTo` is how far the walk over the records has come at each visit.
Texts of the report are left out.

### Reembed

One action per step between which the job may die: start (read the cursor file
and the rows), `Read` and `Drain` (the oldest row enters a queue, a full queue is
flushed; the queues are sets, since a batch is written as a whole), `WriteBack`, `Clear`, `Close` (save the cursor), and for a
reconciliation `Collect` and `Sweep`. `ChangeRow` and `DeleteRow` are others who
work on the table meanwhile. `late`, `doubt` and `debris` are history variables:
changes committed behind the cursor, points that are known to be lost behind
it, points without a row. They say what only `--full` or a reconciliation can
repair, and every one of these premises is there because TLC found the property
violated without it.

## 3. Runs

| Run | Instance | Shows |
|---|---|---|
| `safety` | two systems with connectors, 3 tool calls, 2 replans, 4 local fixes, MAX_GENERATES 3, one question, plans of up to 2 steps, 2 SQL texts, failing cancel store; 555 thousand states | `TypeOK`, `ExecutedSqlIsValidated`, `TargetFollowsSelection`, `ExplorationWithinBudget`, `FailureIsFinal`, `RegenerateRecoversAfterLocalFixes`, `GenerateLimitNeedsForce`, and the refinement `ContractKept` |
| `liveness` | a system without connector, reliable cancel store, no MAX_GENERATES; 182 thousand states | `LoopGuardEndsTurn`, `FixLoopIsLeft`, `CancelledOutsideFixLoopEnds`, and the action property `NoWorkAfterCancel` |
| `breaker` | three calls, threshold 2, one parse retry; 1883 states | `OpenIffThresholdReached`, `OpenIsLeft` |
| `session` | three messages, both stores durable, overlapping runs; 2.3 million states | `NewestRunIsActive`, `NoGhostIsActive`, `EarlierCancelSparesRun`, `MessageAnswersOpenQuestion` |
| `messages` | the seven modules of `MCServices`; 4.3 million states | MessageStore: `ReturnedRowIsOwn`, `HistoryIsRead`, `NothingLost`; Normalizer: `NormalizedQueryHolds`; Validation: `OnlyRunSqlPasses`; Insight: `AccountsAreTrue`; Formatter: `PlainIsKept`; Connections: `ConnectionsHold`; LlmClient: `LlmCallHolds` |
| `turn` | the six modules of `MCTurn`; 612 thousand states | Interpret: `ReasonHasQuery`, `ReturnsToAsker`; Present: `AnswerIsComplete`; ThinkFilter: `CutsDoNotMatter`; Delivery: `AnsweredOnce`; Retrieval and Tools: `SearchesGoOn`; and `EveryPartMovesOn`, the liveness of Interpret, Present and Delivery |
| `records` | the six modules of `MCRecords`; 2.0 million states | Knowledge: `FindingsReachState`, `KnowledgeOnlyGrows`; TurnSnapshots and SessionIndex: `ShownAreOfReference`; ResultCache: `DownloadIsNewest`; Tracker: `TraceTellsRun`; Reembed: `IndexFollowsTable` |
| `cancel_v`, `resume_v`, `restored_v`, `format_v`, `codes_v` | smaller instances | one statement of a comment, docstring or test each that the code does not keep, see section 5 |

A property of an MC module is a conjunction of properties of its parts, with the
part's type invariant as a conjunct: `SearchesGoOn` holds `Retrieval`'s property of
that name and `ToolsHold`, `ShownAreOfReference` holds `PrimaryIsNewest` and
`SessionsHold`, `AnswerIsComplete` holds `PartsAreClosed`, `TraceTellsRun` holds
`AddsAreDone`.

Two settings have no run: a forced target system, and Layer 2b switched off. The
theorems of `ReasoningLoop_proofs` hold for both.

The bounds are enough for the questions asked: each limit takes a value at
which the loop it bounds can be entered, repeated and exhausted.

- *The loop*: 2 replans with forced generation after 1, so that exhaustion and
  forcing are different states; 4 local fixes and 3 generations, so that either
  limit is met first on some path (`liveness` has 2 fixes and no limit of
  generations); 3 tool calls and plans of 2 steps, so that a batch is cut in the
  middle. Two systems suffice for an ambiguous selection.
- *Breaker*: three calls suffice for one stale, one trial and one rejected call.
- *Session*: three messages suffice for a turn that asks, a second message that
  answers, withdraws or overtakes it, and a third that meets what these left.
- *Messages*: with two runs, two failures and a buffer of one message, the limit
  cuts in the middle of a run (its question and its reply both wait) and across
  runs.
- *Interpret*: a limit of two questions and two kinds of ambiguity, one with a
  priority and a guardrail of its own (FORMULA) and one without, reach every
  order of asked, answered, inferred and forced.
- *Present*: two retries and two chunks give an attempt that replaces another
  which itself replaced one, in the middle of its text.
- *ThinkFilter*: six letters hold an opening tag, a letter and a closing tag,
  chunks of one and two letters cut both in every place.
- *Tools*: four documents of three kinds in pages of two of which two may be
  asked for, so that a page is clamped, full, part and empty; a column of four
  rows with values up to 4, of which a distribution takes 3 and the table 2.
- *Retrieval*: four use cases with `top_k` 2 and a prefetch of 3 to 4, three
  searches: the second must pass over what the first loaded, the third meets
  fewer than it asks for, and the filter, the threshold and the minimum of
  candidates each bite.
- *Knowledge*: two tables, one of which both use cases read and one of which can
  be named in full; three tool calls and three steps: a first batch of two steps
  that overlap, and a replan.
- *Normalizer*: every combination of what the LLM may write in the slots that one
  repair reads (`Answers` in `MCServices`), for both phases.
- *Validation*: two tables of one column each, 2 fixes and 2 generations, and
  statements that are at fault in every combination of what belongs together: how the
  text starts and parses; its limit, functions and groups; its tables, names and columns.
- *Insight*: two tables, two steps and two statements: a second plan, a second
  hypothesis, and a judgment older than the statement that is shown.
- *Formatter*: what may stand in a select list, a condition and at the end, each
  with each, with subqueries kept on a line and formatted ones, and the limit of
  the depth at one.
- *Connections*: one database of each kind of driver (`BDP` has a connection that
  is not replaced, `TEST` one that is), two changes of the systems, two starts,
  the second of which meets the file of the first.
- *LlmClient*: every provider and model family, a limit below and one above the
  cap of reasoning models, answers of three pieces.
- *List of sessions*: three sessions in pages of one, two questions: a session
  that is new, one that moves to a page already read, one that waits.
- *Snapshots*: five turns on up to three older ones with a limit of two: turns
  are trimmed, lack a part, or are newer than what was restored.
- *Cache*: two sessions with two places, one of which has two connections, whose
  answers may overtake each other; four turns. A full cache gives up its first key
  whoever is stored, so that a session displaces the other one's result although
  both have a place.
- *Tracker*: four chains and two runs: a node in a node in a run and in the one
  that resumes it, or the same node twice. Only one of two nodes has a label.
- *Index*: two rows, two changes and two runs in batches of one and two: a row
  that changes under a run, and a second run that meets the first one's remains.

What the runs show for these values the theorems below show for all of them.

Deadlock is checked except in `MCRecords`, whose modules really stop: a bound of
theirs (steps, turns, runs, clock) is used up and nothing is left to do. In the
other instances a turn that has stopped stutters (`Finished`, `Left`, `Ended`), a
session can always be cancelled, and the runs of `MessageStore` stutter when all
are done, so any other state without a step would be reported.

Every property of a passing run has a mutant in `PROJECT.json`: a definition
replaced by a variant with one plausible slip (a dropped check, an order
swapped, a reset forgotten), under which the property fails. The variants stand
above the definitions they vary, with a name that says what is wrong
(`..._Without...`, `..._OffByOne`, `..._Keeps`, `..._First`); no action uses them.

### Fairness

`ReasoningLoop` assumes `WF_vars(GraphStep)`: LangGraph runs the next node as
long as there is one, and every LLM or database call of a node has a time-out,
so a superstep ends. `Interpret` (`FairSpec`) and `Present` assume the same of
their nodes (`WF_vars(Step)`), and `Delivery` of the endpoint (`WF_vars(Serve)`):
a pipeline returns or raises, and a send returns or raises. Nothing is assumed
of the user: no fairness for answers, messages, cancellations, disconnections or
reconnections; `EveryPartMovesOn` allows a question that is never answered.
`CircuitBreaker` assumes `WF_vars(Tick)`, time passes; providers may hang and
nobody has to call, so `OpenIsLeft` has the premise that calls keep coming. The
other modules state safety only and assume no fairness.

## 4. Proofs

`ReasoningLoop_proofs` proves, for every value of the constants allowed by
`LimitsAssumption`, `SystemsAssumption`, `SqlAssumption` and
`SwitchesAssumption`:

| Theorem | Says |
|---|---|
| `Invariance` | `Spec => []IInv` |
| `TypeCorrect` | `[]TypeOK`: counters never pass their limits |
| `OnlyValidatedSqlRuns` | `[]ExecutedSqlIsValidated` |
| `GenerationFollowsSelection` | `[]TargetFollowsSelection` |
| `ExplorationHasBudget`, `LeftoversNeedToolLimit`, `LocalFixesHaveBudget`, `GenerationsHaveBudget` | the four budget invariants |
| `ControlHolds` | `[]ControlInv`, what else the nodes rely on |
| `FailureStays` | `[]FailureIsFinal` |
| `RegenerateFixesFirst` | `[]RegenerateRecoversAfterLocalFixes` |
| `CancelStopsWork` | `NoWorkAfterCancel`, if the cancel store is reliable |

`IInv` is the conjunction of the type invariant, the safety invariants and
`ControlInv`. The safety invariants alone are not inductive. For instance
`ExecutedSqlIsValidated` speaks of `sql_executor` only; the step into it is
`result_finalizer`, which trusts `validated_sql`, so `ValidatedInv` carries the
validator's decision (same SQL, same database, no failure) from the step that
made it. `LayerThreeInv` does the same across the cut inside `sql_validator`.
`LeftoverInv` carries the rest of the plan past the nodes that do not look at
it; `StatusInv` and `SignalInv` rule out states the edges would misroute;
`ExploringInv` and `PreparerInv` say what a new exploration starts from, which
`RegenerateRecoversAfterLocalFixes` and `LocalFixWithinBudget` need. The proof
that a step keeps `IInv` has one lemma per action. `CancelStopsWork` rests on
an invariant of its own: with a reliable store a CANCELLED status implies that
the flag is still set, so every later wrapper skips its body.

The same module proves the refinement of `ReasonTurn`: `ImplementsContract` is
`Spec => ContractKept`. Initial states map to initial states, and under `IInv`
and `QuestionInv` (an open question leads to `clarification_handler` or out of
the turn, never back to a node whose edge would ask it a second time) each action
maps to one step of `TurnContract` or to none. The steps of the validator
and the finalizer carry the argument: `validated_sql` is set once, and what the
executor presents is that SQL on the database of `target_db`, which `IInv` knows
to be the one it was checked on.

`CircuitBreaker_proofs` proves `TypeCorrect`, `StateMatchesCount`
(`OpenIffThresholdReached`) and `OpenKeepsCallsOut` (`OpenAdmitsNobody`: while the
breaker is OPEN only calls from before are at the provider) for any set of
calls, threshold, timeout and number of retries, from the three together, which
are inductive as they stand.

`SessionTurns_proofs` proves for any number of messages, both backends of each
store, and with or without overlapping runs:

| Theorem | Says |
|---|---|
| `Invariance`, `TypeCorrect` | `[]IInv`, `[]TypeOK` |
| `RegisterIsRight` | `[]NewestRunIsActive` |
| `GhostsNeedCrash` | `[]NoGhostIsActive` |
| `CancelHasScope` | `[]EarlierCancelSparesRun` |
| `AnswersReachTheirQuestion` | `[]MessageAnswersOpenQuestion` |

The register properties are inductive with `OrderInv` (runs start in order).
`EarlierCancelSparesRun` looks at stopped runs; what keeps it is `FlagInv`: a
flag that is up was raised after every pop, so a run past its pop that sees it
was hit. `MessageAnswersOpenQuestion` needs a description of the thread between
messages (`ThreadInv`): it stands at a node only while a run works on it, an
open question is where it waits, and a question that is no longer open is
withdrawn by a flag until a run takes it; and of a run between the pop and the
graph (`DecisionInv`), during which the user may still cancel.

`MessageStore_proofs` proves for any number of runs, limit and number of
failures:

| Theorem | Says |
|---|---|
| `Invariance`, `TypeCorrect` | `[]IInv`; `[]TypeOK`, with the limit of the buffer |
| `RowsAreOwn` | `[]ReturnedRowIsOwn`, under any overlap of runs |
| `Keeping`, `NothingIsLost` | `[]NothingLost`, while runs do not overlap |
| `Reading`, `HistoryReads` | `[]HistoryIsRead`, while runs do not overlap |

`ReturnedRowIsOwn` rests on `CallInv`: as long as a call has rows to write, its
last one is its own message, and when none is left `last_seq` is the row of
that message; the log only grows, so the row stays. `NothingLost` needs
`BatchInv`: a run that is alone has emptied the buffer when it writes, so what
it puts back replaces nothing. This is the invariant that overlapping runs
break.

`HistoryIsRead` compares rows that were written far apart, so its invariant `ReadInv`
says where every message may stand: while runs do not overlap, a run that has
started has none before it that is not done (`InTurn`); a reply comes after its
user message was saved (`UserFirst`); no message is ahead of the place its run has
come to (`SaidInv`); and the rows, the buffer and the batches are each in the order of
the conversation, with everything that still waits behind every row (`OrderInv`). A
save that fails puts its batch back in front of nothing, which `KeptInv` knows; a row
that is inserted is the head of a batch, behind all rows. The question of a restored
turn is the greatest user row below its answer; that there is a greatest one is the
lemma `LeastOfNat`, by well-founded induction over the sets of `seq`.

`Turn_proofs` proves of the layers of `TurnLayers`:

| Theorem | Says |
|---|---|
| `InterpretInvariance`, `InterpretTypes` | `[]InterpretInv`, `[]TypeOK` |
| `ReasonIsGivenQuery` | `[]ReasonHasQuery` |
| `AnswersReturn` | `ReturnsToAsker` |
| `PresentInvariance`, `AnswerComplete` | `P!Spec => []AnswerIsComplete` |
| `DeliveryInvariance`, `AnswerComesOnce` | `D!Spec => []AnsweredOnce` |

The first two properties (under `InterpretAssumption`: any limit of questions, any
kinds of ambiguity) need to know, of a turn that is orchestrated, that it has a
snapshot, that one without a query is not regenerated, and that all pending
signals come from one node. `AnswerIsComplete` is about the end of the layer; what
leads there is an invariant of the streamed call: the chunks are those of the
current attempt, at most as far as it has come (`FollowsAttempt`), what has been
told of a part is nothing, its opening, or its opening and its end (`OpenOrEnded`),
which node has opened which part (`OpenedByNode`), and at which node the result, the
analysis and the answer exist (`StreamedIsAnalysis`, `AnswerAtItsNode`).
`AnsweredOnce` is about the time between two turns; the invariant says at every `pc`
which messages a client that did not lose its socket has received, each once and
in which order (`Received`), and that the order never passes the place that `pc` has
reached.

`Services_proofs` proves of the modules of `Services`, each under its assumption on
the constants:

| Theorem | Says |
|---|---|
| `ValidationInvariance`, `OnlySafeSqlPasses` | `V!Spec => []OnlyRunSqlPasses` |
| `NormalizerInvariance`, `QueryKeepsPromises` | `N!Spec => []NormalizedQueryHolds` |
| `InsightInvariance`, `AccountsOfTurn` | `I!Spec => []AccountsAreTrue` |
| `ConnectionsInvariance`, `ProcessReleases` | `K!Spec => []ConnectionsHold` |
| `LlmInvariance`, `LlmCallsHold` | `L!Spec => []LlmCallHolds` |

- *Validation*: the property speaks of the end, the layers come before it. A
  statement at the trial run has passed Layer 1 (`Layer1Passed`, with
  `PassedIsSafe` about its checks), its trial has an outcome that the verdict
  allows (`TrialHasOutcome`), and budgets are not passed (`FixesLeft`).
- *Normalizer*: at each place of the node the data is one answer of the LLM after the
  checks of its phase (`DataIsOfAnswer`), and at the end after `Postprocess` as well
  (`ResultIsOfData`). What the repairs achieve is then a matter of operators: each
  `_post_...` function establishes its slot and the later ones leave it, for any sets
  of texts, stop words and slots. What the LLM writes of an ambiguity is any decision or
  something `AmbiguitySignal` refuses; the repair adds one ambiguity at most, which
  is never refused, so the node raises only because of what the LLM wrote.
- *Insight*: steps are numbered without gaps (`StepsNumbered`), every explored table
  with a step was found by it (`StepsFound`), the step about to be run has found
  nothing yet (`LastStepOpen`), a hypothesis is failed just when it left a dead end
  (`DeadAreFailed`), only the current one is not (`OneIsActive`), and what a turn ends
  with was judged last (`SqlIsJudged`). The accounts are
  operators over these marks; that each is true follows from the marks alone.
- *Connections*: what may be open is bounded by the stage and, while closing, by what
  is left to do (`Released`); an alarm has a system that is down or was asked too late
  (`AnswersHaveCause`); the file is whole unless a writer died over it (`FileIsKnown`).
- *LlmClient* (under `LlmClientAssumption`: limits are numbers): that a request fits its
  model is a lemma about the three adapters (`AnthropicFits`, `OpenAiFits`, `IbkFits`).
  The two OpenAI requests are the same chain of merges over two beginnings that differ in
  the stream alone (`OpenAiIs`), and a merge keeps the agreement (`MergedAgree`). The
  invariant says what an answer has become where the call stands: the events given are
  the first ones of the answer, its whole text or nothing (`GivenFits`); what is told
  waits for the end but with the gateway, whose stream is told before its first event
  (`AccountFits`), so that its account is right only because its one event is never split
  and its stream never breaks.

`Records_proofs` proves, of `ResultCache` (under `CacheAssumption`), `CacheInvariance`, with the
limit of the cache and one entry per session, and `DownloadsAreNewest`
(`C!Spec => []DownloadIsNewest`), for any number of connections and sessions. What is
inductive is, of a session without a mishap: an entry is what was announced last
(`CachedAreAnnounced`), an answer without its rows is a mishap (`BareAreMishaps`), and
unless two answers met, the one on its way is that of the newest rows or these are
announced (`NewestIsDue`); that an update keeps one entry per session is a lemma about `Stored` of
`Evicted`.

The same module proves `IndexFollows` (`E!Spec => []IndexFollowsTable`) under
`ReembedAssumption`, for any rows, sizes of batches, changes and runs. What a
finished run promises is not inductive: it says nothing while a run is on. The
invariant `ReembedInv` adds what the run holds. A row is in one queue, once
(`OnceInHand`), an id is of one row in the table, the index and the queues alike
(`IdsApart`), a row is as it was read unless it moved on (`AsRead`), what was
written is in the index until a reconciliation comes by (`DoneIsWritten`), every
point has a row or will have one (`PointsAreKnown`), and whatever the cursor is to
pass is served or in hand (`WantedIsHandled`), while what it has passed stays
served (`PassedIsServed`). Each part is a predicate of a state of the run and of
the number of ids, not of the variables, because `Read` queues a row and
flushes the queue in one step: one lemma says that the queued state keeps the
parts (`QueueUp`, `QueueDown`, `PassOver`), another that a flush of any such
state does (`FlushUpsertKeeps`, `FlushDeleteKeeps`). That the saved cursor is a
time that exists needs the largest of a bounded set (`LatestTime`).

It proves `ShownIsReferred` (`T!Spec /\ X!Spec => []ShownAreOfReference`) as well, with a
theorem for each of the two modules. `SnapshotsHold` rests on the shape of the table
(`RowsInOrder`): turns follow one another, each begins with its question, and a row
that a snapshot is made from comes right after the question of its turn. Therefore
the order of the questions is the order of time (`RestoredHolds`), and the first
reference after a known question is the answer of its turn, now and after any row
that is added (`FindsItsTurn`, `AppendKeeps`, `RowsAreOfTurn`); a snapshot saved in
the process knows no question and finds nothing. `SessionListHolds` rests on
`UnreadAreAhead`: what stayed in the list and was not read has at least `next`
sessions before it. Nobody who stays falls behind, and who becomes active or comes
new only adds to those before (`AheadStays`), so that a page takes the next of them
or they come after it, and then the page was full. An archived session is the one
way to lose a place, and `left` says so.

It proves `TracesTell` (`R!Spec => []TraceTellsRun`) under `TrackerAssumption`. The
invariant `TrackerInv` says what the handler knows: the first of the chains that run is
the node's and the others are chains in it (`HandlerFollows`), so that only the last end
closes the visit. While a trace is written, the timer of a node that is visited names a
start which no end has closed (`TimersFollow`, `OpenAt`); whatever entry is added then
has an open parent or none, and the timeline stays one story (`StoryGrows`). A run that
resumes takes the numbers up from the last one (`LastSeqIsLast`), and a file that was
saved keeps what the trace held. For the report, the k-th start of a timeline belongs to
the k-th node of the path and, but for the open visit, to the k-th record
(`VisitsFollow`, `LastIsOpen`); the walk of `_render_gantt` over the records, which looks
for the next record of a node, then always stops at the first one (`BarsAreVisits`). This
needs no induction over the path: the least visit at which the walk went astray
contradicts the step before it. The messages to the client alternate because a message
is sent exactly where a visit begins or ends (`ScreenFollows`), traced or not.

`Knowledge_proofs` (under `KnowledgeAssumption`) proves `FindingsAreKept`
(`FindingsReachState`) for any plan, budget, tables, use cases and answers of the
LLM. The argument is `NothingIsLost`: what was found is known, or a step of the
plan that is DONE still holds it. A step that ends adds to `found` what it then
holds, the steps beside it do not touch it (`OneStepKeeps`), `recovery_agent`
only appends, and `context_interpreter` takes in all that is held
(`HydratedKnows`) and forgets none of it when it judges (`JudgingKeeps`) before
it clears the raw results.

The same module proves the action property `LearnedStays` (`KnowledgeOnlyGrows`).
Only `context_interpreter` changes items, so the step to look at is one operator
applied after the other: loading adds, judging leaves what has a verdict, and items
only rise in rank (`InterpretItems`, `InterpretTables`, `InterpretTerms`). What the step needs to know of its state is
that items have ranks and terms a verdict (`ItemsOK`, `TermsOK`).

Only model-checked:

- the liveness properties (`LoopGuardEndsTurn`, `FixLoopIsLeft`,
  `CancelledOutsideFixLoopEnds`, `OpenIsLeft`, `EveryPartMovesOn`), which are out of
  reach for TLAPS;
- `CutsDoNotMatter` and `PlainIsKept`, which are about recursive operators over texts
  and trees: what these compute for every input would need induction over data;
- `SearchesGoOn`, which is about folds, sorts and filters of sequences, of which the
  provers know nothing without such an induction.

## 5. Where the code and its own documentation disagree

Five of these are runs that TLC ends with a counterexample; `findings` in
`PROJECT.json` quotes the lines.

1. `cancel_v`: a turn cancelled while a local fix is pending is sent round
   `sql_generator` and `sql_validator` without end; both bodies are skipped, so
   nothing changes what the edges read.
2. `resume_v`: after a node raised, the thread still has a next node, which
   `_check_interrupt` takes for an interrupt: the next message is passed as an
   answer nobody asked for, and its text is never read.
3. `restored_v`: the runner stores `str()` of the intent, an enum, which the
   restoring side cannot read back: a fresh connection never has a snapshot, so
   that a first "show me that again" is not orchestrated.
4. `format_v`: the formatter loses what follows a subquery that a comparison begins
   with (`WHERE (SELECT ... JOIN ...) = b` loses `= b`), and its output is stored
   as the SQL that was run. `PlainIsKept` says which statements are safe, and holds.
5. `codes_v`: looking up the codes of a column passes the column as a query that the
   search ignores; the first page of all codes is taken for those of the column.

What follows was met while the modules were written. Most of it is what a model
does when a premise of a property is dropped (the premises say so where they
stand); none has a run of its own, because the repository promises nothing to
the contrary or because the run would only repeat a line.

*Loop.* With `MAX_GENERATES` 0 a forced generation that keeps failing
structurally after MAX_REPLANS goes round `recovery_agent` without end, counted
by nothing. `recovery_agent` clears `target_db` and may force a generation
without a new routing decision; with several connectors the run aborts. Replans
are not counted after an answer of the user, and skipped steps cost no tool
call. The reset of `local_fix_count` (`recovery_agent.py:402-406`) is unreachable,
since hypotheses are never PENDING; so is the verdict `explore`.
`recovery_entry_source` may name an earlier failing node.

*Scores.* "All critical items confirmed guarantees 0.70" (`confidence_scorer.py:16`)
fails for a query without critical items, which scores 0.0 for its terms.

*Knowledge.* A failed look-up of an enrichment records its key all the same, and
so does one whose result is discarded; later steps for that table are skipped.
The check for executed keys is made with the unqualified name, so one tool may
run twice. A use case judged relevant in a later round has lost its enrichment.
`discovered_facts` are appended again in each round. The promotion by keys
`table:` never finds one. A failed SQL of a use case counts as fetched.

*Interpret.* The questions of `query_normalizer` are not limited.
FORMULA ambiguities are inferred past their guardrail. `analysis_query` is
overwritten. `_validate_enum` corrects the case of a value, but only the intent is
stored back, so that a lower-case `none` or `group` slips past
`_post_aggregate_fix`. `expected_columns` are lost if `search_keywords` is missing.
A failure of the second phase loses the first; a slot that is null fails the whole
normalization. An ambiguity of a SUM without `decision` is inferred and never
asked. The trace names `reasoning_preparer` as the next node although the turn
asks. A cancelled turn runs `continue_orchestrator`, which has no wrapper.

*Validation.* A verdict FAIL without a failed check passes. Prose without a code
block is taken for SQL (and then rejected by the check of its start). Layer 1 allows
tables with status REFERENCE. "Delegate what does not parse to Layer 3" is
unreachable, the safety check parses first. `_infer_trace_routing` and the trace of
`sql_generator` do not look at REGENERATE.

*Formatting.* `_render_comparison_subquery` loses what follows the subquery,
`_emit_comparison_left` what is no identifier or function before it. A line comment
swallows what the layout puts behind it. `_post_process` collapses blanks inside
literals. `UNION DISTINCT` and `EXCEPT ALL` may lose the blank between their words.
`restore_from_db` reads the stored text back as `generated_sql`
(`turn_snapshot_store.py:375`), from where it could be run again; `restored_v` keeps
that path closed for now.

*Accounts.* `validation_checks` are set on a PASS of Layer 2b only, summary and score
on a FAIL too, and none is cleared. After an answered question later verdicts
change no hypothesis, so several show the SQL; after a forced generation none
does. Tables that are PENDING or REFERENCE are shown as rejected, manuals and
terms that are PENDING in neither group; tables that an enrichment found belong to
no step. Validator, `insight_builder` and the summary count a verdict other than
PASS and FAIL in three ways, and compare table names with and without regard to case. The
nodes of `add_trace` have Korean labels, so the English keys of `node_label_map`
never match.

*Present.* An error of the analyser still ends FORMATTED. A cancelled layer
gives an empty answer. `turn_reset` clears the `streaming_enabled` the caller
has set. A NULL in the rows of a chart template raises (`float(None)`,
`chart_generator.py:395`). The warning of a forced generation does not reach a
streamed client.

*LLM client.* HALF_OPEN lets every call through, not one trial. The late answer
of an old call closes an OPEN breaker. `create()` strips thoughts by a regular
expression, which leaves an unclosed tag in place, where the streaming filter hides
it. `llm_call_with_parse_retry` does not put the node name back when the call
itself raises, its streaming twin does. A stream its reader has left is told
(LLM_CALL) only when its generator is collected, under whatever node is current
then. Anthropic gets an empty `system` as well, and a temperature with thinking;
a thinking budget of `max_tokens` or more is not prevented. The header of `client.py` lists a
thinking mode `auto` that `ThinkingMode` does not have.

*Session and messages.* A rejected input uses up the cancel flag
(`runner.py:218`), so that the message after it resumes the turn the user had
cancelled. A user message whose early save failed waits in the buffer and is
saved again after the graph: it appears twice. REDISPLAY turns are not saved
with their rows. Snapshots restored without sequence numbers lose their order.
A checkpoint can be overwritten by a second run of the session. Two runs that save
at the same time replace each other's buffer (`message_store.py:155`).

*List of sessions.* `03_dc_custom_tables.sql:181` says that `last_active` is renewed
when a message is saved; it is when a question arrives, and not by the answer. An
archived session that is continued stays hidden. A failed upsert hides a session
until its next question. `COUNT` and `SELECT` are two transactions. In
`static/embedded.html` a new session is put in front of the list without moving the offset of
"more", which then shows one session twice and misses the last; a deletion makes it skip
one. Opening a session before its upsert gives 404 and drops it from the side bar.

*Front end.* `main.py:816` speaks of the latest SQL result of each session, and
`download_data` of the latest query: when two connections of a session overlap, the
older rows may be stored last, and a turn of `/api/query` stores none. The "oldest
entry" that a full cache gives up (`main.py:829`) is the oldest key, whose result may
be the newest. A turn without rows still announces a download, of an older result
or of none. The progress map says `clarify`, the node is `clarification_handler`.

*Tracking.* What a resumed run restores of its trace leaves out retrievals,
decisions, SQL and node records, which makes the report raise a CRITICAL alarm
and draw wrong durations. A failed save makes the resumption read the file of an
older turn. The name `recovery_planner` is of an earlier release, so replans are
never counted. Two files may share the name `_0000`.

*Index.* The cursor is compared as text with a TIMESTAMP. The runbook
(`docs/guides/closed-network-runbook.md`, sections 9-4 and 9-5) starts the daily
batch at 02:00 and the weekly reconciliation at 03:00, independently of each
other and without a lock: the reconciliation may delete points that are not yet
written back. With `--limit` rows of the same time as the last are passed over,
and rows that are committed late are missed until `--full`. The write-back of
generated descriptions overwrites edits made meanwhile. `--no-upsert` writes ids
and advances the cursor all the same; `--resume-from` is not used. In direct mode
a row whose description was removed keeps its old point.

*Tools.* `get_date_distribution` takes the 30 earliest dates, so the "latest ten" the
prompt promises (`recovery_agent_system.txt:92`) are not the latest of a longer column;
`DatesAreOfColumn` says what holds. The rows of one term have no order among pages.
A page past the fifth returns the fifth again; manuals and use cases ignore the
page. The keyword of `get_column_values` ends at a comma. A date that is NULL and the
bounds of an empty column become the text `None`. `LIMIT` and `CAST AS TEXT` are sent to Oracle
too.

*Search.* The reranker, when switched off, gives scores of 0.0. The
`score` of manuals and use cases is never set, so the order of the search is
lost. A manual without text is returned again and again; one manual may be
loaded twice in a batch.

*Connectors.* A business database that failed at start-up is left out for good.
After a partial failure a second `connect_all`, which calls itself idempotent, opens
MongoDB again and skips the models. A pool that fails while it is opened is not
closed; a close that raises leaves what comes after it open. ADW and BDP hold one
DB-API connection, which several threads use at once and nobody replaces: when it is
lost `/health/ready` answers 503 until a restart. A ping that hangs keeps its thread
of the executor. `quantize_dynamic` writes `model.onnx` itself; a process that ends
meanwhile leaves a part of it, which every later start takes for the whole and
fails. `disconnect` blocks the event loop (`shutdown(wait=True)`), and the postgres
connector keeps a disposed engine. Comments speak of one worker
(`qdrant_connector.py:107-109`); the default of the setting is two.

## 6. Not modelled, and why

*Text*: prompts, the wording of answers and plans, the layout of tables, how sqlglot
and sqlparse take a statement apart, the drawing of charts, the numbers of
statistics. They have no state and no order of steps; where control or a
property depends on their verdict it is a choice, or a field of a record.

*Data*: `seed_*` tools, `dummy_data` and the generators fill test systems from
tables of literals. They are a fifth of the implementation and hold no logic to
check. `visualizer` renders; `Tracker` keeps what it reads.

*Drivers*: the connectors pass a query to a library and return what it returns.
What they open and close is `Connections`.

*Settings*: the limits and switches are CONSTANTS.

So the definitions of the modules stand for about 30 % of the lines of Python, and
for most of the lines that move the state of a turn, a session, a trace or the
index.

Of modelled components these parts are left out: ratings and downloads of a
message and deletion (one statement each); facts, confidence values and observed
rows of the knowledge; how a plan or a prompt is worded; the options of the batch
job other than those of the nightly and weekly call; the use of one connection by
several threads; flows, state snapshots and log files of the trace.

Every hazard listed but one is watched by a property, some only under a premise. The one
is a file that a process left half written when it ended (`reranker.py:595`): the code does
nothing about it, and `CachedModelIsWhole` only says that there is no other cause. What the
premises leave out: two overlapping runs of one session that both put back a buffer
(messages are lost then, and `NothingLost` is stated for runs that do not overlap);
replans after an answer (`LoopGuardEndsTurn` leaves them out, because TLC found them
to go on); the questions of `query_normalizer`, which have no limit (`EveryPartMovesOn`
supposes one). Keys of failed look-ups (`context_retriever.py:366`) are in the model, but
nothing promises that a failed look-up is tried again.

## 7. Plan

What is left, in order of weight:

1. Overlapping runs in `MessageStore`: what exactly may be lost, as a property
   with the overlap as its premise, and two answers that reach one question.
2. A refinement of the verdicts of `ReasoningLoop` by those of `Validation`, and the
   code columns and facts of `Knowledge` joined to the pages of `Tools`.
3. `--limit` and `--since` of the batch job, with ties of the cursor.
4. A refinement of the turn as `SessionTurns` sees it by `ReasoningLoop` between
   `Interpret` and `Present`.
