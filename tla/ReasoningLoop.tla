--------------------------- MODULE ReasoningLoop ---------------------------
(***************************************************************************)
(* One turn of the reason layer of Data Copilot: the LangGraph loop         *)
(*                                                                         *)
(*   reasoning_preparer -> context_retriever -> context_interpreter        *)
(*     -> readiness_gate -> sql_generator -> sql_validator                 *)
(*     -> recovery_agent -> ... -> result_finalizer -> sql_executor        *)
(*                                                                         *)
(* with the loop counters of LoopGuard, the clarification interrupt, the   *)
(* failure types that drive the routing and the cancel flag that a user    *)
(* may raise at any moment.                                                 *)
(*                                                                         *)
(* `node' is the node LangGraph will run next.  An action is one superstep *)
(* of the graph: the wrapper of the node (with_cancel_check), its body,    *)
(* and the conditional edge that chooses the next node, evaluated on the   *)
(* updated state (hence RouteAfter...').                                   *)
(*                                                                         *)
(* What an LLM or a database answers is a choice.  Of the explored         *)
(* knowledge only what the control reads is kept: the readiness band,      *)
(* whether a table was explored, and the systems of the SELECTED tables.   *)
(*                                                                         *)
(* An operator whose name ends in "_Without...", "_OffByOne" or "_Early"   *)
(* is a variant of the definition after it with one plausible slip.  No    *)
(* action uses it: it shows that a property depends on that definition.    *)
(***************************************************************************)
EXTENDS Naturals, FiniteSets

CONSTANTS
    MaxToolCalls,       \* MAX_TOOL_CALLS
    MaxReplans,         \* MAX_REPLANS
    MaxGenerates,       \* MAX_GENERATES, 0 for no limit
    MaxLocalFixes,      \* MAX_LOCAL_FIXES
    MaxAskUserRounds,   \* MAX_ASK_USER_ROUNDS
    ForceAfterReplans,  \* settings.force_generate_after_replans
    MaxPlanSteps,       \* bound: steps of one execution plan
    Systems,            \* system codes of the business databases
    Connectors,         \* the systems that have a registered connector
    TargetDbCode,       \* settings.target_db_code, NoDb when empty
    NoDb,               \* the empty system code
    Sqls,               \* SQL texts the generator may write
    NoSql,              \* None
    Layer2bEnabled,     \* settings.validate_layer2b_enabled
    CancelStoreMayFail  \* TRUE: a look-up of the cancel flag may miss it

ASSUME LimitsAssumption ==
    /\ MaxToolCalls \in Nat \ {0}
    /\ MaxReplans \in Nat \ {0}
    /\ MaxGenerates \in Nat
    /\ MaxLocalFixes \in Nat
    /\ MaxAskUserRounds \in Nat
    /\ ForceAfterReplans \in Nat
    /\ MaxPlanSteps \in Nat
ASSUME SystemsAssumption ==
    /\ Connectors \subseteq Systems
    /\ NoDb \notin Systems
    /\ TargetDbCode \in Systems \cup {NoDb}
ASSUME SqlAssumption == NoSql \notin Sqls
ASSUME SwitchesAssumption ==
    Layer2bEnabled \in BOOLEAN /\ CancelStoreMayFail \in BOOLEAN

VARIABLES
    node,             \* the node that runs next
    status,           \* PipelineState.status
    route,            \* PipelineState.route: "REGENERATE" or "NONE"
    cancelFlag,       \* the cancel store holds a flag that matches this turn
    pendingSignal,    \* pending_signals holds the question of recovery_agent
    answered,         \* resolved_signals holds an answer to recovery_agent
    phase,            \* reason.phase
    failureType,      \* reason.failure_type
    finalStatus,      \* reason.final_status
    hypothesis,       \* reason.current_hypothesis: "ACTIVE" or "NONE"
    pendingHyps,      \* number of PENDING entries of reason.hypotheses
    pendingSteps,     \* number of PENDING steps of reason.execution_plan
    readiness,        \* band of calculate_readiness / all_critical_confirmed
    explored,         \* reason.explored_tables is not empty
    selected,         \* systems of the SELECTED tables
    explorationPhase, \* reason.exploration_phase
    entrySource,      \* reason.recovery_entry_source
    isForceGenerated, \* reason.is_force_generated
    targetDb,         \* reason.target_db
    generatedSql,     \* reason.generated_sql
    validatedSql,     \* reason.validated_sql
    layer3,           \* result of Layer 3 while Layer 2b is awaited
    checkedDb,        \* database Layer 3 ran the SQL on (history variable)
    loopGuard         \* reason.loop_guard

signalVars  == <<pendingSignal, answered>>
hypVars     == <<hypothesis, pendingHyps>>
contextVars == <<readiness, explored, selected>>
recoveryVars == <<explorationPhase, entrySource, isForceGenerated>>
sqlVars     == <<generatedSql, validatedSql, layer3, checkedDb>>
planVars    == <<hypVars, pendingSteps, contextVars, recoveryVars, targetDb>>
reasonVars  == <<phase, failureType, finalStatus, planVars, sqlVars, loopGuard>>
vars == <<node, status, route, cancelFlag, signalVars, reasonVars>>

Terminal == {"present", "end", "aborted", "abandoned"}

\* The nodes that build_pipeline wraps with with_cancel_check.
CancelChecked ==
    {"context_retriever", "context_interpreter", "readiness_gate",
     "sql_generator", "sql_validator", "recovery_agent", "sql_executor"}

Nodes ==
    CancelChecked \cup Terminal \cup
    {"reasoning_preparer", "layer2b", "clarification_handler",
     "awaiting_answer", "result_finalizer", "error_end"}

LocalFixable == {"SQL_SYNTAX", "SQL_SEMANTIC_LOCAL"}
FailureTypes ==
    LocalFixable \cup
    {"NONE", "SQL_STRUCTURAL", "EMPTY_RESULT", "DB_ERROR", "NO_KNOWLEDGE",
     "NO_TABLE", "TERM_UNRESOLVABLE", "GENERATION_FAILED"}

(***************************************************************************)
(* The counters of LoopGuard are only compared with their limits, with >=, *)
(* so each one stops at the largest limit it is compared with.             *)
(***************************************************************************)
Bump(count, cap) == IF count < cap THEN count + 1 ELSE count

ReplanCap == IF ForceAfterReplans > MaxReplans THEN ForceAfterReplans
                                               ELSE MaxReplans

LoopGuards ==
    [toolCalls : 0..MaxToolCalls, replans : 0..ReplanCap,
     generates : 0..MaxGenerates, localFixes : 0..MaxLocalFixes,
     asks : 0..MaxAskUserRounds]

GenerateLimitReached(guard) ==
    MaxGenerates > 0 /\ guard.generates >= MaxGenerates

ShouldEscalateToStructural(guard) == guard.localFixes >= MaxLocalFixes

ShouldTerminate_WithoutReplans(guard, final, hyp, pending) ==
    \/ guard.toolCalls >= MaxToolCalls
    \/ GenerateLimitReached(guard)
    \/ final = "FAILURE"
    \/ pending = 0 /\ hyp = "NONE"

ShouldTerminate(guard, final, hyp, pending) ==
    \/ guard.toolCalls >= MaxToolCalls
    \/ guard.replans >= MaxReplans
    \/ GenerateLimitReached(guard)
    \/ final = "FAILURE"
    \/ pending = 0 /\ hyp = "NONE"

(***************************************************************************)
(* calculate_readiness and all_critical_confirmed, as the three bands that *)
(* the thresholds 0.65 and 0.55 cut:                                       *)
(*   "ready": score >= 0.65 and every critical item is resolved            *)
(*   "force": score >= 0.55 otherwise;  "low": score < 0.55                *)
(***************************************************************************)
Bands == {"low", "force", "ready"}
ReadyToGenerate == readiness = "ready"
ReadyToForce    == readiness \in {"force", "ready"}

\* resolve_target_db: the forced system, or the one system of the SELECTED
\* tables; NoDb stands for NO_SELECTION and AMBIGUOUS.
ResolveTargetDb(systems) ==
    IF TargetDbCode # NoDb THEN TargetDbCode
    ELSE IF \E s \in systems : systems = {s}
         THEN CHOOSE s \in systems : systems = {s}
         ELSE NoDb

\* ConnectorManager.get_query_db: the connector of the system, or the only
\* connector there is; NoDb stands for the RuntimeError it raises.
QueryDb(system) ==
    IF system \in Connectors THEN system
    ELSE IF \E c \in Connectors : Connectors = {c}
         THEN CHOOSE c \in Connectors : Connectors = {c}
         ELSE NoDb

-----------------------------------------------------------------------------
(* The conditional edges of build_pipeline, as functions of the state.      *)

RouteAfterReadinessGate ==
    IF status = "CANCELLED" THEN "result_finalizer"
    ELSE IF pendingSignal THEN "clarification_handler"
    ELSE CASE phase = "EXPLORING"  -> "context_retriever"
           [] phase = "GENERATING" -> "sql_generator"
           [] phase = "REPLANNING" -> "recovery_agent"
           [] OTHER                -> "result_finalizer"

RouteAfterSqlGenerator ==
    IF failureType = "GENERATION_FAILED"
    THEN IF isForceGenerated \/ route = "REGENERATE"
         THEN "result_finalizer" ELSE "recovery_agent"
    ELSE IF pendingSignal THEN "clarification_handler" ELSE "sql_validator"

RouteAfterSqlValidator_WithoutRegenerate ==
    IF failureType = "NONE" THEN "result_finalizer"
    ELSE IF failureType \in LocalFixable
    THEN IF ShouldEscalateToStructural(loopGuard) THEN "recovery_agent"
         ELSE IF GenerateLimitReached(loopGuard) THEN "result_finalizer"
         ELSE "sql_generator"
    ELSE "recovery_agent"

RouteAfterSqlValidator_WithoutGenerateLimit ==
    IF failureType = "NONE" THEN "result_finalizer"
    ELSE IF failureType \in LocalFixable
    THEN IF ShouldEscalateToStructural(loopGuard) THEN "recovery_agent"
         ELSE "sql_generator"
    ELSE IF route = "REGENERATE" THEN "result_finalizer" ELSE "recovery_agent"

RouteAfterSqlValidator ==
    IF failureType = "NONE" THEN "result_finalizer"
    ELSE IF failureType \in LocalFixable
    THEN IF ShouldEscalateToStructural(loopGuard) THEN "recovery_agent"
         ELSE IF GenerateLimitReached(loopGuard) THEN "result_finalizer"
         ELSE "sql_generator"
    ELSE IF route = "REGENERATE" THEN "result_finalizer" ELSE "recovery_agent"

RouteAfterRecoveryAgent_WithoutCancel ==
    IF pendingSignal THEN "clarification_handler"
    ELSE CASE phase = "EXPLORING"  -> "context_retriever"
           [] phase = "GENERATING" -> "sql_generator"
           [] OTHER                -> "result_finalizer"

RouteAfterRecoveryAgent ==
    IF status = "CANCELLED" THEN "result_finalizer"
    ELSE IF pendingSignal THEN "clarification_handler"
    ELSE CASE phase = "EXPLORING"  -> "context_retriever"
           [] phase = "GENERATING" -> "sql_generator"
           [] OTHER                -> "result_finalizer"

RouteAfterResultFinalizer_WithoutStatus ==
    IF validatedSql = NoSql THEN "error_end" ELSE "sql_executor"

\* error_message is set exactly when the status is CANCELLED or ERROR.
RouteAfterResultFinalizer ==
    IF status \in {"CANCELLED", "ERROR"} \/ validatedSql = NoSql
    THEN "error_end" ELSE "sql_executor"

RouteAfterExecution ==
    IF status \in {"CANCELLED", "ERROR"} THEN "error_end" ELSE "present"

RouteAfter(n) ==
    CASE n = "context_retriever"   -> "context_interpreter"
      [] n = "context_interpreter" -> "readiness_gate"
      [] n = "readiness_gate"      -> RouteAfterReadinessGate
      [] n = "sql_generator"       -> RouteAfterSqlGenerator
      [] n = "sql_validator"       -> RouteAfterSqlValidator
      [] n = "recovery_agent"      -> RouteAfterRecoveryAgent
      [] n = "sql_executor"        -> RouteAfterExecution
      [] OTHER                     -> "error_end"

-----------------------------------------------------------------------------
(* The reason layer is entered by reasoning_preparer with a fresh           *)
(* ReasoningState, or at sql_generator by continue_orchestrator, which has  *)
(* restored the snapshot of the previous turn (route REGENERATE).           *)

FreshGuard ==
    [toolCalls |-> 0, replans |-> 0, generates |-> 0, localFixes |-> 0,
     asks |-> 0]

FreshEntry ==
    /\ node = "reasoning_preparer" /\ route = "NONE"
    /\ readiness = "low" /\ explored = FALSE /\ selected = {}
    /\ targetDb = NoDb

RegenerateEntry ==
    /\ node = "sql_generator" /\ route = "REGENERATE"
    /\ readiness \in Bands
    /\ selected \in SUBSET Systems /\ explored = (selected # {})
    /\ targetDb = ResolveTargetDb(selected) /\ targetDb # NoDb

Init ==
    /\ FreshEntry \/ RegenerateEntry
    /\ status = "PENDING" /\ cancelFlag = FALSE
    /\ pendingSignal = FALSE /\ answered = FALSE
    /\ phase = "PLANNING" /\ failureType = "NONE" /\ finalStatus = "PENDING"
    /\ hypothesis = "NONE" /\ pendingHyps = 0 /\ pendingSteps = 0
    /\ explorationPhase = "initial" /\ entrySource = "NONE"
    /\ isForceGenerated = FALSE
    /\ generatedSql = NoSql /\ validatedSql = NoSql
    /\ layer3 = "NONE" /\ checkedDb = NoDb
    /\ loopGuard = FreshGuard

-----------------------------------------------------------------------------
(* with_cancel_check                                                        *)

\* The wrapper saw the flag: the body does not run, only status (and
\* error_message) are returned, and the edge after the node is still taken.
CancelledAtEntry ==
    \E n \in CancelChecked :
        /\ node = n
        /\ cancelFlag
        /\ status' = "CANCELLED"
        /\ UNCHANGED <<route, cancelFlag, signalVars, reasonVars>>
        /\ node' = RouteAfter(n)'

Runs_WithoutCancelCheck(n) == node = n

\* The wrapper let the body of node n run.  check_cancel answers FALSE when
\* the store raises, so a store that may fail may miss the flag.
Runs(n) == node = n /\ (cancelFlag => CancelStoreMayFail)

-----------------------------------------------------------------------------
(* The nodes                                                                *)

ReasoningPreparer ==
    /\ node = "reasoning_preparer"
    /\ hypothesis' = "ACTIVE" /\ pendingHyps' = 0
    /\ pendingSteps' \in 0..MaxPlanSteps
    /\ explorationPhase' = "initial" /\ entrySource' = "NONE"
    /\ isForceGenerated' = FALSE
    /\ phase' = "EXPLORING"
    /\ node' = "context_retriever"
    /\ UNCHANGED <<status, route, cancelFlag, signalVars, failureType,
                   finalStatus, contextVars, targetDb, sqlVars, loopGuard>>

Executed_WithoutLimit(wanted, remaining) == wanted
Executed(wanted, remaining) == IF wanted < remaining THEN wanted ELSE remaining

\* Steps that repeat an executed call are SKIPPED and cost nothing; of the
\* others as many run, in parallel, as the limit of tool calls leaves, and
\* each counts one call whether it succeeds or fails.
ContextRetriever ==
    /\ Runs("context_retriever")
    /\ \E skipped \in 0..pendingSteps :
        LET wanted   == pendingSteps - skipped
            executed == Executed(wanted, MaxToolCalls - loopGuard.toolCalls)
        IN  /\ loopGuard' = [loopGuard EXCEPT !.toolCalls = @ + executed]
            /\ pendingSteps' = wanted - executed
    /\ phase' = "EXPLORING"
    /\ node' = "context_interpreter"
    /\ UNCHANGED <<status, route, cancelFlag, signalVars, failureType,
                   finalStatus, hypVars, contextVars, recoveryVars, targetDb,
                   sqlVars>>

\* The interpretation may move the readiness either way and may select or
\* reject any table; it never forgets an explored table.
ContextInterpreter ==
    /\ Runs("context_interpreter")
    /\ readiness' \in Bands
    /\ selected' \in SUBSET Systems
    /\ explored' \in {TRUE, explored}
    /\ (selected' # {}) => explored'
    /\ node' = "readiness_gate"
    /\ UNCHANGED <<status, route, cancelFlag, signalVars, phase, failureType,
                   finalStatus, hypVars, pendingSteps, recoveryVars, targetDb,
                   sqlVars, loopGuard>>

\* evaluate_readiness followed by _apply_force_generate.
Verdict ==
    LET evaluated ==
            IF ShouldTerminate(loopGuard, finalStatus, hypothesis, pendingHyps)
            THEN "TERMINATE"
            ELSE IF ReadyToGenerate
                 THEN IF explored THEN "GENERATE" ELSE "REPLAN"
            ELSE IF pendingSteps > 0 THEN "EXPLORE" ELSE "REPLAN"
        forced ==
            /\ evaluated \in {"REPLAN", "TERMINATE"}
            /\ loopGuard.replans >= ForceAfterReplans
            /\ ReadyToForce
            /\ explored
    IN  IF forced THEN "GENERATE" ELSE evaluated

GatePhase_WithoutTarget ==
    CASE Verdict = "TERMINATE" -> "DONE"
      [] Verdict = "REPLAN"    -> "REPLANNING"
      [] Verdict = "EXPLORE"   ->
            IF pendingSteps > 0 /\ explorationPhase = "initial"
            THEN "EXPLORING" ELSE "REPLANNING"
      [] Verdict = "GENERATE"  -> "GENERATING"

\* _finalize_phase: EXPLORE is kept only for the initial exploration, and
\* GENERATE only when one target system can be decided.
GatePhase ==
    CASE Verdict = "TERMINATE" -> "DONE"
      [] Verdict = "REPLAN"    -> "REPLANNING"
      [] Verdict = "EXPLORE"   ->
            IF pendingSteps > 0 /\ explorationPhase = "initial"
            THEN "EXPLORING" ELSE "REPLANNING"
      [] Verdict = "GENERATE"  ->
            IF ResolveTargetDb(selected) = NoDb
            THEN "REPLANNING" ELSE "GENERATING"

\* _set_failure_context: no SELECTED table, no knowledge item, or terms that
\* stay unresolved.
FailureContext ==
    IF selected = {} THEN {"NO_TABLE"}
    ELSE IF readiness = "low" THEN {"NO_KNOWLEDGE", "TERM_UNRESOLVABLE"}
    ELSE {"TERM_UNRESOLVABLE"}

ReadinessGate ==
    /\ Runs("readiness_gate")
    /\ phase' = GatePhase
    /\ targetDb' = IF Verdict = "GENERATE" THEN ResolveTargetDb(selected)
                                           ELSE targetDb
    /\ IF GatePhase = "REPLANNING"
       THEN /\ explorationPhase' = "recovery"
            /\ entrySource' = "readiness_gate"
            /\ IF Verdict = "GENERATE"
               THEN failureType' = "NO_TABLE"
               ELSE IF failureType = "NONE"
               THEN failureType' \in FailureContext
               ELSE UNCHANGED failureType
       ELSE UNCHANGED <<explorationPhase, entrySource, failureType>>
    /\ UNCHANGED <<status, route, cancelFlag, signalVars, finalStatus, hypVars,
                   pendingSteps, contextVars, isForceGenerated, sqlVars,
                   loopGuard>>
    /\ node' = RouteAfterReadinessGate'

\* get_query_db is called outside the try block: its RuntimeError leaves the
\* node, and with it the run.
SqlGenerator ==
    /\ Runs("sql_generator")
    /\ QueryDb(targetDb) # NoDb
    /\ phase' = "GENERATING"
    /\ \/ /\ generatedSql' \in Sqls
          /\ failureType' = "NONE"
          /\ loopGuard' = [loopGuard EXCEPT !.generates = Bump(@, MaxGenerates)]
          /\ UNCHANGED entrySource
       \/ /\ generatedSql' = NoSql
          /\ failureType' = "GENERATION_FAILED"
          /\ entrySource' = "sql_generator"
          /\ UNCHANGED loopGuard
    /\ UNCHANGED <<status, route, cancelFlag, signalVars, finalStatus, hypVars,
                   pendingSteps, contextVars, explorationPhase,
                   isForceGenerated, targetDb, validatedSql, layer3, checkedDb>>
    /\ node' = RouteAfterSqlGenerator'

SourceIfUnset == IF entrySource = "NONE" THEN "sql_validator" ELSE entrySource

LocalFailure_WithoutCount ==
    /\ failureType' = IF ShouldEscalateToStructural(loopGuard)
                      THEN "SQL_STRUCTURAL" ELSE "SQL_SEMANTIC_LOCAL"
    /\ UNCHANGED loopGuard
    /\ entrySource' = SourceIfUnset

\* _build_layer2a_failure, and _build_layer2b_failure for a local_fix
\* classification: a local fix while the budget lasts, structural after it.
LocalFailure ==
    /\ IF ShouldEscalateToStructural(loopGuard)
       THEN /\ failureType' = "SQL_STRUCTURAL"
            /\ UNCHANGED loopGuard
       ELSE /\ failureType' = "SQL_SEMANTIC_LOCAL"
            /\ loopGuard' =
                 [loopGuard EXCEPT !.localFixes = Bump(@, MaxLocalFixes)]
    /\ entrySource' = SourceIfUnset

Failure(type) ==
    /\ failureType' = type
    /\ entrySource' = SourceIfUnset
    /\ UNCHANGED loopGuard

ValidationPassed ==
    /\ validatedSql' = generatedSql
    /\ failureType' = "NONE"
    /\ UNCHANGED <<entrySource, loopGuard>>

ValidatorUnchanged ==
    UNCHANGED <<status, route, cancelFlag, signalVars, finalStatus, hypVars,
                pendingSteps, contextVars, explorationPhase, isForceGenerated,
                targetDb, generatedSql>>

\* "The SQL was not generated": no layer runs and no budget is spent.
ValidatorWithoutSql ==
    /\ Runs("sql_validator")
    /\ generatedSql = NoSql
    /\ phase' = "VALIDATING"
    /\ failureType' = "SQL_SYNTAX"
    /\ UNCHANGED <<validatedSql, layer3, checkedDb, entrySource, loopGuard>>
    /\ ValidatorUnchanged
    /\ node' = RouteAfterSqlValidator'

\* Layer 1 (rules) or Layer 2a (structure) rejects the SQL.
ValidatorRejectsByRule ==
    /\ Runs("sql_validator")
    /\ generatedSql # NoSql
    /\ QueryDb(targetDb) # NoDb
    /\ phase' = "VALIDATING"
    /\ \/ /\ failureType' = "SQL_SYNTAX"
          /\ loopGuard' =
               [loopGuard EXCEPT !.localFixes = Bump(@, MaxLocalFixes)]
          /\ UNCHANGED entrySource
       \/ LocalFailure
    /\ UNCHANGED <<validatedSql, layer3, checkedDb>>
    /\ ValidatorUnchanged
    /\ node' = RouteAfterSqlValidator'

\* Layer 3 runs the SQL on the target database.  With Layer 2b enabled the
\* node goes on after the await, see SemanticCheck.
ValidatorRunsSql ==
    /\ Runs("sql_validator")
    /\ generatedSql # NoSql
    /\ QueryDb(targetDb) # NoDb
    /\ checkedDb' = QueryDb(targetDb)
    /\ \E result \in {"PASS", "EMPTY_RESULT", "DB_ERROR"} :
        IF Layer2bEnabled
        THEN /\ layer3' = result
             /\ UNCHANGED <<phase, failureType, validatedSql, entrySource,
                            loopGuard>>
        ELSE /\ phase' = "VALIDATING"
             /\ IF result = "PASS" THEN ValidationPassed
                ELSE Failure(result) /\ UNCHANGED validatedSql
             /\ UNCHANGED layer3
    /\ ValidatorUnchanged
    /\ node' = IF Layer2bEnabled THEN "layer2b" ELSE RouteAfterSqlValidator'

\* The rest of sql_validator_node after Layer 3: the mid-node check_cancel,
\* Layer 2b by the LLM, and the guard that a DB error is never passed (an
\* empty result may be).
SemanticCheck ==
    /\ node = "layer2b"
    /\ layer3' = "NONE"
    /\ \/ /\ cancelFlag
          /\ status' = "CANCELLED"
          /\ phase' = "DONE"
          /\ finalStatus' = "CANCELLED"
          /\ UNCHANGED <<failureType, validatedSql, entrySource, loopGuard>>
       \/ /\ cancelFlag => CancelStoreMayFail
          /\ phase' = "VALIDATING"
          /\ \/ LocalFailure /\ UNCHANGED validatedSql
             \/ Failure("SQL_STRUCTURAL") /\ UNCHANGED validatedSql
             \/ IF layer3 = "DB_ERROR"
                THEN Failure("DB_ERROR") /\ UNCHANGED validatedSql
                ELSE ValidationPassed
          /\ UNCHANGED <<status, finalStatus>>
    /\ UNCHANGED <<route, cancelFlag, signalVars, hypVars, pendingSteps,
                   contextVars, explorationPhase, isForceGenerated, targetDb,
                   generatedSql, checkedDb>>
    /\ node' = RouteAfterSqlValidator'

\* get_query_db finds no connector, or the LLM client of recovery_agent
\* raises what the node does not catch (CircuitOpenError, transport errors):
\* the superstep is lost and the run ends with an exception.
NodeRaises ==
    /\ \/ Runs("recovery_agent")
       \/ /\ \E n \in {"sql_generator", "sql_validator", "sql_executor"} : Runs(n)
          /\ node = "sql_validator" => generatedSql # NoSql
          /\ QueryDb(targetDb) = NoDb
    /\ node' = "aborted"
    /\ UNCHANGED <<status, route, cancelFlag, signalVars, reasonVars>>

\* _handle_hypothesis_transition: the failed hypothesis is replaced by a
\* PENDING one, with a new budget of local fixes, or by none.
HypothesisAfterFailure == IF pendingHyps > 0 THEN "ACTIVE" ELSE "NONE"
PendingAfterFailure    == IF pendingHyps > 0 THEN pendingHyps - 1 ELSE 0
LocalFixesAfterFailure == IF pendingHyps > 0 THEN 0 ELSE loopGuard.localFixes

EntryGuard_WithoutReplanCount ==
    IF answered THEN loopGuard
    ELSE [loopGuard EXCEPT !.localFixes = LocalFixesAfterFailure]

\* What recovery_agent works with when it asks the LLM: after an answer of
\* the user the transition, the replan count and the reset are skipped.
EntryGuard ==
    IF answered THEN loopGuard
    ELSE [loopGuard EXCEPT !.replans = Bump(@, ReplanCap),
                           !.localFixes = LocalFixesAfterFailure]
EntryHypothesis == IF answered THEN hypothesis ELSE HypothesisAfterFailure
EntryPending    == IF answered THEN pendingHyps ELSE PendingAfterFailure
EntryFailure    == IF answered THEN failureType ELSE "NONE"

GiveUp_Early ==
    /\ finalStatus' = "FAILURE"
    /\ IF ReadyToForce
       THEN phase' = "GENERATING" /\ isForceGenerated' = TRUE
       ELSE phase' = "DONE" /\ UNCHANGED isForceGenerated
    /\ UNCHANGED <<pendingSteps, pendingSignal>>

\* _finalize_give_up: generate with what there is, or fail.
GiveUp ==
    /\ IF ReadyToForce
       THEN /\ phase' = "GENERATING"
            /\ isForceGenerated' = TRUE
            /\ UNCHANGED finalStatus
       ELSE /\ phase' = "DONE"
            /\ finalStatus' = "FAILURE"
            /\ UNCHANGED isForceGenerated
    /\ UNCHANGED <<pendingSteps, pendingSignal>>

RecoveryEntry ==
    /\ Runs("recovery_agent")
    /\ explorationPhase' = "recovery"
    /\ targetDb' = NoDb
    /\ failureType' = EntryFailure
    /\ pendingHyps' = EntryPending

RecoveryUnchanged ==
    UNCHANGED <<status, route, cancelFlag, answered, contextVars, entrySource,
                sqlVars>>

MayAsk_OffByOne == EntryGuard.asks <= MaxAskUserRounds

\* Beyond the limit the question is turned into a give-up.
MayAsk == EntryGuard.asks < MaxAskUserRounds

RecoveryAsksUser ==
    /\ RecoveryEntry
    /\ MayAsk
    /\ loopGuard' = [EntryGuard EXCEPT !.asks = @ + 1]
    /\ hypothesis' = EntryHypothesis
    /\ pendingSignal' = TRUE
    /\ phase' = "REPLANNING"
    /\ UNCHANGED <<finalStatus, isForceGenerated, pendingSteps>>
    /\ RecoveryUnchanged
    /\ node' = RouteAfterRecoveryAgent'

\* The LLM gives up, asks beyond the limit, or answers nothing usable.
RecoveryGivesUp ==
    /\ RecoveryEntry
    /\ loopGuard' = EntryGuard
    /\ hypothesis' = EntryHypothesis
    /\ GiveUp
    /\ RecoveryUnchanged
    /\ node' = RouteAfterRecoveryAgent'

\* A replan always carries a new ACTIVE hypothesis, installed before the
\* limits are looked at.
RecoveryReplans ==
    /\ RecoveryEntry
    /\ loopGuard' = EntryGuard
    /\ hypothesis' = "ACTIVE"
    /\ IF ShouldTerminate(EntryGuard, finalStatus, "ACTIVE", EntryPending)
       THEN GiveUp
       ELSE /\ \E steps \in 1..MaxPlanSteps : pendingSteps' = pendingSteps + steps
            /\ phase' = "EXPLORING"
            /\ UNCHANGED <<finalStatus, isForceGenerated, pendingSignal>>
    /\ RecoveryUnchanged
    /\ node' = RouteAfterRecoveryAgent'

RecoveryAgent == RecoveryAsksUser \/ RecoveryGivesUp \/ RecoveryReplans

\* clarification_handler interrupts the graph; it is resumed, with the answer,
\* by the next message of the session.
ClarificationHandler ==
    /\ node = "clarification_handler"
    /\ node' = "awaiting_answer"
    /\ UNCHANGED <<status, route, cancelFlag, signalVars, reasonVars>>

Answer ==
    /\ node = "awaiting_answer"
    /\ cancelFlag => CancelStoreMayFail
    /\ answered' = TRUE
    /\ pendingSignal' = FALSE
    /\ node' = "recovery_agent"
    /\ UNCHANGED <<status, route, cancelFlag, reasonVars>>

\* The next message finds the cancel flag of the interrupted turn: it pops
\* the flag and starts a turn of its own.
Abandon ==
    /\ node = "awaiting_answer"
    /\ cancelFlag
    /\ cancelFlag' = FALSE
    /\ node' = "abandoned"
    /\ UNCHANGED <<status, route, signalVars, reasonVars>>

ResultFinalizer ==
    /\ node = "result_finalizer"
    /\ phase' = "DONE"
    /\ IF status = "CANCELLED"
       THEN finalStatus' = "CANCELLED" /\ UNCHANGED status
       ELSE IF validatedSql # NoSql
       THEN finalStatus' = "SUCCESS" /\ UNCHANGED status
       ELSE finalStatus' = "FAILURE" /\ status' = "ERROR"
    /\ UNCHANGED <<route, cancelFlag, signalVars, failureType, planVars,
                   sqlVars, loopGuard>>
    /\ node' = RouteAfterResultFinalizer'

SqlExecutor ==
    /\ Runs("sql_executor")
    /\ QueryDb(targetDb) # NoDb
    /\ status' \in {"EXECUTED", "ERROR"}
    /\ UNCHANGED <<route, cancelFlag, signalVars, reasonVars>>
    /\ node' = RouteAfterExecution'

HandleError ==
    /\ node = "error_end"
    /\ status' = IF status = "CANCELLED" THEN "CANCELLED" ELSE "ERROR"
    /\ node' = "end"
    /\ UNCHANGED <<route, cancelFlag, signalVars, reasonVars>>

\* The user cancels the turn (POST .../cancel sets the flag).
Cancel ==
    /\ node \notin Terminal
    /\ cancelFlag = FALSE
    /\ cancelFlag' = TRUE
    /\ UNCHANGED <<node, status, route, signalVars, reasonVars>>

Finished == node \in Terminal /\ UNCHANGED vars

-----------------------------------------------------------------------------

GraphStep ==
    \/ CancelledAtEntry
    \/ ReasoningPreparer \/ ContextRetriever \/ ContextInterpreter
    \/ ReadinessGate \/ SqlGenerator
    \/ ValidatorWithoutSql \/ ValidatorRejectsByRule \/ ValidatorRunsSql
    \/ SemanticCheck
    \/ RecoveryAgent \/ NodeRaises
    \/ ClarificationHandler \/ ResultFinalizer \/ SqlExecutor \/ HandleError

Next == GraphStep \/ Answer \/ Abandon \/ Cancel \/ Finished

\* LangGraph runs the next node as long as there is one; nobody owes an
\* answer, a cancellation or a further message.
Spec == Init /\ [][Next]_vars /\ WF_vars(GraphStep)

-----------------------------------------------------------------------------
(* Type invariant                                                           *)

\* Every variable ranges over the values its field can take; the counters of
\* LoopGuard stay within the limits of config.py.
TypeOK ==
    /\ node \in Nodes
    /\ status \in {"PENDING", "EXECUTED", "CANCELLED", "ERROR"}
    /\ route \in {"NONE", "REGENERATE"}
    /\ cancelFlag \in BOOLEAN
    /\ pendingSignal \in BOOLEAN /\ answered \in BOOLEAN
    /\ explored \in BOOLEAN /\ isForceGenerated \in BOOLEAN
    /\ phase \in {"PLANNING", "EXPLORING", "GENERATING", "VALIDATING",
                  "REPLANNING", "DONE"}
    /\ failureType \in FailureTypes
    /\ finalStatus \in {"PENDING", "SUCCESS", "CANCELLED", "FAILURE"}
    /\ hypothesis \in {"NONE", "ACTIVE"}
    /\ pendingHyps \in Nat /\ pendingSteps \in Nat
    /\ readiness \in Bands
    /\ selected \subseteq Systems
    /\ explorationPhase \in {"initial", "recovery"}
    /\ entrySource \in {"NONE", "readiness_gate", "sql_generator",
                        "sql_validator"}
    /\ targetDb \in Systems \cup {NoDb}
    /\ checkedDb \in Systems \cup {NoDb}
    /\ generatedSql \in Sqls \cup {NoSql}
    /\ validatedSql \in Sqls \cup {NoSql}
    /\ layer3 \in {"NONE", "PASS", "EMPTY_RESULT", "DB_ERROR"}
    /\ loopGuard \in LoopGuards

-----------------------------------------------------------------------------
(* Safety                                                                   *)

\* The SQL that reaches the executor is the SQL the validator passed last, it
\* ran in Layer 3 on the database it will now run on, no failure is pending
\* and the turn neither failed nor was seen to be cancelled (result_finalizer
\* and sql_executor trust reason.validated_sql and reason.target_db).
ExecutedSqlIsValidated ==
    node = "sql_executor" =>
        /\ validatedSql # NoSql /\ validatedSql = generatedSql
        /\ checkedDb # NoDb /\ checkedDb = QueryDb(targetDb)
        /\ failureType = "NONE"
        /\ finalStatus = "SUCCESS" /\ status = "PENDING"

GenerationNodes == {"sql_generator", "sql_validator", "layer2b", "sql_executor"}

\* SQL that was not forced by a give-up is written for, checked on and run on
\* the one system that the SELECTED tables (or the settings) decide: no path
\* through recovery_agent, which clears target_db, leads back to sql_generator
\* without a new decision of readiness_gate.
TargetFollowsSelection ==
    node \in GenerationNodes /\ ~isForceGenerated =>
        /\ targetDb # NoDb
        /\ targetDb = ResolveTargetDb(selected)

ExploringNodes == {"context_retriever", "context_interpreter", "readiness_gate"}

\* A new exploration starts only while every limit that bounds it has room:
\* tool calls, and replans unless the user has answered a question in this
\* turn; and it always has a hypothesis, so should_terminate never reports
\* exhausted hypotheses for a plan that has just been made.
ExplorationWithinBudget ==
    node \in ExploringNodes /\ status # "CANCELLED" =>
        /\ hypothesis = "ACTIVE"
        /\ node = "context_retriever" => loopGuard.toolCalls < MaxToolCalls
        /\ ~answered => loopGuard.replans < MaxReplans

\* A step of the plan stays PENDING after retrieval only when the tool calls
\* are used up: slicing the batch never drops a step that could have run, so
\* the "explore" edge of readiness_gate is never needed.
LeftoverOnlyAtToolLimit ==
    node \in {"context_interpreter", "readiness_gate", "recovery_agent"}
    /\ status # "CANCELLED" /\ pendingSteps > 0 =>
        loopGuard.toolCalls = MaxToolCalls

\* sql_generator is asked for a local fix only while the budget of local
\* fixes has room: the validator counts a fix before it asks for it.  (After
\* an answer of the user recovery_agent keeps the old failure_type, which then
\* also marks generations that are no local fix.)
LocalFixWithinBudget ==
    node = "sql_generator" /\ failureType \in LocalFixable
    /\ status # "CANCELLED" /\ ~answered =>
        loopGuard.localFixes < MaxLocalFixes

\* Once MAX_GENERATES statements were written no local fix and no new plan
\* leads to another one: only a forced generation, by recovery_agent or after
\* FORCE_GENERATE_AFTER_REPLANS replans by readiness_gate, still does.
GenerateLimitNeedsForce ==
    node = "sql_generator" /\ GenerateLimitReached(loopGuard)
    /\ status # "CANCELLED" =>
        isForceGenerated \/ loopGuard.replans >= ForceAfterReplans

\* A turn that has been given up stays given up: it holds no SQL that
\* result_finalizer would report as a success.
FailureIsFinal ==
    finalStatus = "FAILURE" =>
        /\ validatedSql = NoSql
        /\ node \in {"result_finalizer", "error_end", "end"}

\* A REGENERATE turn enters recovery_agent for the first time only after all
\* its local fixes; any other failure of the restored material ends it.
RegenerateRecoversAfterLocalFixes ==
    node = "recovery_agent" /\ route = "REGENERATE" /\ loopGuard.replans = 0
    /\ ~answered =>
        /\ failureType \in LocalFixable
        /\ ShouldEscalateToStructural(loopGuard)

\* Once a node has seen the cancel flag, no later node of the turn calls a
\* tool, an LLM or a database, whichever edges the turn still takes: counters,
\* SQL and knowledge stay as they are, and the status stays CANCELLED.
NoWorkAfterCancel ==
    [][status = "CANCELLED" =>
          /\ status' = "CANCELLED"
          /\ UNCHANGED <<loopGuard, sqlVars, contextVars, hypVars, answered>>]_vars

-----------------------------------------------------------------------------
(* What makes the safety invariants inductive                               *)

\* Until the turn ends nothing but a cancellation changes its status.
StatusInv ==
    status \in {"PENDING", "CANCELLED"} \/ node \in {"error_end", "end", "present"}

\* A question is open only while the turn waits for its answer, or when a turn
\* already cancelled asked it because the store missed the flag later on.
SignalInv ==
    pendingSignal =>
        \/ node \in {"clarification_handler", "awaiting_answer", "abandoned"}
        \/ status = "CANCELLED"

\* What Layer 3 has run, between the two halves of sql_validator.
LayerThreeInv ==
    node = "layer2b" =>
        /\ generatedSql # NoSql
        /\ checkedDb # NoDb /\ checkedDb = QueryDb(targetDb)

\* Validated SQL leaves the loop, and keeps the decisions it was made under.
ValidatedInv ==
    validatedSql # NoSql =>
        /\ node \in {"result_finalizer", "sql_executor", "present", "error_end",
                    "end", "aborted"}
        /\ validatedSql = generatedSql /\ failureType = "NONE"
        /\ checkedDb # NoDb /\ checkedDb = QueryDb(targetDb)
        /\ ~isForceGenerated =>
             targetDb # NoDb /\ targetDb = ResolveTargetDb(selected)

\* reasoning_preparer finds the counters and failures of a new turn.
PreparerInv ==
    node = "reasoning_preparer" =>
        loopGuard = FreshGuard /\ pendingSteps = 0 /\ route = "NONE"

\* Whatever leaves context_retriever keeps steps only at the tool limit.
LeftoverInv ==
    node # "context_retriever" /\ status # "CANCELLED" /\ pendingSteps > 0 =>
        loopGuard.toolCalls = MaxToolCalls

\* While a turn explores, the failure that started the exploration is cleared,
\* and a REGENERATE turn has been counted a replan, unless the user answered.
ExploringInv ==
    /\ node \in ExploringNodes \cup {"reasoning_preparer"} /\ ~answered =>
           failureType = "NONE"
    /\ node \in ExploringNodes /\ ~answered /\ route = "REGENERATE" =>
           loopGuard.replans > 0

ControlInv ==
    /\ StatusInv /\ SignalInv /\ LayerThreeInv /\ ValidatedInv
    /\ PreparerInv /\ LeftoverInv /\ ExploringInv

-----------------------------------------------------------------------------
(* Liveness                                                                 *)

Quiescent == node \in Terminal \cup {"awaiting_answer"}

\* LoopGuard brings a turn to its end, or to a question for the user, unless
\* the turn is cancelled or recovery_agent forces a generation: the loops of
\* exploring, replanning, generating and fixing cannot feed each other.
LoopGuardEndsTurn == <>(Quiescent \/ isForceGenerated \/ cancelFlag)

\* The generate / validate loop is always left: every round that does not pass
\* uses up a local fix or is not local.
FixLoopIsLeft ==
    (node = "sql_generator" /\ ~cancelFlag)
        ~> (node \in {"result_finalizer", "recovery_agent"} \cup Terminal
            \/ cancelFlag)

\* A turn cancelled outside the local-fix loop comes to its end.
CancelledOutsideFixLoopEnds ==
    (status = "CANCELLED" /\ failureType \notin LocalFixable)
        ~> (node \in Terminal)

-----------------------------------------------------------------------------
(* What the repository says of the loop and the code does not do            *)

\* "The pipeline ends normally (CANCELLED) at the next node it enters."
CancelledTurnEnds == status = "CANCELLED" ~> node \in Terminal

=============================================================================
