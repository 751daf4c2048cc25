----------------------------- MODULE Validation -----------------------------
(***************************************************************************)
(* The text of an SQL statement on its way from the answer of the LLM to    *)
(* the executor: what sql_generator takes for SQL, the safety check, the    *)
(* tables and columns the statement may use (Layer 1), its structure        *)
(* (Layer 2a), the trial run (Layer 3), the judgment of the LLM (Layer 2b)  *)
(* and the node that the trace names as the next.  ReasoningLoop has the    *)
(* nodes with nondeterministic verdicts; here the verdicts are computed.    *)
(*                                                                          *)
(* A statement is the record of what the checks look for in its text.       *)
(***************************************************************************)
EXTENDS Naturals

CONSTANTS
    Statements,     \* what the LLM may write; start "other" is text that is no SQL
    Tables,
    ColumnsOf,      \* the columns of a table
    MaxLocalFixes,  \* MAX_LOCAL_FIXES
    MaxGenerates,   \* MAX_GENERATES, 0 for no limit
    PiiMasking      \* settings.pii_masking_enabled

ValidationAssumption == MaxLocalFixes \in Nat /\ MaxGenerates \in Nat /\ PiiMasking \in BOOLEAN

VARIABLES
    pc,        \* "generate", "layer1", "layer2a", "layer3", "layer2b" or "left"
    sql,       \* reason.generated_sql
    explored,  \* explored[t]: selection_status of a table, REFERENCE for any that is
               \* not rejected, or "unknown"
    setting,   \* what the question asks for, the switch of Layer 2b, how the turn
               \* came here: its route, and whether the generation is forced
    guard,     \* the counters of LoopGuard
    layer3,    \* the outcome of the trial run
    judgment,  \* the answer of Layer 2b (history)
    outcome    \* failure_type, the node the trace names and the one that runs

vars == <<pc, sql, explored, setting, guard, layer3, judgment, outcome>>

NoSql == [start |-> "none"]
Local == {"SQL_SYNTAX", "SQL_SEMANTIC_LOCAL"}
Judgments == [verdict : {"PASS", "FAIL"}, failed : BOOLEAN,
              class : {"local_fix", "structural"}]

\* The LLM cannot be reached or its answer cannot be parsed.
NoAnswer == [verdict |-> "FAIL", failed |-> TRUE, class |-> "structural"]
Unjudged == [verdict |-> "none"]
Open == [failure |-> "", traced |-> "", next |-> ""]

TypeOK ==
    /\ pc \in {"generate", "layer1", "layer2a", "layer3", "layer2b", "left"}
    /\ sql \in Statements \cup {NoSql}
    /\ explored \in [Tables -> {"unknown", "REFERENCE", "REJECTED"}]
    /\ guard.fixes \in 0..MaxLocalFixes + 1 /\ guard.generates \in Nat
    /\ layer3 \in {"none", "rows", "EMPTY_RESULT", "DB_ERROR"}
    /\ judgment \in Judgments \cup {Unjudged}
    /\ outcome.failure \in Local \cup {"", "SQL_STRUCTURAL", "EMPTY_RESULT", "DB_ERROR",
                                       "GENERATION_FAILED"}

Init ==
    /\ pc = "generate" /\ sql = NoSql
    /\ explored \in [Tables -> {"unknown", "REFERENCE", "REJECTED"}]
    /\ setting \in [groups : BOOLEAN, aggs : BOOLEAN, judged : BOOLEAN,
                    route : {"NEW", "REGENERATE"}, forced : BOOLEAN]
    /\ guard = [fixes |-> 0, generates |-> 0]
    /\ layer3 = "none" /\ judgment = Unjudged /\ outcome = Open

-----------------------------------------------------------------------------
(* What the checks find in a statement                                      *)

\* is_aggregate_query
IsAggregate(s) == s.functions /\ (s.grouped \/ s.onlyAggregates)

ForbiddenPatterns(s) == IF s.forbidden THEN {"forbidden"} ELSE {}
SqlSyntax(s) == IF s.parses THEN {} ELSE {"syntax"}
PiiColumns(s) == IF PiiMasking /\ s.pii THEN {"pii"} ELSE {}

\* validate_sql_safety.  Text that does not begin like a query is not looked at
\* any further; a statement that sqlglot cannot parse is unsafe.
ValidateSqlSafety(s) ==
    IF s.start # "SELECT" THEN {"start"}
    ELSE ForbiddenPatterns(s) \cup SqlSyntax(s) \cup PiiColumns(s)
         \cup (IF s.limit \/ IsAggregate(s) THEN {} ELSE {"limit"})

\* get_real_tables: the tables of the parsed statement and what is named like a
\* table anywhere outside comments and literals.
RealTables(s) == s.tables \cup s.named

\* get_real_columns: a column named like an alias of SELECT is taken for it.
RealColumns(s) == s.columns \ s.aliases

\* A table is in use unless it was rejected: also one that is a mere reference.
Active == {t \in Tables : explored[t] \notin {"unknown", "REJECTED"}}
Allowed == UNION {ColumnsOf[t] : t \in Active}

\* Without a table that is in use nothing is compared; columns are compared
\* with those of all tables together, once the tables are right.
UnknownTables(s) == IF Active = {} THEN {} ELSE RealTables(s) \ Active
UnknownColumns(s) ==
    IF UnknownTables(s) # {} \/ Allowed = {} THEN {} ELSE RealColumns(s) \ Allowed

Layer1Fails(s) ==
    ValidateSqlSafety(s) # {} \/ UnknownTables(s) # {} \/ UnknownColumns(s) # {}

\* What the decomposition asks for is somewhere in the text.
Layer2aFails(s) ==
    \/ setting.groups /\ ~s.grouped /\ ~s.partitions
    \/ setting.aggs /\ ~s.functions

\* A verdict FAIL that names no failed check counts as PASS.
Layer2bFails(j) == j.verdict = "FAIL" /\ j.failed

-----------------------------------------------------------------------------
(* Where a verdict leads                                                    *)

Escalates(g) == g.fixes >= MaxLocalFixes
Exhausted(g) == MaxGenerates > 0 /\ g.generates >= MaxGenerates

LocalRoute(g) ==
    IF Escalates(g) THEN "recovery_agent"
    ELSE IF Exhausted(g) THEN "result_finalizer"
    ELSE "sql_generator"

\* _route_after_sql_validator in pipeline.py.
RouteAfterSqlValidator(failure, g) ==
    IF setting.route = "REGENERATE" /\ failure \notin Local \cup {""} THEN "result_finalizer"
    ELSE IF failure = "" THEN "result_finalizer"
    ELSE IF failure \in Local THEN LocalRoute(g)
    ELSE "recovery_agent"

\* _infer_trace_routing: the same judgment for the trace, written down again,
\* without the route of the turn.
InferTraceRouting(failure, g) ==
    IF failure = "" THEN "result_finalizer"
    ELSE IF failure \in Local THEN LocalRoute(g)
    ELSE "recovery_agent"

\* The end of sql_validator_node: the step of the trace, then the edge.
Conclude(failure, g) ==
    /\ guard' = g
    /\ outcome' = [failure |-> failure, traced |-> InferTraceRouting(failure, g),
                   next |-> RouteAfterSqlValidator(failure, g)]
    /\ pc' = IF outcome'.next = "sql_generator" THEN "generate" ELSE "left"

CountFix(g) == [g EXCEPT !.fixes = @ + 1]

-----------------------------------------------------------------------------
(* The nodes                                                                *)

MayNotReplan == setting.route = "REGENERATE" \/ setting.forced

\* sql_generator_node, with _parse_sql_response: SQL is what stands in the JSON, in
\* the code blocks, or the whole answer if it has neither; a status other than
\* success, or no answer, ends the loop.
Generate ==
    /\ pc = "generate"
    /\ \/ /\ sql' \in Statements
          /\ guard' = [guard EXCEPT !.generates = @ + 1]
          /\ outcome' = Open /\ pc' = "layer1"
       \/ /\ sql' = NoSql /\ UNCHANGED guard
          /\ outcome' = [failure |-> "GENERATION_FAILED", traced |-> "recovery_agent",
                         next |-> IF MayNotReplan THEN "result_finalizer"
                                                  ELSE "recovery_agent"]
          /\ pc' = "left"
    /\ layer3' = "none" /\ judgment' = Unjudged
    /\ UNCHANGED <<explored, setting>>

ValidateLayer1 ==
    /\ pc = "layer1"
    /\ IF Layer1Fails(sql) THEN Conclude("SQL_SYNTAX", CountFix(guard))
       ELSE pc' = "layer2a" /\ UNCHANGED <<guard, outcome>>
    /\ UNCHANGED <<sql, explored, setting, layer3, judgment>>

\* _build_layer2a_failure
ValidateLayer2a ==
    /\ pc = "layer2a"
    /\ IF ~Layer2aFails(sql) THEN pc' = "layer3" /\ UNCHANGED <<guard, outcome>>
       ELSE IF Escalates(guard) THEN Conclude("SQL_STRUCTURAL", guard)
       ELSE Conclude("SQL_SEMANTIC_LOCAL", CountFix(guard))
    /\ UNCHANGED <<sql, explored, setting, layer3, judgment>>

\* The statement is run for five rows.  Without Layer 2b its outcome decides.
ValidateLayer3 ==
    /\ pc = "layer3"
    /\ layer3' \in {"rows", "EMPTY_RESULT", "DB_ERROR"}
    /\ IF setting.judged THEN pc' = "layer2b" /\ UNCHANGED <<guard, outcome>>
       ELSE Conclude(IF layer3' = "rows" THEN "" ELSE layer3', guard)
    /\ UNCHANGED <<sql, explored, setting, judgment>>

AfterPass_AnyResult == ""

\* The LLM may pass an empty result, but not an error of the database.
AfterPass == IF layer3 = "DB_ERROR" THEN "DB_ERROR" ELSE ""

\* _validate_layer2b and _build_layer2b_failure.
ValidateLayer2b ==
    /\ pc = "layer2b"
    /\ judgment' \in Judgments \cup {NoAnswer}
    /\ IF ~Layer2bFails(judgment') THEN Conclude(AfterPass, guard)
       ELSE IF judgment'.class = "local_fix" /\ ~Escalates(guard)
            THEN Conclude("SQL_SEMANTIC_LOCAL", CountFix(guard))
       ELSE Conclude("SQL_STRUCTURAL", guard)
    /\ UNCHANGED <<sql, explored, setting, layer3>>

Left == pc = "left" /\ UNCHANGED vars

Next == \/ Generate \/ ValidateLayer1 \/ ValidateLayer2a \/ ValidateLayer3
        \/ ValidateLayer2b \/ Left

Spec == Init /\ [][Next]_vars

-----------------------------------------------------------------------------
(* Properties                                                               *)

\* Whatever the LLM writes and however it judges itself: only a safe query over
\* tables in use reaches the database, and what passes was run there without an
\* error; no rows pass only if a judgment was made that found no failed check.
OnlyRunSqlPasses ==
    /\ layer3 # "none" =>
           /\ sql.start = "SELECT" /\ sql.parses /\ ~sql.forbidden
           /\ Active # {} => sql.tables \subseteq Active
    /\ pc = "left" /\ outcome.failure = "" =>
           \/ layer3 = "rows"
           \/ layer3 = "EMPTY_RESULT" /\ judgment # Unjudged /\ ~Layer2bFails(judgment)

\* The trace names the node that runs next ("the same judgment" as pipeline.py,
\* to be kept in step): all the same for local fixes, and it differs only in that
\* it announces a replanning to a turn that may not replan.
TraceNamesRoute ==
    \/ outcome.traced = outcome.next
    \/ /\ outcome.traced = "recovery_agent" /\ outcome.next = "result_finalizer"
       /\ outcome.failure \notin Local /\ MayNotReplan

=============================================================================
