-------------------------- MODULE Services_proofs --------------------------
(***************************************************************************)
(* Theorems of the parts of Services, for every value of their constants:  *)
(* of Validation for all statements, limits and tables, of Normalizer for  *)
(* all answers of the LLM, of Insight for all tables and plans, of         *)
(* Connections for all sets of business databases, and of LlmClient for    *)
(* answers of any length.  Each part goes from its inductive invariant     *)
(* over lemmas about its steps to the theorems.                            *)
(***************************************************************************)
EXTENDS Services, FiniteSetTheorems, SequenceTheorems, TLAPS

-----------------------------------------------------------------------------
(* Validation: what a statement has passed where it stands                   *)

ValidationTypes ==
    /\ V!TypeOK
    /\ guard \in [fixes : 0..MaxLocalFixes + 1, generates : Nat]
    /\ outcome = [failure |-> outcome.failure, traced |-> outcome.traced, next |-> outcome.next]

\* A statement is checked again only while the fixes have a budget left.
FixesLeft == checking # "left" => guard.fixes <= MaxLocalFixes

\* The trial run has an outcome from its end on, until there is another statement.
TrialHasOutcome ==
    /\ checking \in {"layer1", "layer2a", "layer3"} => layer3 = "none"
    /\ checking = "layer2b" => layer3 # "none"

\* What has come to Layer 2a or to a trial run has no fault that Layer 1 finds.
Layer1Passed ==
    checking \in {"layer2a", "layer3"} \/ layer3 # "none" => ~V!Layer1Fails(sql)

ValidationInv ==
    /\ ValidationTypes /\ FixesLeft /\ TrialHasOutcome /\ Layer1Passed
    /\ V!OnlyRunSqlPasses /\ V!TraceNamesRoute

\* What Layer 1 lets pass is a safe query over tables in use.
LEMMA PassedIsSafe ==
    ASSUME NEW s, ~V!Layer1Fails(s)
    PROVE  /\ s.start = "SELECT" /\ s.parses /\ ~s.forbidden
           /\ V!Active # {} => s.tables \subseteq V!Active
<1>1. V!ValidateSqlSafety(s) = {} /\ V!UnknownTables(s) = {}
  BY DEF V!Layer1Fails
<1>2. s.start = "SELECT" /\ V!ForbiddenPatterns(s) = {} /\ V!SqlSyntax(s) = {}
  BY <1>1 DEF V!ValidateSqlSafety
<1>3. s.parses /\ ~s.forbidden
  BY <1>2 DEF V!ForbiddenPatterns, V!SqlSyntax
<1>4. V!Active # {} => s.tables \subseteq V!Active
  BY <1>1 DEF V!UnknownTables, V!RealTables
<1> QED BY <1>2, <1>3, <1>4

\* Nothing has been generated at first.
LEMMA ValidationInit == ASSUME V!ValidationAssumption, V!Init PROVE ValidationInv
<1> USE DEF V!Init
<1>1. guard = [fixes |-> 0, generates |-> 0] /\ MaxLocalFixes \in Nat
  BY DEF V!ValidationAssumption
<1>2. guard \in [fixes : 0..MaxLocalFixes + 1, generates : Nat]
  BY <1>1
<1>3. guard.fixes \in 0..MaxLocalFixes + 1 /\ guard.generates \in Nat
  BY <1>1
<1>4. judgment \in V!Judgments \cup {V!Unjudged} /\ sql \in Statements \cup {V!NoSql}
  OBVIOUS
<1>5. ValidationTypes
  BY <1>2, <1>3, <1>4 DEF ValidationTypes, V!TypeOK, V!Open
<1>6. FixesLeft /\ TrialHasOutcome /\ Layer1Passed
  BY <1>1 DEF FixesLeft, TrialHasOutcome, Layer1Passed
<1>7. V!OnlyRunSqlPasses /\ V!TraceNamesRoute
  BY DEF V!OnlyRunSqlPasses, V!TraceNamesRoute, V!Open
<1> QED BY <1>5, <1>6, <1>7 DEF ValidationInv

\* The generator runs again only below the limit of local fixes.
LEMMA FixRouteHasBudget ==
    ASSUME V!ValidationAssumption,
           NEW g \in [fixes : 0..MaxLocalFixes + 1, generates : Nat], NEW failure,
           V!RouteAfterSqlValidator(failure, g) = "sql_generator"
    PROVE  g.fixes <= MaxLocalFixes
<1>1. ~V!Escalates(g)
  BY DEF V!RouteAfterSqlValidator, V!LocalRoute
<1>2. g.fixes \in Int /\ MaxLocalFixes \in Int
  BY DEF V!ValidationAssumption
<1> QED BY <1>1, <1>2 DEF V!Escalates

\* Where a verdict leads, and what the trace says of it.
LEMMA ConcludeKeeps ==
    ASSUME V!ValidationAssumption, UNCHANGED setting,
           NEW g, g \in [fixes : 0..MaxLocalFixes + 1, generates : Nat],
           NEW failure,
           failure \in V!Local \cup {"", "SQL_STRUCTURAL", "EMPTY_RESULT", "DB_ERROR"},
           V!Conclude(failure, g)
    PROVE  /\ guard' = g /\ checking' \in {"generate", "left"} /\ FixesLeft'
           /\ outcome'.failure = failure
           /\ outcome' = [failure |-> outcome'.failure, traced |-> outcome'.traced,
                          next |-> outcome'.next]
           /\ V!TraceNamesRoute'
<1>1. /\ guard' = g
      /\ outcome' = [failure |-> failure, traced |-> V!InferTraceRouting(failure, g),
                     next |-> V!RouteAfterSqlValidator(failure, g)]
      /\ checking' = IF outcome'.next = "sql_generator" THEN "generate" ELSE "left"
  BY DEF V!Conclude
<1>2. outcome'.failure = failure /\ outcome'.next = V!RouteAfterSqlValidator(failure, g)
      /\ outcome'.traced = V!InferTraceRouting(failure, g)
  BY <1>1
<1>3. V!RouteAfterSqlValidator(failure, g) = "sql_generator" => g.fixes <= MaxLocalFixes
  BY FixRouteHasBudget
<1>4. FixesLeft'
  BY <1>1, <1>2, <1>3 DEF FixesLeft
<1>5. V!TraceNamesRoute'
  <2>1. V!MayNotReplan' = V!MayNotReplan
    BY DEF V!MayNotReplan
  <2>2. \/ V!InferTraceRouting(failure, g) = V!RouteAfterSqlValidator(failure, g)
        \/ /\ V!InferTraceRouting(failure, g) = "recovery_agent"
           /\ V!RouteAfterSqlValidator(failure, g) = "result_finalizer"
           /\ failure \notin V!Local /\ V!MayNotReplan
    BY DEF V!InferTraceRouting, V!RouteAfterSqlValidator, V!MayNotReplan
  <2> QED BY <1>2, <2>1, <2>2 DEF V!TraceNamesRoute
<1> QED BY <1>1, <1>2, <1>4, <1>5

\* What the checks say of a statement and a judgment stays while the tables do.
LEMMA VerdictsStay ==
    ASSUME UNCHANGED explored, NEW s
    PROVE  V!Layer1Fails(s)' = V!Layer1Fails(s) /\ V!Active' = V!Active
<1>1. V!Active' = V!Active
  BY DEF V!Active
<1> QED
  BY <1>1 DEF V!Layer1Fails, V!ValidateSqlSafety, V!UnknownTables, V!UnknownColumns,
              V!Allowed, V!RealTables, V!RealColumns

\* What LoopGuard counts stays within its limits.
LEMMA CountsStay ==
    ASSUME V!ValidationAssumption,
           NEW g \in [fixes : 0..MaxLocalFixes + 1, generates : Nat]
    PROVE  /\ [g EXCEPT !.generates = @ + 1] \in [fixes : 0..MaxLocalFixes + 1, generates : Nat]
           /\ g.fixes \in Int
           /\ g.fixes <= MaxLocalFixes =>
                 V!CountFix(g) \in [fixes : 0..MaxLocalFixes + 1, generates : Nat]
<1>1. g.fixes \in 0..MaxLocalFixes + 1 /\ g.generates \in Nat /\ MaxLocalFixes \in Nat
  BY DEF V!ValidationAssumption
<1>2. g.generates + 1 \in Nat
  BY <1>1
<1>3. g.fixes <= MaxLocalFixes => g.fixes + 1 \in 0..MaxLocalFixes + 1
  BY <1>1
<1> QED BY <1>1, <1>2, <1>3 DEF V!CountFix

\* sql_generator: nothing is known of a new statement.
LEMMA GenerateKeeps ==
    ASSUME V!ValidationAssumption, ValidationInv, V!Generate PROVE ValidationInv'
<1>1. guard' \in [fixes : 0..MaxLocalFixes + 1, generates : Nat] /\ guard'.fixes = guard.fixes
  BY CountsStay DEF V!Generate, ValidationInv, ValidationTypes
<1>2. /\ layer3' = "none" /\ judgment' = V!Unjudged /\ UNCHANGED <<explored, setting>>
      /\ checking = "generate"
  BY DEF V!Generate
<1>3. \/ sql' \in Statements /\ outcome' = V!Open /\ checking' = "layer1"
      \/ /\ sql' = V!NoSql /\ checking' = "left"
         /\ outcome' = [failure |-> "GENERATION_FAILED", traced |-> "recovery_agent",
                        next |-> IF V!MayNotReplan THEN "result_finalizer"
                                                   ELSE "recovery_agent"]
  BY DEF V!Generate
<1>4. \/ checking' = "layer1" /\ outcome'.failure = "" /\ outcome'.traced = outcome'.next
      \/ /\ checking' = "left" /\ outcome'.failure = "GENERATION_FAILED"
         /\ outcome'.traced = "recovery_agent"
         /\ \/ outcome'.next = "recovery_agent"
            \/ outcome'.next = "result_finalizer" /\ V!MayNotReplan
  <2>1. CASE outcome' = V!Open /\ checking' = "layer1"
    BY <2>1 DEF V!Open
  <2>2. CASE /\ checking' = "left"
             /\ outcome' = [failure |-> "GENERATION_FAILED", traced |-> "recovery_agent",
                            next |-> IF V!MayNotReplan THEN "result_finalizer"
                                                       ELSE "recovery_agent"]
    BY <2>2
  <2> QED BY <1>3, <2>1, <2>2
<1>5. /\ outcome' = [failure |-> outcome'.failure, traced |-> outcome'.traced,
                     next |-> outcome'.next]
      /\ sql' \in Statements \cup {V!NoSql}
  <2>1. CASE outcome' = V!Open /\ sql' \in Statements
    BY <2>1 DEF V!Open
  <2>2. CASE /\ sql' = V!NoSql
             /\ outcome' = [failure |-> "GENERATION_FAILED", traced |-> "recovery_agent",
                            next |-> IF V!MayNotReplan THEN "result_finalizer"
                                                       ELSE "recovery_agent"]
    BY <2>2
  <2> QED BY <1>3, <2>1, <2>2
<1>6. guard'.fixes \in 0..MaxLocalFixes + 1 /\ guard'.generates \in Nat
  BY <1>1
<1>7. ValidationTypes'
  BY <1>1, <1>2, <1>4, <1>5, <1>6 DEF ValidationInv, ValidationTypes, V!TypeOK
<1>8. FixesLeft' /\ TrialHasOutcome' /\ Layer1Passed'
  BY <1>1, <1>2, <1>4 DEF ValidationInv, FixesLeft, TrialHasOutcome, Layer1Passed
<1>9. V!OnlyRunSqlPasses'
  BY <1>2, <1>4 DEF V!OnlyRunSqlPasses
<1>10. V!TraceNamesRoute'
  BY <1>2, <1>4 DEF V!TraceNamesRoute, V!Local, V!MayNotReplan
<1> QED BY <1>7, <1>8, <1>9, <1>10 DEF ValidationInv

\* A layer that finds a fault of the statement, or none and is the last: the verdict
\* is what the property is about.
LEMMA VerdictKeeps ==
    ASSUME V!ValidationAssumption, ValidationInv, UNCHANGED <<sql, explored, setting>>,
           NEW g \in [fixes : 0..MaxLocalFixes + 1, generates : Nat],
           NEW failure \in V!Local \cup {"", "SQL_STRUCTURAL", "EMPTY_RESULT", "DB_ERROR"},
           V!Conclude(failure, g),
           layer3' \in {"none", "rows", "EMPTY_RESULT", "DB_ERROR"},
           judgment' \in V!Judgments \cup {V!Unjudged},
           layer3' # "none" => ~V!Layer1Fails(sql),
           failure = "" => \/ layer3' = "rows"
                           \/ /\ layer3' = "EMPTY_RESULT" /\ judgment' # V!Unjudged
                              /\ ~V!Layer2bFails(judgment')
    PROVE  ValidationInv'
<1>1. /\ guard' = g /\ checking' \in {"generate", "left"} /\ FixesLeft'
      /\ outcome'.failure = failure /\ V!TraceNamesRoute'
      /\ outcome' = [failure |-> outcome'.failure, traced |-> outcome'.traced,
                     next |-> outcome'.next]
  BY ConcludeKeeps
<1>2. guard'.fixes \in 0..MaxLocalFixes + 1 /\ guard'.generates \in Nat
  BY <1>1
<1>3. ValidationTypes'
  BY <1>1, <1>2 DEF ValidationInv, ValidationTypes, V!TypeOK
<1>4. V!Layer1Fails(sql)' = V!Layer1Fails(sql) /\ V!Active' = V!Active
  BY VerdictsStay
<1>5. TrialHasOutcome' /\ Layer1Passed'
  BY <1>1, <1>4 DEF TrialHasOutcome, Layer1Passed
<1>6. V!OnlyRunSqlPasses'
  <2>1. layer3' # "none" => /\ sql.start = "SELECT" /\ sql.parses /\ ~sql.forbidden
                            /\ V!Active # {} => sql.tables \subseteq V!Active
    BY PassedIsSafe
  <2>2. V!Layer2bFails(judgment)' = V!Layer2bFails(judgment')
    BY DEF V!Layer2bFails
  <2> QED BY <1>1, <1>4, <2>1, <2>2 DEF V!OnlyRunSqlPasses
<1> QED BY <1>1, <1>3, <1>5, <1>6 DEF ValidationInv

\* The layers that only look at the statement.
LEMMA LayersKeep ==
    ASSUME V!ValidationAssumption, ValidationInv, V!ValidateLayer1 \/ V!ValidateLayer2a
    PROVE  ValidationInv'
<1>1. /\ checking \in {"layer1", "layer2a"} /\ layer3 = "none"
      /\ UNCHANGED <<sql, explored, setting, layer3, judgment>>
  BY DEF V!ValidateLayer1, V!ValidateLayer2a, ValidationInv, TrialHasOutcome
<1>2. guard \in [fixes : 0..MaxLocalFixes + 1, generates : Nat] /\ guard.fixes <= MaxLocalFixes
  BY <1>1 DEF ValidationInv, ValidationTypes, FixesLeft
<1>3. V!CountFix(guard) \in [fixes : 0..MaxLocalFixes + 1, generates : Nat]
  BY <1>2, CountsStay
<1>4. judgment' \in V!Judgments \cup {V!Unjudged}
  BY <1>1 DEF ValidationInv, ValidationTypes, V!TypeOK
<1>5. CASE V!Conclude("SQL_SYNTAX", V!CountFix(guard))
  BY <1>1, <1>3, <1>4, <1>5, VerdictKeeps DEF V!Local
<1>6. CASE V!Conclude("SQL_SEMANTIC_LOCAL", V!CountFix(guard))
  BY <1>1, <1>3, <1>4, <1>6, VerdictKeeps DEF V!Local
<1>7. CASE V!Conclude("SQL_STRUCTURAL", guard)
  BY <1>1, <1>2, <1>4, <1>7, VerdictKeeps
<1>8. CASE /\ UNCHANGED <<guard, outcome>>
           /\ \/ checking = "layer1" /\ ~V!Layer1Fails(sql) /\ checking' = "layer2a"
              \/ checking = "layer2a" /\ checking' = "layer3"
  <2>1. ValidationTypes' /\ FixesLeft' /\ TrialHasOutcome'
    BY <1>1, <1>2, <1>8 DEF ValidationInv, ValidationTypes, V!TypeOK, FixesLeft, TrialHasOutcome
  <2>2. Layer1Passed'
    BY <1>1, <1>8, VerdictsStay DEF ValidationInv, Layer1Passed
  <2>3. V!OnlyRunSqlPasses'
    BY <1>1, <1>8 DEF V!OnlyRunSqlPasses
  <2>4. V!TraceNamesRoute'
    BY <1>1, <1>8 DEF ValidationInv, V!TraceNamesRoute, V!MayNotReplan
  <2> QED BY <2>1, <2>2, <2>3, <2>4 DEF ValidationInv
<1> QED BY <1>5, <1>6, <1>7, <1>8 DEF V!ValidateLayer1, V!ValidateLayer2a

\* The trial run, whose outcome decides unless there is a judgment.
LEMMA TrialKeeps ==
    ASSUME V!ValidationAssumption, ValidationInv, V!ValidateLayer3 PROVE ValidationInv'
<1>1. /\ checking = "layer3" /\ layer3' \in {"rows", "EMPTY_RESULT", "DB_ERROR"}
      /\ UNCHANGED <<sql, explored, setting, judgment>> /\ ~V!Layer1Fails(sql)
  BY DEF V!ValidateLayer3, ValidationInv, Layer1Passed
<1>2. guard \in [fixes : 0..MaxLocalFixes + 1, generates : Nat]
  BY DEF ValidationInv, ValidationTypes
<1>3. judgment' \in V!Judgments \cup {V!Unjudged}
  BY <1>1 DEF ValidationInv, ValidationTypes, V!TypeOK
<1>4. CASE V!Conclude(IF layer3' = "rows" THEN "" ELSE layer3', guard)
  <2>1. CASE layer3' = "rows"
    <3>1. V!Conclude("", guard)
      BY <1>4, <2>1
    <3> QED BY <1>1, <1>2, <1>3, <2>1, <3>1, VerdictKeeps
  <2>2. CASE layer3' # "rows"
    <3>1. V!Conclude(layer3', guard) /\ layer3' # ""
      BY <1>1, <1>4, <2>2
    <3> QED BY <1>1, <1>2, <1>3, <2>2, <3>1, VerdictKeeps
  <2> QED BY <2>1, <2>2
<1>5. CASE checking' = "layer2b" /\ UNCHANGED <<guard, outcome>>
  <2>1. V!Layer1Fails(sql)' = V!Layer1Fails(sql) /\ V!Active' = V!Active
    BY <1>1, VerdictsStay
  <2>2. /\ sql.start = "SELECT" /\ sql.parses /\ ~sql.forbidden
        /\ V!Active # {} => sql.tables \subseteq V!Active
    BY <1>1, PassedIsSafe
  <2>3. ValidationTypes'
    BY <1>1, <1>5 DEF ValidationInv, ValidationTypes, V!TypeOK
  <2>4. FixesLeft' /\ TrialHasOutcome' /\ Layer1Passed'
    BY <1>1, <1>5, <2>1 DEF ValidationInv, FixesLeft, TrialHasOutcome, Layer1Passed
  <2>5. V!OnlyRunSqlPasses'
    BY <1>1, <1>5, <2>1, <2>2 DEF V!OnlyRunSqlPasses
  <2>6. V!TraceNamesRoute'
    BY <1>1, <1>5 DEF ValidationInv, V!TraceNamesRoute, V!MayNotReplan
  <2> QED BY <2>3, <2>4, <2>5, <2>6 DEF ValidationInv
<1> QED BY <1>4, <1>5 DEF V!ValidateLayer3

\* The judgment of the LLM, which an error of the database overrules.
LEMMA JudgmentKeeps ==
    ASSUME V!ValidationAssumption, ValidationInv, V!ValidateLayer2b PROVE ValidationInv'
<1>1. /\ checking = "layer2b" /\ judgment' \in V!Judgments \cup {V!NoAnswer}
      /\ UNCHANGED <<sql, explored, setting, layer3>>
  BY DEF V!ValidateLayer2b
<1>2. judgment' \in V!Judgments /\ judgment' # V!Unjudged
  <2>1. V!NoAnswer \in V!Judgments
    BY DEF V!NoAnswer, V!Judgments
  <2>2. V!Unjudged \notin V!Judgments
    BY DEF V!Unjudged, V!Judgments
  <2> QED BY <1>1, <2>1, <2>2
<1>3. /\ guard \in [fixes : 0..MaxLocalFixes + 1, generates : Nat]
      /\ V!CountFix(guard) \in [fixes : 0..MaxLocalFixes + 1, generates : Nat]
  BY <1>1, CountsStay DEF ValidationInv, ValidationTypes, FixesLeft
<1>4. /\ layer3 \in {"rows", "EMPTY_RESULT", "DB_ERROR"} /\ ~V!Layer1Fails(sql)
  BY <1>1 DEF ValidationInv, ValidationTypes, V!TypeOK, TrialHasOutcome, Layer1Passed
<1>5. CASE ~V!Layer2bFails(judgment') /\ V!Conclude(V!AfterPass, guard)
  <2>1. V!AfterPass = IF layer3 = "DB_ERROR" THEN "DB_ERROR" ELSE ""
    BY DEF V!AfterPass
  <2>2. CASE layer3 = "DB_ERROR"
    <3>1. V!Conclude("DB_ERROR", guard)
      BY <1>5, <2>1, <2>2
    <3> QED BY <1>1, <1>2, <1>3, <1>4, <3>1, VerdictKeeps
  <2>3. CASE layer3 # "DB_ERROR"
    <3>1. V!Conclude("", guard) /\ layer3 \in {"rows", "EMPTY_RESULT"}
      BY <1>4, <1>5, <2>1, <2>3
    <3> QED BY <1>1, <1>2, <1>3, <1>4, <1>5, <3>1, VerdictKeeps
  <2> QED BY <2>2, <2>3
<1>6. CASE V!Conclude("SQL_SEMANTIC_LOCAL", V!CountFix(guard))
  BY <1>1, <1>2, <1>3, <1>4, <1>6, VerdictKeeps DEF V!Local
<1>7. CASE V!Conclude("SQL_STRUCTURAL", guard)
  BY <1>1, <1>2, <1>3, <1>4, <1>7, VerdictKeeps
<1> QED BY <1>5, <1>6, <1>7 DEF V!ValidateLayer2b

\* Every step keeps the invariant.
LEMMA ValidationStep ==
    ASSUME V!ValidationAssumption, ValidationInv, [V!Next]_(V!vars) PROVE ValidationInv'
<1>1. CASE UNCHANGED V!vars
  <2>1. UNCHANGED <<checking, sql, explored, setting, guard, layer3, judgment, outcome>>
    BY <1>1 DEF V!vars
  <2>2. ValidationTypes' /\ FixesLeft' /\ TrialHasOutcome'
    BY <2>1 DEF ValidationInv, ValidationTypes, V!TypeOK, FixesLeft, TrialHasOutcome
  <2>3. V!Layer1Fails(sql)' = V!Layer1Fails(sql) /\ V!Active' = V!Active
    BY <2>1, VerdictsStay
  <2>4. Layer1Passed' /\ V!OnlyRunSqlPasses'
    BY <2>1, <2>3 DEF ValidationInv, Layer1Passed, V!OnlyRunSqlPasses, V!Layer2bFails
  <2>5. V!TraceNamesRoute'
    BY <2>1 DEF ValidationInv, V!TraceNamesRoute, V!MayNotReplan
  <2> QED BY <2>2, <2>3, <2>4, <2>5 DEF ValidationInv
<1>2. CASE V!Left
  BY <1>1, <1>2 DEF V!Left
<1> QED
  BY <1>1, <1>2, GenerateKeeps, LayersKeep, TrialKeeps, JudgmentKeeps DEF V!Next

\* A statement that the trial run has seen has passed Layer 1, and one that passes has
\* an outcome of the trial that the verdict allows.
THEOREM ValidationInvariance == ASSUME V!ValidationAssumption PROVE V!Spec => []ValidationInv
<1>1. V!Init => ValidationInv
  BY ValidationInit
<1>2. ValidationInv /\ [V!Next]_(V!vars) => ValidationInv'
  BY ValidationStep
<1> QED BY <1>1, <1>2, PTL DEF V!Spec

\* Whatever the LLM writes and however it judges itself, only a safe query that was run
\* passes, and the trace names the node that is next.
THEOREM OnlySafeSqlPasses == ASSUME V!ValidationAssumption PROVE V!Spec => []OnlyRunSqlPasses
<1>1. ValidationInv => OnlyRunSqlPasses
  BY DEF ValidationInv, ValidationTypes, OnlyRunSqlPasses
<1> QED BY <1>1, ValidationInvariance, PTL

-----------------------------------------------------------------------------
(* Normalizer: what a normalized question has of the answer it comes from     *)

\* The shape of the update.
ResultFields ==
    normalized = [query |-> normalized.query, pending |-> normalized.pending,
                  resolved |-> normalized.resolved, steps |-> normalized.steps]

\* Where the node has come to, data is the answer as checked, then as repaired.
DataIsOfAnswer ==
    /\ phase \in {"phase2", "post", "signals"} => source \in LlmAnswers
    /\ phase \in {"phase2", "post"} => data = N!ValidStructure(source)
    /\ phase = "signals" => data = N!Postprocess(N!ValidStructure(source))

\* At its end the update is made of that, or nothing of it is left.
ResultIsOfData ==
    phase = "done" =>
        \/ normalized = [N!Nothing EXCEPT !.query = "default"]
        \/ /\ normalized.query = "made" /\ source \in LlmAnswers
           /\ data = N!Postprocess(N!ValidStructure(source))
           /\ normalized.pending = data.ambiguities \cap {"ASK"}
           /\ normalized.resolved = data.ambiguities \ {"ASK"}
        \/ /\ normalized = [N!Nothing EXCEPT !.query = "raised"]
           /\ source \in LlmAnswers /\ "refused" \in source.ambiguities

NormalizerInv == N!TypeOK /\ ResultFields /\ DataIsOfAnswer /\ ResultIsOfData

\* What the repair and the checks put in place of a value may stand in a slot.
LEMMA TextsOfChecks ==
    ASSUME N!NormalizerAssumption
    PROVE  /\ N!Intents \in SUBSET Texts /\ {"", "measure", "EXTRACT"} \subseteq Texts
           /\ {"SUM", "NONE", "UNKNOWN", "DISPLAY", "DESC"} \subseteq Texts
BY DEF N!NormalizerAssumption, N!Intents, N!AggFuncs, N!DimRoles, N!SortDirs

\* A value that is kept is the one the LLM wrote, or the default.
LEMMA KeptValue ==
    ASSUME NEW v \in Texts, NEW good, NEW default \in Texts
    PROVE  N!Kept(v, good, default) \in {v, default} /\ N!Kept(v, good, default) \in Texts
BY DEF N!Kept

\* A measure is without a function after the check just when the LLM gave none.
LEMMA NoneIsKept ==
    ASSUME NEW v
    PROVE  N!Kept(v, N!AggFuncs, "UNKNOWN") = "NONE" <=> v = "NONE"
<1>1. CASE v = "NONE"
  <2>1. "NONE" \notin DOMAIN N!UpperOf
    BY DEF N!UpperOf
  <2>2. N!Upper(v) = "NONE"
    BY <1>1, <2>1 DEF N!Upper
  <2>3. N!Enum(v, N!AggFuncs) = "NONE"
    BY <2>2 DEF N!Enum, N!AggFuncs
  <2>4. N!Enum(v, N!AggFuncs) # ""
    BY <2>3
  <2> QED BY <1>1, <2>4 DEF N!Kept
<1>2. CASE v # "NONE"
  BY <1>2 DEF N!Kept
<1> QED BY <1>1, <1>2

\* Of a value the check of an intent leaves a known one or nothing.
LEMMA EnumIsText ==
    ASSUME "" \in Texts, NEW v, NEW good \in SUBSET Texts PROVE N!Enum(v, good) \in Texts
BY DEF N!Enum

\* The checks of the slots leave slots, and change nothing but theirs.
LEMMA IntentChecked ==
    ASSUME N!NormalizerAssumption, NEW d \in N!Slots
    PROVE  /\ N!ValidIntent(d) \in N!Slots /\ N!ValidIntent(d).aggs = d.aggs
           /\ N!ValidIntent(d).columns = d.columns /\ N!ValidIntent(d).keywords = d.keywords
           /\ N!ValidIntent(d).ambiguities = d.ambiguities
<1>1. N!Intents \in SUBSET Texts /\ "" \in Texts /\ "EXTRACT" \in Texts
  BY TextsOfChecks
<1>2. N!Enum(d.primary, N!Intents) \in Texts /\ \A x : N!Enum(x, N!Intents) \in Texts
  BY <1>1, EnumIsText
<1> DEFINE primary == IF N!Enum(d.primary, N!Intents) = "" THEN "EXTRACT"
                      ELSE N!Enum(d.primary, N!Intents)
           secondary == {N!Enum(x, N!Intents) : x \in d.secondary} \ {""}
<1>3. primary \in Texts /\ secondary \in SUBSET Texts
  BY <1>1, <1>2
<1>4. N!ValidIntent(d) = [d EXCEPT !.primary = primary, !.secondary = secondary]
  BY DEF N!ValidIntent
<1> HIDE DEF primary, secondary
<1> QED BY <1>3, <1>4 DEF N!Slots

LEMMA MeasuresChecked ==
    ASSUME N!NormalizerAssumption, NEW d \in N!Slots
    PROVE  /\ N!ValidMeasures(d) \in N!Slots
           /\ N!ValidMeasures(d).aggs =
                 [i \in DOMAIN d.aggs |-> N!Kept(d.aggs[i], N!AggFuncs, "UNKNOWN")]
           /\ N!ValidMeasures(d).columns = d.columns
           /\ N!ValidMeasures(d).keywords = d.keywords
           /\ N!ValidMeasures(d).ambiguities = d.ambiguities
<1> DEFINE aggs == [i \in DOMAIN d.aggs |-> N!Kept(d.aggs[i], N!AggFuncs, "UNKNOWN")]
<1>1. d.aggs \in Seq(Texts) /\ "UNKNOWN" \in Texts
  BY TextsOfChecks DEF N!Slots
<1>2. \A i \in DOMAIN d.aggs : aggs[i] \in Texts
  BY <1>1, KeptValue
<1>3. aggs \in Seq(Texts)
  <2>1. DOMAIN d.aggs = 1..Len(d.aggs) /\ Len(d.aggs) \in Nat
    BY <1>1
  <2>2. aggs \in [1..Len(d.aggs) -> Texts]
    BY <1>2, <2>1
  <2> HIDE DEF aggs
  <2> QED BY <2>1, <2>2
<1>4. N!ValidMeasures(d) = [d EXCEPT !.aggs = aggs]
  BY DEF N!ValidMeasures
<1> HIDE DEF aggs
<1>5. /\ N!ValidMeasures(d) \in N!Slots /\ N!ValidMeasures(d).aggs = aggs
      /\ N!ValidMeasures(d).columns = d.columns /\ N!ValidMeasures(d).keywords = d.keywords
      /\ N!ValidMeasures(d).ambiguities = d.ambiguities
  BY <1>3, <1>4 DEF N!Slots
<1> QED BY <1>5 DEF aggs

LEMMA DimensionsChecked ==
    ASSUME N!NormalizerAssumption, NEW d \in N!Slots
    PROVE  /\ N!ValidDimensions(d) \in N!Slots /\ N!ValidDimensions(d).aggs = d.aggs
           /\ N!ValidDimensions(d).columns = d.columns
           /\ N!ValidDimensions(d).keywords = d.keywords
           /\ N!ValidDimensions(d).ambiguities = d.ambiguities
<1> DEFINE roles == {N!Kept(r, N!DimRoles, "DISPLAY") : r \in d.roles}
<1>1. d.roles \in SUBSET Texts /\ "DISPLAY" \in Texts
  BY TextsOfChecks DEF N!Slots
<1>2. roles \in SUBSET Texts
  BY <1>1, KeptValue
<1>3. N!ValidDimensions(d) = [d EXCEPT !.roles = roles]
  BY DEF N!ValidDimensions
<1> HIDE DEF roles
<1> QED BY <1>2, <1>3 DEF N!Slots

LEMMA ModifiersChecked ==
    ASSUME N!NormalizerAssumption, NEW d \in N!Slots
    PROVE  /\ N!ValidModifiers(d) \in N!Slots /\ N!ValidModifiers(d).aggs = d.aggs
           /\ N!ValidModifiers(d).columns = d.columns
           /\ N!ValidModifiers(d).keywords = d.keywords
           /\ N!ValidModifiers(d).ambiguities = d.ambiguities
<1> DEFINE Mod == [type : Texts, dir : Texts, by : Texts]
           Directed(m) == IF m.dir = "" THEN m
                          ELSE [m EXCEPT !.dir = N!Kept(@, N!SortDirs, "DESC")]
           mods == {Directed(m) : m \in {n \in d.mods : N!Enum(n.type, N!ModTypes) # ""}}
<1>1. d.mods \in SUBSET Mod /\ "DESC" \in Texts
  BY TextsOfChecks DEF N!Slots
<1>2. ASSUME NEW m \in Mod PROVE Directed(m) \in Mod
  <2>1. N!Kept(m.dir, N!SortDirs, "DESC") \in Texts
    BY <1>1, KeptValue
  <2> QED BY <2>1
<1>3. mods \in SUBSET Mod
  BY <1>1, <1>2
<1>4. N!ValidModifiers(d) = [d EXCEPT !.mods = mods]
  BY DEF N!ValidModifiers
<1> HIDE DEF mods
<1> QED BY <1>3, <1>4 DEF N!Slots

\* The check as a whole: slots again, the measures as MeasuresChecked has them.
LEMMA StructureChecked ==
    ASSUME N!NormalizerAssumption, NEW a \in N!Slots
    PROVE  /\ N!ValidStructure(a) \in N!Slots
           /\ N!ValidStructure(a).aggs =
                 [i \in DOMAIN a.aggs |-> N!Kept(a.aggs[i], N!AggFuncs, "UNKNOWN")]
           /\ N!ValidStructure(a).columns = a.columns
           /\ N!ValidStructure(a).keywords = a.keywords
           /\ N!ValidStructure(a).ambiguities = a.ambiguities
<1> DEFINE b == N!ValidIntent(a)
           c == N!ValidMeasures(b)
           d == N!ValidDimensions(c)
<1>1. /\ b \in N!Slots /\ b.aggs = a.aggs /\ b.columns = a.columns
      /\ b.keywords = a.keywords /\ b.ambiguities = a.ambiguities
  BY IntentChecked
<1> HIDE DEF b
<1>2. /\ c \in N!Slots
      /\ c.aggs = [i \in DOMAIN b.aggs |-> N!Kept(b.aggs[i], N!AggFuncs, "UNKNOWN")]
      /\ c.columns = b.columns /\ c.keywords = b.keywords /\ c.ambiguities = b.ambiguities
  BY <1>1, MeasuresChecked
<1> HIDE DEF c
<1>3. /\ d \in N!Slots /\ d.aggs = c.aggs /\ d.columns = c.columns
      /\ d.keywords = c.keywords /\ d.ambiguities = c.ambiguities
  BY <1>2, DimensionsChecked
<1> HIDE DEF d
<1>4. /\ N!ValidModifiers(d) \in N!Slots /\ N!ValidModifiers(d).aggs = d.aggs
      /\ N!ValidModifiers(d).columns = d.columns /\ N!ValidModifiers(d).keywords = d.keywords
      /\ N!ValidModifiers(d).ambiguities = d.ambiguities
  BY <1>3, ModifiersChecked
<1>5. N!ValidStructure(a) = N!ValidModifiers(d)
  BY DEF N!ValidStructure, b, c, d
<1> QED BY <1>1, <1>2, <1>3, <1>4, <1>5

\* The repair of the measures: every one without a function is summed up, or none, and
\* just then an ambiguity says so.
LEMMA AggregatesFixed ==
    ASSUME N!NormalizerAssumption, NEW d \in N!Slots, d.ambiguities \subseteq N!Writable
    PROVE  /\ N!PostAggregateFix(d) \in N!Slots
           /\ N!Aggregates(N!PostAggregateFix(d)) <=> N!Aggregates(d)
           /\ N!Aggregates(d) =>
                 \A i \in DOMAIN d.aggs : N!PostAggregateFix(d).aggs[i] # "NONE"
           /\ N!PostAggregateFix(d).ambiguities \ {"SUM"} = d.ambiguities
           /\ DOMAIN N!PostAggregateFix(d).aggs = DOMAIN d.aggs
           /\ N!PostAggregateFix(d).columns = d.columns
           /\ N!PostAggregateFix(d).keywords = d.keywords
           /\ \/ /\ N!PostAggregateFix(d).aggs = d.aggs
                 /\ "SUM" \notin N!PostAggregateFix(d).ambiguities
              \/ /\ \E i \in DOMAIN d.aggs : d.aggs[i] = "NONE"
                 /\ \A i \in DOMAIN d.aggs :
                       d.aggs[i] = "NONE" => N!PostAggregateFix(d).aggs[i] = "SUM"
                 /\ "SUM" \in N!PostAggregateFix(d).ambiguities
<1> DEFINE fix == N!Aggregates(d) /\ \E i \in DOMAIN d.aggs : d.aggs[i] = "NONE"
           aggs == [i \in DOMAIN d.aggs |-> IF d.aggs[i] = "NONE" THEN "SUM" ELSE d.aggs[i]]
           ambiguities == d.ambiguities \cup {"SUM"}
<1>1. "SUM" \notin d.ambiguities
  BY DEF N!Writable, N!Decisions
<1>2. CASE ~fix
  <2>1. N!PostAggregateFix(d) = d
    BY <1>2 DEF N!PostAggregateFix
  <2> QED BY <1>1, <1>2, <2>1
<1>3. CASE fix
  <2>1. d.aggs \in Seq(Texts) /\ "SUM" \in Texts
    BY TextsOfChecks DEF N!Slots
  <2>2. DOMAIN d.aggs = 1..Len(d.aggs) /\ Len(d.aggs) \in Nat
    BY <2>1
  <2>3. aggs \in [1..Len(d.aggs) -> Texts]
    BY <2>1, <2>2
  <2>4. aggs \in Seq(Texts) /\ DOMAIN aggs = DOMAIN d.aggs
    <3> HIDE DEF aggs
    <3> QED BY <2>2, <2>3
  <2>5. \A i \in DOMAIN d.aggs : /\ d.aggs[i] = "NONE" => aggs[i] = "SUM"
                                 /\ aggs[i] # "NONE"
    OBVIOUS
  <2>6. /\ ambiguities \in SUBSET (N!Writable \cup {"SUM"}) /\ "SUM" \in ambiguities
        /\ ambiguities \ {"SUM"} = d.ambiguities
    BY <1>1 DEF N!Slots
  <2>7. N!PostAggregateFix(d) = [d EXCEPT !.aggs = aggs, !.ambiguities = ambiguities]
    BY <1>3 DEF N!PostAggregateFix
  <2> HIDE DEF aggs, ambiguities
  <2>8. /\ N!PostAggregateFix(d) \in N!Slots /\ N!PostAggregateFix(d).aggs = aggs
        /\ N!PostAggregateFix(d).ambiguities = ambiguities
        /\ N!PostAggregateFix(d).columns = d.columns
        /\ N!PostAggregateFix(d).keywords = d.keywords
        /\ N!PostAggregateFix(d).primary = d.primary
        /\ N!PostAggregateFix(d).secondary = d.secondary
        /\ N!PostAggregateFix(d).roles = d.roles
    BY <2>4, <2>6, <2>7 DEF N!Slots
  <2>9. N!Aggregates(N!PostAggregateFix(d)) <=> N!Aggregates(d)
    BY <2>8 DEF N!Aggregates, N!IntentsOf
  <2> QED BY <1>3, <2>4, <2>5, <2>6, <2>8, <2>9
<1> QED BY <1>2, <1>3

\* A rank is by the first measure where there is one.
LEMMA RanksFixed ==
    ASSUME N!NormalizerAssumption, NEW d \in N!Slots
    PROVE  /\ N!PostRankFix(d) \in N!Slots
           /\ N!PostRankFix(d).aggs = d.aggs /\ N!PostRankFix(d).columns = d.columns
           /\ N!PostRankFix(d).keywords = d.keywords
           /\ N!PostRankFix(d).ambiguities = d.ambiguities
           /\ N!Aggregates(N!PostRankFix(d)) <=> N!Aggregates(d)
           /\ \A m \in N!PostRankFix(d).mods :
                 m.type = "RANK" /\ d.aggs # <<>> => m.by # ""
<1> DEFINE Mod == [type : Texts, dir : Texts, by : Texts]
           Fixed(m) == IF m.type = "RANK" /\ m.by = "" /\ d.aggs # <<>>
                       THEN [m EXCEPT !.by = "measure"] ELSE m
           mods == {Fixed(m) : m \in d.mods}
<1>1. d.mods \in SUBSET Mod /\ "measure" \in Texts
  BY TextsOfChecks DEF N!Slots
<1>2. ASSUME NEW m \in Mod
      PROVE  /\ Fixed(m) \in Mod
             /\ Fixed(m).type = "RANK" /\ d.aggs # <<>> => Fixed(m).by # ""
  BY <1>1
<1>3. mods \in SUBSET Mod /\ \A m \in mods : m.type = "RANK" /\ d.aggs # <<>> => m.by # ""
  BY <1>1, <1>2
<1>4. N!PostRankFix(d) = [d EXCEPT !.mods = mods]
  BY DEF N!PostRankFix
<1> HIDE DEF mods
<1>5. N!Aggregates(N!PostRankFix(d)) <=> N!Aggregates(d)
  BY <1>4 DEF N!Slots, N!Aggregates, N!IntentsOf
<1> QED BY <1>3, <1>4, <1>5 DEF N!Slots

\* The words to search for have the columns to show, but for the words too common.
LEMMA WordsFixed ==
    ASSUME NEW d \in N!Slots
    PROVE  LET e == N!PostBuildSqlHistorySearch(
                        N!PostOptimizeKeywords(N!PostOutputHintMerge(d)))
           IN  /\ e \in N!Slots /\ e.aggs = d.aggs /\ e.mods = d.mods
               /\ e.ambiguities = d.ambiguities
               /\ N!Aggregates(e) <=> N!Aggregates(d)
               /\ d.keywords => e.columns \ (Stopwords \cup {""}) \subseteq e.words
<1> DEFINE merged == IF d.keywords THEN d.words \cup d.columns ELSE d.words
           words == merged \ (Stopwords \cup {""})
           b == N!PostOutputHintMerge(d)
           c == N!PostOptimizeKeywords(b)
<1>1. merged \in SUBSET Texts /\ words \in SUBSET Texts
  BY DEF N!Slots
<1>2. d.keywords => d.columns \ (Stopwords \cup {""}) \subseteq words
  OBVIOUS
<1>3. b \in N!Slots /\ b = [d EXCEPT !.words = merged]
  <2>1. CASE d.keywords
    <3>1. b = [d EXCEPT !.words = merged]
      BY <2>1 DEF N!PostOutputHintMerge
    <3> HIDE DEF b, merged
    <3> QED BY <1>1, <3>1 DEF N!Slots
  <2>2. CASE ~d.keywords
    <3>1. b = d /\ merged = d.words
      BY <2>2 DEF N!PostOutputHintMerge
    <3>2. d = [d EXCEPT !.words = d.words]
      BY DEF N!Slots
    <3> QED BY <3>1, <3>2
  <2> QED BY <2>1, <2>2
<1>4. b.words = merged
  <2> HIDE DEF b, merged
  <2> QED BY <1>3 DEF N!Slots
<1>5. c = [b EXCEPT !.words = words]
  <2>1. c = [b EXCEPT !.words = b.words \ (Stopwords \cup {""})]
    BY DEF N!PostOptimizeKeywords
  <2> HIDE DEF b, merged
  <2> QED BY <1>4, <2>1
<1>6. N!PostBuildSqlHistorySearch(c) = [c EXCEPT !.keywords = TRUE]
  BY DEF N!PostBuildSqlHistorySearch
<1> DEFINE e == N!PostBuildSqlHistorySearch(c)
<1>7. /\ e \in N!Slots /\ e.aggs = d.aggs /\ e.mods = d.mods /\ e.words = words
      /\ e.ambiguities = d.ambiguities /\ e.columns = d.columns
      /\ e.primary = d.primary /\ e.secondary = d.secondary /\ e.roles = d.roles
  <2>1. e = [c EXCEPT !.keywords = TRUE]
    BY <1>6
  <2> HIDE DEF b, c, e, merged, words
  <2> QED BY <1>1, <1>3, <1>5, <2>1 DEF N!Slots
<1>8. N!Aggregates(e) <=> N!Aggregates(d)
  <2> HIDE DEF b, c, e, merged, words
  <2> QED BY <1>7 DEF N!Aggregates, N!IntentsOf
<1> QED BY <1>2, <1>7, <1>8

\* The four promises, of the slots d made of the answer a; and d has one ambiguity more
\* than a at most.
Promises(a, d) ==
    /\ (\E i \in DOMAIN d.aggs : d.aggs[i] = "SUM" /\ a.aggs[i] = "NONE")
          <=> "SUM" \in d.ambiguities
    /\ d.ambiguities \ {"SUM"} = a.ambiguities
    /\ N!Aggregates(d) => \A i \in DOMAIN d.aggs : d.aggs[i] # "NONE"
    /\ a.keywords => d.columns \ (Stopwords \cup {""}) \subseteq d.words
    /\ \A m \in d.mods : m.type = "RANK" /\ d.aggs # <<>> => m.by # ""

\* What the repair makes of an answer that was checked keeps them.
LEMMA RepairKeepsPromises ==
    ASSUME N!NormalizerAssumption, NEW a \in LlmAnswers
    PROVE  LET d == N!Postprocess(N!ValidStructure(a))
           IN  d \in N!Slots /\ Promises(a, d)
<1> DEFINE b == N!ValidStructure(a)
           c == N!PostAggregateFix(b)
           r == N!PostRankFix(c)
           d == N!PostBuildSqlHistorySearch(N!PostOptimizeKeywords(N!PostOutputHintMerge(r)))
<1>1. a \in N!Slots /\ a.ambiguities \subseteq N!Writable
  BY DEF N!NormalizerAssumption
<1>2. /\ b \in N!Slots /\ b.keywords = a.keywords
      /\ b.ambiguities = a.ambiguities /\ b.ambiguities \subseteq N!Writable
      /\ b.aggs = [i \in DOMAIN a.aggs |-> N!Kept(a.aggs[i], N!AggFuncs, "UNKNOWN")]
  BY <1>1, StructureChecked
<1>3. DOMAIN b.aggs = DOMAIN a.aggs
      /\ \A i \in DOMAIN a.aggs : b.aggs[i] = "NONE" <=> a.aggs[i] = "NONE"
  <2>1. \A i \in DOMAIN a.aggs : b.aggs[i] = N!Kept(a.aggs[i], N!AggFuncs, "UNKNOWN")
    BY <1>2
  <2> QED BY <1>2, <2>1, NoneIsKept
<1> HIDE DEF b
<1>4. /\ c \in N!Slots /\ DOMAIN c.aggs = DOMAIN b.aggs /\ c.keywords = b.keywords
      /\ c.ambiguities \ {"SUM"} = a.ambiguities
      /\ N!Aggregates(c) => \A i \in DOMAIN c.aggs : c.aggs[i] # "NONE"
      /\ \/ c.aggs = b.aggs /\ "SUM" \notin c.ambiguities
         \/ /\ \E i \in DOMAIN b.aggs : b.aggs[i] = "NONE"
            /\ \A i \in DOMAIN b.aggs : b.aggs[i] = "NONE" => c.aggs[i] = "SUM"
            /\ "SUM" \in c.ambiguities
  BY <1>2, AggregatesFixed
<1>5. (\E i \in DOMAIN c.aggs : c.aggs[i] = "SUM" /\ a.aggs[i] = "NONE")
          <=> "SUM" \in c.ambiguities
  BY <1>3, <1>4
<1> HIDE DEF c
<1>6. /\ r \in N!Slots /\ r.aggs = c.aggs /\ r.keywords = c.keywords
      /\ r.ambiguities = c.ambiguities /\ (N!Aggregates(r) <=> N!Aggregates(c))
      /\ \A m \in r.mods : m.type = "RANK" /\ c.aggs # <<>> => m.by # ""
  BY <1>4, RanksFixed
<1> HIDE DEF r
<1>7. /\ d \in N!Slots /\ d.aggs = r.aggs /\ d.mods = r.mods
      /\ d.ambiguities = r.ambiguities /\ (N!Aggregates(d) <=> N!Aggregates(r))
      /\ r.keywords => d.columns \ (Stopwords \cup {""}) \subseteq d.words
  BY <1>6, WordsFixed
<1>8. N!Postprocess(N!ValidStructure(a)) = d
  BY DEF N!Postprocess, b, c, r
<1> HIDE DEF d
<1>9. Promises(a, d)
  <2>1. (\E i \in DOMAIN d.aggs : d.aggs[i] = "SUM" /\ a.aggs[i] = "NONE")
            <=> "SUM" \in d.ambiguities
    BY <1>5, <1>6, <1>7
  <2>2. N!Aggregates(d) => \A i \in DOMAIN d.aggs : d.aggs[i] # "NONE"
    BY <1>4, <1>6, <1>7
  <2>3. \A m \in d.mods : m.type = "RANK" /\ d.aggs # <<>> => m.by # ""
    BY <1>6, <1>7
  <2>4. /\ d.ambiguities \ {"SUM"} = a.ambiguities
        /\ a.keywords => d.columns \ (Stopwords \cup {""}) \subseteq d.words
    BY <1>2, <1>4, <1>6, <1>7
  <2> QED BY ONLY <2>1, <2>2, <2>3, <2>4 DEF Promises
<1> QED BY <1>7, <1>8, <1>9

\* At first there is nothing but the question.
LEMMA NormalizerInit == N!Init => NormalizerInv
<1> SUFFICES ASSUME N!Init PROVE NormalizerInv
  OBVIOUS
<1> USE DEF N!Init
<1>1. /\ normalized.query = "none" /\ normalized.pending = {} /\ normalized.resolved = {}
      /\ ResultFields
  BY DEF N!Nothing, ResultFields
<1>2. N!TypeOK
  BY <1>1 DEF N!TypeOK
<1> QED BY <1>1, <1>2 DEF NormalizerInv, DataIsOfAnswer, ResultIsOfData

\* An exception leaves the default query and nothing else.
LEMMA FailKeeps ==
    ASSUME NormalizerInv, N!Fail, UNCHANGED <<text, kept>> PROVE NormalizerInv'
<1>1. /\ normalized' = [N!Nothing EXCEPT !.query = "default"] /\ phase' = "done"
      /\ data' = N!NoData /\ source' = N!NoData
  BY DEF N!Fail
<1>2. /\ normalized'.query = "default" /\ normalized'.pending = {}
      /\ normalized'.resolved = {} /\ ResultFields'
  BY <1>1 DEF N!Nothing, ResultFields
<1>3. N!TypeOK'
  BY <1>1, <1>2 DEF NormalizerInv, N!TypeOK
<1> QED BY <1>1, <1>2, <1>3 DEF NormalizerInv, DataIsOfAnswer, ResultIsOfData

\* A phase leaves the answer of the LLM as checked.
LEMMA PhaseKeeps ==
    ASSUME N!NormalizerAssumption, NormalizerInv, UNCHANGED <<text, kept>>,
           NEW a \in LlmAnswers, NEW next \in {"phase2", "post"}, N!Phase(a, next)
    PROVE  NormalizerInv'
<1>1. CASE N!Fail
  BY <1>1, FailKeeps
<1>2. CASE /\ data' = N!ValidStructure(a) /\ source' = a /\ phase' = next
           /\ normalized' = [normalized EXCEPT !.steps = Append(@, next)]
  <2>1. a \in N!Slots
    BY DEF N!NormalizerAssumption
  <2>2. data' \in N!Slots
    BY <1>2, <2>1, StructureChecked
  <2>3. /\ normalized'.query = normalized.query /\ normalized'.pending = normalized.pending
        /\ normalized'.resolved = normalized.resolved /\ ResultFields'
    BY <1>2 DEF NormalizerInv, ResultFields
  <2>4. N!TypeOK'
    BY <1>2, <2>2, <2>3 DEF NormalizerInv, N!TypeOK
  <2> QED BY <1>2, <2>3, <2>4 DEF NormalizerInv, DataIsOfAnswer, ResultIsOfData
<1> QED BY <1>1, <1>2 DEF N!Phase

\* The repair is of what the last phase left.
LEMMA FinishKeeps ==
    ASSUME N!NormalizerAssumption, NormalizerInv, N!Finish PROVE NormalizerInv'
<1>1. CASE N!Fail
  BY <1>1, FailKeeps DEF N!Finish
<1>2. CASE ~N!Fail
  <2>1. /\ phase = "post" /\ phase' = "signals" /\ data' = N!Postprocess(data)
        /\ UNCHANGED <<text, kept, source, normalized>>
    BY <1>2 DEF N!Finish
  <2>2. source \in LlmAnswers /\ data = N!ValidStructure(source)
    BY <2>1 DEF NormalizerInv, DataIsOfAnswer
  <2>3. data' \in N!Slots
    BY <2>1, <2>2, RepairKeepsPromises
  <2>4. N!TypeOK' /\ ResultFields'
    BY <2>1, <2>3 DEF NormalizerInv, N!TypeOK, ResultFields
  <2> QED BY <2>1, <2>2, <2>4 DEF NormalizerInv, DataIsOfAnswer, ResultIsOfData
<1> QED BY <1>1, <1>2

\* The update tells what was found ambiguous.
LEMMA SignalsKeep ==
    ASSUME N!NormalizerAssumption, NormalizerInv, N!Signals PROVE NormalizerInv'
<1>1. /\ phase = "signals" /\ phase' = "done" /\ UNCHANGED <<text, kept, data, source>>
      /\ "refused" \notin data.ambiguities
      /\ normalized'.query = "made" /\ normalized'.pending = data.ambiguities \cap {"ASK"}
      /\ normalized'.resolved = data.ambiguities \ {"ASK"} /\ ResultFields'
  BY DEF N!Signals, ResultFields
<1>2. source \in LlmAnswers /\ data = N!Postprocess(N!ValidStructure(source))
  BY <1>1 DEF NormalizerInv, DataIsOfAnswer
<1>3. data \in N!Slots
  BY <1>2, RepairKeepsPromises
<1>4. data.ambiguities \subseteq N!Decisions \cup {"SUM"}
  BY <1>1, <1>3 DEF N!Slots, N!Writable
<1>5. N!TypeOK'
  BY <1>1, <1>4 DEF NormalizerInv, N!TypeOK
<1> QED BY <1>1, <1>2, <1>5 DEF NormalizerInv, DataIsOfAnswer, ResultIsOfData

\* A signal that is refused leaves nothing, and was written by the LLM.
LEMMA RefusedKeeps ==
    ASSUME N!NormalizerAssumption, NormalizerInv, N!SignalRefused PROVE NormalizerInv'
<1>1. /\ phase = "signals" /\ phase' = "done" /\ UNCHANGED <<text, kept, data, source>>
      /\ "refused" \in data.ambiguities
      /\ normalized' = [N!Nothing EXCEPT !.query = "raised"]
  BY DEF N!SignalRefused
<1>2. source \in LlmAnswers /\ data = N!Postprocess(N!ValidStructure(source))
  BY <1>1 DEF NormalizerInv, DataIsOfAnswer
<1>3. data.ambiguities \ {"SUM"} = source.ambiguities
  BY <1>2, RepairKeepsPromises DEF Promises
<1>4. "refused" \in source.ambiguities
  BY <1>1, <1>3
<1>5. /\ normalized'.query = "raised" /\ normalized'.pending = {}
      /\ normalized'.resolved = {} /\ ResultFields'
  BY <1>1 DEF N!Nothing, ResultFields
<1>6. N!TypeOK'
  BY <1>1, <1>5 DEF NormalizerInv, N!TypeOK
<1> QED BY <1>1, <1>2, <1>4, <1>5, <1>6 DEF NormalizerInv, DataIsOfAnswer, ResultIsOfData

\* Every step keeps the invariant.
LEMMA NormalizerStep ==
    ASSUME N!NormalizerAssumption, NormalizerInv, [N!Next]_(N!vars) PROVE NormalizerInv'
<1>1. CASE UNCHANGED N!vars
  BY <1>1 DEF N!vars, NormalizerInv, N!TypeOK, ResultFields, DataIsOfAnswer, ResultIsOfData
<1>2. CASE N!Rewrite
  BY <1>2 DEF N!Rewrite, NormalizerInv, N!TypeOK, ResultFields, DataIsOfAnswer,
              ResultIsOfData
<1>3. CASE N!Phase1
  BY <1>3, PhaseKeeps DEF N!Phase1
<1>4. CASE N!Phase2
  BY <1>4, PhaseKeeps DEF N!Phase2
<1>5. CASE N!Done
  BY <1>1, <1>5 DEF N!Done
<1> QED BY <1>1, <1>2, <1>3, <1>4, <1>5, FinishKeeps, SignalsKeep, RefusedKeeps
   DEF N!Next

\* Wherever the node has come to, its data is one answer of the LLM, checked and, at the
\* end, repaired.
THEOREM NormalizerInvariance == ASSUME N!NormalizerAssumption PROVE N!Spec => []NormalizerInv
<1>1. N!Init => NormalizerInv
  BY NormalizerInit
<1>2. NormalizerInv /\ [N!Next]_(N!vars) => NormalizerInv'
  BY NormalizerStep
<1> QED BY <1>1, <1>2, PTL DEF N!Spec

\* Whatever the LLM answers in either phase, the normalized query tells what it sums up,
\* has no NONE left when it aggregates, asks what the LLM asks, searches for the columns
\* to show and has a measure for its ranks; a failed one is the default; and the node
\* raises only because of an ambiguity the LLM described in a way that is refused.
THEOREM QueryKeepsPromises == ASSUME N!NormalizerAssumption PROVE N!Spec => []NormalizedQueryHolds
<1>1. NormalizerInv => NormalizedQueryHolds
  <2> SUFFICES ASSUME NormalizerInv PROVE N!TypeOK /\ N!NormalizedQueryHolds
    BY DEF NormalizedQueryHolds
  <2>1. CASE \/ phase # "done" \/ normalized = [N!Nothing EXCEPT !.query = "default"]
             \/ /\ normalized = [N!Nothing EXCEPT !.query = "raised"]
                /\ "refused" \in source.ambiguities
    BY <2>1 DEF NormalizerInv, N!NormalizedQueryHolds
  <2>2. CASE /\ phase = "done" /\ normalized.query = "made" /\ source \in LlmAnswers
             /\ data = N!Postprocess(N!ValidStructure(source))
             /\ normalized.pending = data.ambiguities \cap {"ASK"}
             /\ normalized.resolved = data.ambiguities \ {"ASK"}
    <3>0. Promises(source, data)
      BY <2>2, RepairKeepsPromises
    <3>1. /\ (\E i \in DOMAIN data.aggs : data.aggs[i] = "SUM" /\ source.aggs[i] = "NONE")
                <=> "SUM" \in data.ambiguities
          /\ data.ambiguities \ {"SUM"} = source.ambiguities
          /\ N!Aggregates(data) => \A i \in DOMAIN data.aggs : data.aggs[i] # "NONE"
          /\ source.keywords => data.columns \ (Stopwords \cup {""}) \subseteq data.words
          /\ \A m \in data.mods : m.type = "RANK" /\ data.aggs # <<>> => m.by # ""
      BY ONLY <3>0 DEF Promises
    <3>2. "SUM" \in normalized.resolved <=> "SUM" \in data.ambiguities
      BY <2>2
    <3>3. N!SumsAreTold
      BY <3>1, <3>2 DEF N!SumsAreTold
    <3>4. N!ColumnsAreSearched /\ N!RanksHaveMeasure /\ N!NoneIsSummed
      BY <3>1 DEF N!ColumnsAreSearched, N!RanksHaveMeasure, N!NoneIsSummed
    <3>5. "ASK" \in source.ambiguities <=> "ASK" \in normalized.pending
      BY <2>2, <3>1
    <3> QED BY <2>2, <3>3, <3>4, <3>5 DEF NormalizerInv, N!NormalizedQueryHolds,
            N!PromisesKept
  <2> QED BY <2>1, <2>2 DEF NormalizerInv, ResultIsOfData
<1> QED BY <1>1, NormalizerInvariance, PTL

-----------------------------------------------------------------------------
(* Insight: where the marks of a turn come from                               *)

Steps == [tool : {"tables", "cases"}, no : Nat, hyp : Nat,
          status : {"DONE", "FAILED", "PENDING"}]
Marks == [status : I!Statuses \cup {"none"}, step : Nat, hyp : Nat]

InsightTypes ==
    /\ I!TypeOK /\ made \in Nat /\ judged \in BOOLEAN
    /\ plan \in Seq(Steps) /\ dead \in Seq(Nat) /\ tables \in [Seen -> Marks]
    /\ written \in [n : Nat, uses : SUBSET Seen]

\* The steps of all plans are numbered on, and each has a hypothesis.
StepsNumbered == \A i \in DOMAIN plan : plan[i].no = i /\ plan[i].hyp \in DOMAIN hyps

\* A table with a step was found by it: the step is done and of the same hypothesis.
StepsFound ==
    \A t \in Seen :
        tables[t].step # 0 =>
            /\ tables[t].step \in DOMAIN plan
            /\ plan[tables[t].step].tool = "tables"
            /\ plan[tables[t].step].status = "DONE"
            /\ plan[tables[t].step].hyp = tables[t].hyp

\* The step that is about to be run has found nothing yet.
LastStepOpen ==
    way = "explore" => plan # <<>> /\ \A t \in Seen : tables[t].step # Len(plan)

\* A hypothesis failed if and only if it left a dead end, and it left one.
DeadAreFailed ==
    /\ \A h \in DOMAIN hyps : hyps[h] = "FAILED" <=> \E i \in DOMAIN dead : dead[i] = h
    /\ \A i, j \in DOMAIN dead : dead[i] = dead[j] /\ dead[i] # 0 => i = j

\* Until the user answers there is one hypothesis that did not fail, the current one;
\* without one there is no way to an SQL but to force it.
OneIsActive ==
    /\ current # 0 => hyps[current] = "ACTIVE"
    /\ ~asked => \A h \in DOMAIN hyps : h = current \/ hyps[h] = "FAILED"
    /\ ~asked /\ ~forced /\ hyps # <<>> /\ (way # "ended" \/ I!Success) => current # 0

\* What a turn ends with was judged last, and reads tables in use.
SqlIsJudged ==
    /\ way = "validate" => written.n # 0
    /\ ~judged => checks = 0 /\ summary = 0
    /\ I!Success => /\ way = "ended" /\ valid = written /\ valid.n # 0
                    /\ judged => checks = valid.n /\ summary = valid.n
                    /\ I!Active # {} => valid.uses \subseteq I!Active

InsightInv ==
    /\ InsightTypes /\ StepsNumbered /\ StepsFound /\ LastStepOpen
    /\ DeadAreFailed /\ OneIsActive /\ SqlIsJudged

\* The marks of the way and the accounts of the SQL, each left alone by some steps.
LEMMA MarksStay ==
    ASSUME InsightInv, UNCHANGED <<hyps, current, plan, tables, dead>>
    PROVE  /\ StepsNumbered' /\ StepsFound' /\ DeadAreFailed'
           /\ I!Active' = I!Active /\ I!Explored' = I!Explored
BY DEF InsightInv, StepsNumbered, StepsFound, DeadAreFailed, I!Active, I!Explored, I!Rejected

\* A turn starts with one step of one hypothesis, or with tables alone.
LEMMA InsightInit == ASSUME I!Init PROVE InsightInv
<1> USE DEF I!Init
<1>1. /\ written.n = 0 /\ valid = written /\ I!NoSql = written /\ ~I!Success
      /\ written \in [n : Nat, uses : SUBSET Seen]
  BY DEF I!NoSql, I!Success
<1>2. /\ dead \in Seq(Nat) /\ DOMAIN dead = {}
  OBVIOUS
<1>3. CASE /\ way = "explore" /\ hyps = <<"ACTIVE">> /\ current = 1
           /\ plan \in {<<I!ToDo(tool, 1, 1)>> : tool \in {"tables", "cases"}}
           /\ tables = [t \in Seen |-> I!Unknown]
  <2>1. PICK tool \in {"tables", "cases"} : plan = <<I!ToDo(tool, 1, 1)>>
    BY <1>3
  <2>2. I!ToDo(tool, 1, 1) \in Steps /\ I!ToDo(tool, 1, 1).no = 1 /\ I!ToDo(tool, 1, 1).hyp = 1
    BY DEF I!ToDo, Steps
  <2>3. plan \in Seq(Steps) /\ DOMAIN plan = {1} /\ plan[1] = I!ToDo(tool, 1, 1) /\ Len(plan) = 1
    BY <2>1, <2>2
  <2>4. /\ hyps \in Seq({"ACTIVE", "FAILED"}) /\ Len(hyps) = 1
        /\ DOMAIN hyps = {1} /\ hyps[1] = "ACTIVE"
    BY <1>3
  <2>5. I!Unknown \in Marks /\ I!Unknown.step = 0
    BY DEF I!Unknown, Marks
  <2>6. tables \in [Seen -> Marks] /\ I!Explored = {}
    BY <1>3, <2>5 DEF I!Explored
  <2>7. \A t \in Seen : tables[t].step = 0
    BY <1>3, <2>5
  <2>8. InsightTypes
    BY <1>1, <1>2, <1>3, <2>3, <2>4, <2>6 DEF InsightTypes, I!TypeOK
  <2>9. StepsNumbered
    BY <2>2, <2>3, <2>4 DEF StepsNumbered
  <2>10. StepsFound
    BY <2>7 DEF StepsFound
  <2>11. plan # <<>>
    BY <2>1
  <2>12. LastStepOpen
    BY <2>3, <2>7, <2>11 DEF LastStepOpen
  <2>13. DeadAreFailed /\ OneIsActive /\ SqlIsJudged
    BY <1>1, <1>2, <1>3, <2>4 DEF DeadAreFailed, OneIsActive, SqlIsJudged
  <2> QED BY <2>8, <2>9, <2>10, <2>12, <2>13 DEF InsightInv
<1>4. CASE /\ way = "generate" /\ hyps = <<>> /\ current = 0 /\ plan = <<>>
           /\ tables = [t \in Seen |-> [I!Unknown EXCEPT !.status = "SELECTED"]]
  <2>1. hyps \in Seq({"ACTIVE", "FAILED"}) /\ Len(hyps) = 0 /\ DOMAIN hyps = {}
        /\ plan \in Seq(Steps) /\ DOMAIN plan = {}
    BY <1>4
  <2>2. \A t \in Seen : tables[t] \in Marks /\ tables[t].step = 0 /\ tables[t].hyp = 0
                        /\ tables[t].status \in I!Statuses
    BY <1>4 DEF I!Unknown, Marks, I!Statuses
  <2>3. tables \in [Seen -> Marks]
    BY <1>4, <2>2
  <2>4. \A t \in I!Explored : tables[t].status \in I!Statuses /\ tables[t].hyp \in 0..Len(hyps)
    BY <2>1, <2>2 DEF I!Explored
  <2>5. InsightTypes
    BY <1>1, <1>2, <1>4, <2>1, <2>3, <2>4 DEF InsightTypes, I!TypeOK
  <2>6. StepsNumbered /\ StepsFound /\ LastStepOpen
    BY <1>4, <2>1, <2>2 DEF StepsNumbered, StepsFound, LastStepOpen
  <2>7. DeadAreFailed /\ OneIsActive /\ SqlIsJudged
    BY <1>1, <1>2, <1>4, <2>1 DEF DeadAreFailed, OneIsActive, SqlIsJudged
  <2> QED BY <2>5, <2>6, <2>7 DEF InsightInv
<1> QED BY <1>3, <1>4

\* What the last step of the plan finds gets its number and its hypothesis; what was
\* found before keeps its own.
LEMMA ExploreMarks ==
    ASSUME InsightInv, I!Explore
    PROVE  /\ Len(plan) \in DOMAIN plan /\ plan' \in Seq(Steps) /\ Len(plan') = Len(plan)
           /\ DOMAIN plan' = DOMAIN plan
           /\ \A i \in DOMAIN plan : i # Len(plan) => plan'[i] = plan[i]
           /\ LET k == Len(plan)
              IN  /\ plan'[k].tool = plan[k].tool /\ plan'[k].no = plan[k].no
                  /\ plan'[k].hyp = plan[k].hyp
                  /\ tables' \in [Seen -> Marks]
                  /\ \A t \in Seen :
                        \/ tables'[t] = tables[t]
                        \/ /\ tables'[t].step = tables[t].step /\ tables'[t].hyp = tables[t].hyp
                           /\ tables[t] # I!Unknown /\ tables'[t].status \in I!Statuses
                        \/ /\ tables[t] = I!Unknown /\ tables'[t].status \in I!Statuses
                           /\ tables'[t].step = 0 /\ tables'[t].hyp = 0
                        \/ /\ tables[t] = I!Unknown /\ tables'[t].status \in I!Statuses
                           /\ tables'[t].step = k /\ tables'[t].hyp = plan[k].hyp
                           /\ plan[k].tool = "tables" /\ plan'[k].status = "DONE"
<1> DEFINE k == Len(plan)
<1>1. plan \in Seq(Steps) /\ plan # <<>> /\ tables \in [Seen -> Marks]
  BY DEF InsightInv, InsightTypes, LastStepOpen, I!Explore
<1>2. k \in DOMAIN plan /\ k \in Nat /\ k # 0 /\ plan[k] \in Steps /\ k \in 1..Len(plan)
  BY <1>1
<1>3. PICK status \in {"DONE", "FAILED", "PENDING"} :
        /\ plan' = [plan EXCEPT ![k].status = status]
        /\ \E found \in IF status = "DONE" THEN SUBSET Seen ELSE {{}},
              verdict \in IF status = "DONE" THEN [Seen -> I!Statuses]
                          ELSE {[t \in Seen |-> "PENDING"]} :
             tables' = [t \in Seen |->
                IF tables[t] = I!Unknown
                THEN IF t \in found THEN I!Found(plan[k].tool, plan[k], verdict[t])
                     ELSE I!Unknown
                ELSE IF tables[t].status = "PENDING" /\ status = "DONE"
                THEN [tables[t] EXCEPT !.status = verdict[t]]
                ELSE tables[t]]
  BY DEF I!Explore
<1>3a. PICK found \in IF status = "DONE" THEN SUBSET Seen ELSE {{}},
            verdict \in IF status = "DONE" THEN [Seen -> I!Statuses]
                        ELSE {[t \in Seen |-> "PENDING"]} :
         tables' = [t \in Seen |->
            IF tables[t] = I!Unknown
            THEN IF t \in found THEN I!Found(plan[k].tool, plan[k], verdict[t])
                 ELSE I!Unknown
            ELSE IF tables[t].status = "PENDING" /\ status = "DONE"
            THEN [tables[t] EXCEPT !.status = verdict[t]]
            ELSE tables[t]]
  BY <1>3
<1> DEFINE step == [plan[k] EXCEPT !.status = status]
<1>4. step \in Steps /\ step.tool = plan[k].tool /\ step.no = plan[k].no
      /\ step.hyp = plan[k].hyp /\ step.status = status
  BY <1>2 DEF Steps
<1>5. plan' = [plan EXCEPT ![k] = step]
  BY <1>3
<1> HIDE DEF step
<1>6. /\ plan' \in Seq(Steps) /\ Len(plan') = Len(plan) /\ DOMAIN plan' = DOMAIN plan
      /\ plan'[k] = step /\ \A i \in DOMAIN plan : i # k => plan'[i] = plan[i]
  BY <1>1, <1>2, <1>4, <1>5, ExceptSeq
<1>7. \A t \in Seen : verdict[t] \in I!Statuses
  BY <1>3a DEF I!Statuses
<1>8. ASSUME NEW t \in Seen
      PROVE  /\ tables'[t] \in Marks
             /\ \/ tables'[t] = tables[t]
                \/ /\ tables'[t].step = tables[t].step /\ tables'[t].hyp = tables[t].hyp
                   /\ tables[t] # I!Unknown /\ tables'[t].status \in I!Statuses
                \/ /\ tables[t] = I!Unknown /\ tables'[t].status \in I!Statuses
                   /\ tables'[t].step = 0 /\ tables'[t].hyp = 0
                \/ /\ tables[t] = I!Unknown /\ tables'[t].status \in I!Statuses
                   /\ tables'[t].step = k /\ tables'[t].hyp = plan[k].hyp
                   /\ plan[k].tool = "tables" /\ status = "DONE"
  <2>1. tables[t] \in Marks /\ verdict[t] \in I!Statuses
    BY <1>1, <1>7
  <2>2. CASE tables[t] = I!Unknown /\ t \in found
    <3>1. tables'[t] = I!Found(plan[k].tool, plan[k], verdict[t]) /\ status = "DONE"
      BY <1>3a, <2>2
    <3>2. CASE plan[k].tool = "tables"
      <4>1. tables'[t] = [status |-> verdict[t], step |-> plan[k].no, hyp |-> plan[k].hyp]
        BY <3>1, <3>2 DEF I!Found
      <4>2. plan[k].no = k /\ plan[k].hyp \in Nat
        BY <1>2 DEF InsightInv, StepsNumbered, Steps
      <4> QED BY <1>2, <2>1, <2>2, <3>1, <3>2, <4>1, <4>2 DEF Marks
    <3>3. CASE plan[k].tool # "tables"
      <4>1. tables'[t] = [I!Unknown EXCEPT !.status = verdict[t]]
        BY <3>1, <3>3 DEF I!Found
      <4> QED BY <2>1, <2>2, <4>1 DEF Marks, I!Unknown
    <3> QED BY <3>2, <3>3
  <2>3. CASE tables[t] = I!Unknown /\ t \notin found
    <3>1. tables'[t] = tables[t]
      BY <1>3a, <2>3
    <3> QED BY <2>1, <3>1
  <2>4. CASE tables[t] # I!Unknown /\ tables[t].status = "PENDING" /\ status = "DONE"
    <3>1. tables'[t] = [tables[t] EXCEPT !.status = verdict[t]]
      BY <1>3a, <2>4
    <3> QED BY <2>1, <2>4, <3>1 DEF Marks
  <2>5. CASE tables[t] # I!Unknown /\ ~(tables[t].status = "PENDING" /\ status = "DONE")
    <3>1. tables'[t] = tables[t]
      BY <1>3a, <2>5
    <3> QED BY <2>1, <3>1
  <2> QED BY <2>2, <2>3, <2>4, <2>5
<1>9. tables' \in [Seen -> Marks]
  BY <1>3a, <1>8
<1> QED BY <1>2, <1>4, <1>6, <1>8, <1>9

\* A step that is run keeps the invariant.
LEMMA ExploreKeeps == ASSUME InsightInv, I!Explore PROVE InsightInv'
<1> DEFINE k == Len(plan)
<1>1. /\ way = "explore" /\ way' = "gate"
      /\ UNCHANGED <<judged, hyps, current, dead, written, valid, checks, summary, missing,
                     asked, forced, made>>
  BY DEF I!Explore, I!verdicts
<1>2. /\ k \in DOMAIN plan /\ plan' \in Seq(Steps) /\ DOMAIN plan' = DOMAIN plan
      /\ \A i \in DOMAIN plan : i # k => plan'[i] = plan[i]
      /\ plan'[k].tool = plan[k].tool /\ plan'[k].no = plan[k].no /\ plan'[k].hyp = plan[k].hyp
      /\ tables' \in [Seen -> Marks]
      /\ \A t \in Seen :
            \/ tables'[t] = tables[t]
            \/ /\ tables'[t].step = tables[t].step /\ tables'[t].hyp = tables[t].hyp
               /\ tables[t] # I!Unknown /\ tables'[t].status \in I!Statuses
            \/ /\ tables[t] = I!Unknown /\ tables'[t].status \in I!Statuses
               /\ tables'[t].step = 0 /\ tables'[t].hyp = 0
            \/ /\ tables[t] = I!Unknown /\ tables'[t].status \in I!Statuses
               /\ tables'[t].step = k /\ tables'[t].hyp = plan[k].hyp
               /\ plan[k].tool = "tables" /\ plan'[k].status = "DONE"
  BY ExploreMarks
<1>3. /\ ~I!Success /\ ~I!Success'
  BY <1>1 DEF InsightInv, SqlIsJudged, I!Success
<1>4. plan[k].hyp \in DOMAIN hyps /\ plan[k].hyp \in 0..Len(hyps) /\ Len(hyps) \in Nat
  <2>1. plan[k].hyp \in DOMAIN hyps /\ hyps \in Seq({"ACTIVE", "FAILED"})
    BY <1>2 DEF InsightInv, StepsNumbered, InsightTypes, I!TypeOK
  <2> QED BY <2>1
<1>5. \A t \in I!Explored' : tables'[t].status \in I!Statuses /\ tables'[t].hyp \in 0..Len(hyps)
  <2>1. SUFFICES ASSUME NEW t \in Seen, tables'[t] # I!Unknown
                 PROVE  tables'[t].status \in I!Statuses /\ tables'[t].hyp \in 0..Len(hyps)
    BY DEF I!Explored, I!Unknown
  <2>2. tables[t] # I!Unknown => tables[t].status \in I!Statuses /\ tables[t].hyp \in 0..Len(hyps)
    BY DEF InsightInv, InsightTypes, I!TypeOK, I!Explored
  <2> QED BY <1>2, <1>4, <2>1, <2>2
<1>6. InsightTypes'
  BY <1>1, <1>2, <1>5 DEF InsightInv, InsightTypes, I!TypeOK
<1>7. StepsNumbered'
  BY <1>1, <1>2 DEF InsightInv, StepsNumbered
<1>8. StepsFound'
  <2>1. SUFFICES ASSUME NEW t \in Seen, tables'[t].step # 0
                 PROVE  /\ tables'[t].step \in DOMAIN plan'
                        /\ plan'[tables'[t].step].tool = "tables"
                        /\ plan'[tables'[t].step].status = "DONE"
                        /\ plan'[tables'[t].step].hyp = tables'[t].hyp
    BY DEF StepsFound
  <2>2. CASE tables'[t].step = tables[t].step /\ tables'[t].hyp = tables[t].hyp
    <3>1. tables[t].step # k /\ tables[t].step \in DOMAIN plan
      BY <1>1, <2>1, <2>2 DEF InsightInv, LastStepOpen, StepsFound
    <3>2. plan'[tables[t].step] = plan[tables[t].step]
      BY <1>2, <3>1
    <3> QED BY <1>2, <2>1, <2>2, <3>1, <3>2 DEF InsightInv, StepsFound
  <2> QED BY <1>2, <2>1, <2>2
<1>9. LastStepOpen' /\ DeadAreFailed' /\ OneIsActive'
  BY <1>1, <1>3 DEF InsightInv, LastStepOpen, DeadAreFailed, OneIsActive
<1>10. SqlIsJudged'
  BY <1>1, <1>3 DEF InsightInv, SqlIsJudged
<1> QED BY <1>6, <1>7, <1>8, <1>9, <1>10 DEF InsightInv

\* The gate and the generation leave the marks alone.
LEMMA GateKeeps == ASSUME InsightInv, I!Gate PROVE InsightInv'
<1>1. /\ way = "gate" /\ way' \in {"recover", "ended", "generate"}
      /\ UNCHANGED <<judged, hyps, current, plan, tables, dead, written, valid, checks,
                     summary, asked, forced, made>>
  BY DEF I!Gate, I!marks, I!verdicts, I!MayGenerate
<1>2. ~I!Success /\ ~I!Success'
  BY <1>1 DEF InsightInv, SqlIsJudged, I!Success
<1>3. InsightTypes'
  BY <1>1, MarksStay DEF InsightInv, InsightTypes, I!TypeOK
<1>4. LastStepOpen' /\ OneIsActive' /\ SqlIsJudged'
  BY <1>1, <1>2 DEF InsightInv, LastStepOpen, OneIsActive, SqlIsJudged
<1> QED BY <1>1, <1>3, <1>4, MarksStay DEF InsightInv

LEMMA WriteKeeps == ASSUME InsightInv, I!Generate PROVE InsightInv'
<1>1. /\ way = "generate" /\ made' = made + 1
      /\ UNCHANGED <<judged, hyps, current, plan, tables, dead, valid, checks, summary,
                     asked, forced>>
  BY DEF I!Generate, I!marks, I!verdicts
<1>2. ~I!Success /\ ~I!Success' /\ valid = I!NoSql
  BY <1>1 DEF InsightInv, SqlIsJudged, I!Success
<1>3. /\ made \in Nat /\ checks \in 0..made /\ summary \in 0..made
  BY DEF InsightInv, InsightTypes, I!TypeOK
<1>4. /\ written' \in [n : Nat, uses : SUBSET Seen] /\ written'.n \in 0..made'
      /\ way' \in {"validate", "ended", "recover"} /\ (way' = "validate" => written'.n # 0)
  <2>1. CASE (\E uses \in SUBSET Seen : written' = [n |-> made + 1, uses |-> uses])
             /\ way' = "validate"
    BY <1>1, <1>3, <2>1
  <2>2. CASE written' = I!NoSql /\ way' \in {"ended", "recover"}
    BY <1>1, <1>3, <2>2 DEF I!NoSql
  <2> QED BY <2>1, <2>2 DEF I!Generate
<1>5. checks \in 0..made' /\ summary \in 0..made' /\ made' \in Nat
  BY <1>1, <1>3
<1>6. InsightTypes'
  BY <1>1, <1>2, <1>4, <1>5, MarksStay DEF InsightInv, InsightTypes, I!TypeOK
<1>7. LastStepOpen' /\ OneIsActive' /\ SqlIsJudged'
  BY <1>1, <1>2, <1>4 DEF InsightInv, LastStepOpen, OneIsActive, SqlIsJudged
<1> QED BY <1>1, <1>6, <1>7, MarksStay DEF InsightInv

\* A validation that succeeds ends the turn, with the accounts of this SQL.
LEMMA ValidateKeeps == ASSUME InsightInv, I!Validate PROVE InsightInv'
<1>1. /\ way = "validate" /\ way' \in {"generate", "ended", "recover"}
      /\ UNCHANGED <<judged, hyps, current, plan, tables, dead, written, asked, forced, made>>
  BY DEF I!Validate, I!marks
<1>2. /\ ~I!Success /\ valid = I!NoSql /\ written.n # 0
      /\ written.n \in 0..made /\ checks \in 0..made /\ summary \in 0..made
      /\ ~judged => checks = 0 /\ summary = 0
  BY <1>1 DEF InsightInv, SqlIsJudged, I!Success, InsightTypes, I!TypeOK
<1>3. /\ checks' \in 0..made /\ summary' \in 0..made /\ (valid' = I!NoSql \/ valid' = written)
      /\ ~judged => checks' = 0 /\ summary' = 0
      /\ valid' # I!NoSql =>
            /\ way' = "ended" /\ valid' = written
            /\ judged => checks' = written.n /\ summary' = written.n
            /\ I!Active # {} => written.uses \subseteq I!Active
  BY <1>1, <1>2 DEF I!Validate, I!FailEarly, I!JudgeFail, I!JudgePass, I!verdicts
<1>4. InsightTypes'
  BY <1>1, <1>3, MarksStay DEF InsightInv, InsightTypes, I!TypeOK
<1>5. I!Active' = I!Active
  BY <1>1, MarksStay
<1>6. SqlIsJudged'
  BY <1>1, <1>2, <1>3, <1>5 DEF SqlIsJudged, I!Success
<1>7. LastStepOpen' /\ OneIsActive'
  BY <1>1 DEF InsightInv, LastStepOpen, OneIsActive
<1> QED BY <1>1, <1>4, <1>6, <1>7, MarksStay DEF InsightInv

\* After the transition every hypothesis has failed that is not one of an answered
\* question, and left its one dead end.
LEMMA TransitionMarks ==
    ASSUME InsightInv, way = "recover"
    PROVE  /\ I!HypsAfter \in Seq({"ACTIVE", "FAILED"}) /\ Len(I!HypsAfter) = Len(hyps)
           /\ Len(hyps) \in Nat /\ I!CurrentAfter \in 0..Len(hyps)
           /\ I!CurrentAfter # 0 => I!HypsAfter[I!CurrentAfter] = "ACTIVE"
           /\ ~asked => \A h \in 1..Len(hyps) : I!HypsAfter[h] = "FAILED"
           /\ I!DeadAfter \in Seq(Nat)
           /\ \A i \in DOMAIN I!DeadAfter : I!DeadAfter[i] \in 0..Len(hyps)
           /\ \A h \in 1..Len(hyps) :
                 I!HypsAfter[h] = "FAILED" <=> \E i \in DOMAIN I!DeadAfter : I!DeadAfter[i] = h
           /\ \A i, j \in DOMAIN I!DeadAfter :
                 I!DeadAfter[i] = I!DeadAfter[j] /\ I!DeadAfter[i] # 0 => i = j
<1>1. /\ hyps \in Seq({"ACTIVE", "FAILED"}) /\ current \in 0..Len(hyps) /\ dead \in Seq(Nat)
      /\ Len(hyps) \in Nat /\ DOMAIN hyps = 1..Len(hyps)
      /\ Len(dead) \in Nat /\ DOMAIN dead = 1..Len(dead)
      /\ \A i \in DOMAIN dead : dead[i] \in 0..Len(hyps)
  BY DEF InsightInv, InsightTypes, I!TypeOK
<1>2. /\ \A h \in DOMAIN hyps : hyps[h] = "FAILED" <=> \E i \in DOMAIN dead : dead[i] = h
      /\ \A i, j \in DOMAIN dead : dead[i] = dead[j] /\ dead[i] # 0 => i = j
  BY DEF InsightInv, DeadAreFailed
<1>3. /\ current # 0 => hyps[current] = "ACTIVE"
      /\ ~asked => \A h \in DOMAIN hyps : h = current \/ hyps[h] = "FAILED"
  BY DEF InsightInv, OneIsActive
<1>4. CASE asked
  <2>1. I!HypsAfter = hyps /\ I!CurrentAfter = current /\ I!DeadAfter = dead
    BY <1>4 DEF I!HypsAfter, I!CurrentAfter, I!DeadAfter
  <2> QED BY <1>1, <1>2, <1>3, <1>4, <2>1
<1>5. CASE ~asked /\ current = 0
  <2>1. I!HypsAfter = hyps /\ I!CurrentAfter = 0
    BY <1>5 DEF I!HypsAfter, I!CurrentAfter
  <2>2. \A h \in 1..Len(hyps) : hyps[h] = "FAILED"
    BY <1>1, <1>3, <1>5
  <2>3. I!DeadAfter = dead \/ I!DeadAfter = Append(dead, 0)
    BY <1>5 DEF I!DeadAfter
  <2>4. CASE I!DeadAfter = dead
    BY <1>1, <1>2, <1>5, <2>1, <2>2, <2>4
  <2>5. CASE I!DeadAfter = Append(dead, 0)
    <3> DEFINE after == Append(dead, 0)
    <3>1. /\ after \in Seq(Nat) /\ DOMAIN after = 1..Len(dead) + 1
          /\ after[Len(dead) + 1] = 0 /\ \A i \in DOMAIN dead : after[i] = dead[i]
      BY <1>1
    <3> HIDE DEF after
    <3>2. \A i \in DOMAIN after : i \in DOMAIN dead \/ i = Len(dead) + 1
      BY <1>1, <3>1
    <3>3. \A i \in DOMAIN after : after[i] \in 0..Len(hyps)
      BY <1>1, <3>1, <3>2
    <3>4. \A h \in 1..Len(hyps) :
             (\E i \in DOMAIN after : after[i] = h) <=> \E i \in DOMAIN dead : dead[i] = h
      <4>1. TAKE h \in 1..Len(hyps)
      <4>2. after[Len(dead) + 1] # h
        BY <1>1, <3>1, <4>1
      <4>3. DOMAIN dead \subseteq DOMAIN after
        BY <1>1, <3>1
      <4> QED BY <3>1, <3>2, <4>2, <4>3, Zenon
    <3>5. \A i, j \in DOMAIN after : after[i] = after[j] /\ after[i] # 0 => i = j
      BY <1>1, <1>2, <3>1, <3>2
    <3> QED BY <1>1, <1>2, <1>5, <2>1, <2>2, <2>5, <3>1, <3>3, <3>4, <3>5 DEF after
  <2> QED BY <2>3, <2>4, <2>5
<1>6. CASE ~asked /\ current # 0
  <2> DEFINE failing == [hyps EXCEPT ![current] = "FAILED"]
             after == Append(dead, current)
  <2>1. I!HypsAfter = failing /\ I!CurrentAfter = 0 /\ I!DeadAfter = after
    BY <1>6 DEF I!HypsAfter, I!CurrentAfter, I!DeadAfter
  <2>2. current \in 1..Len(hyps)
    BY <1>1, <1>6
  <2>3. /\ failing \in Seq({"ACTIVE", "FAILED"}) /\ Len(failing) = Len(hyps)
        /\ \A h \in 1..Len(hyps) : failing[h] = "FAILED"
    <3>1. /\ failing \in Seq({"ACTIVE", "FAILED"}) /\ Len(failing) = Len(hyps)
          /\ \A h \in 1..Len(hyps) :
                failing[h] = IF h = current THEN "FAILED" ELSE hyps[h]
      BY <1>1, <2>2, ExceptSeq
    <3> QED BY <1>1, <1>3, <1>6, <3>1
  <2>4. /\ after \in Seq(Nat) /\ DOMAIN after = 1..Len(dead) + 1
        /\ after[Len(dead) + 1] = current /\ \A i \in DOMAIN dead : after[i] = dead[i]
    BY <1>1
  <2> HIDE DEF failing, after
  <2>5. \A i \in DOMAIN after : i \in DOMAIN dead \/ i = Len(dead) + 1
    BY <1>1, <2>4
  <2>6. \A i \in DOMAIN after : after[i] \in 0..Len(hyps)
    BY <1>1, <2>4, <2>5
  <2>7. \A h \in 1..Len(hyps) : \E i \in DOMAIN after : after[i] = h
    <3>1. Len(dead) + 1 \in DOMAIN after /\ \A i \in DOMAIN dead : i \in DOMAIN after
      BY <1>1, <2>4
    <3>2. SUFFICES ASSUME NEW h \in 1..Len(hyps), h # current
                   PROVE  \E i \in DOMAIN after : after[i] = h
      BY <2>4, <3>1
    <3>3. hyps[h] = "FAILED"
      BY <1>1, <1>3, <1>6, <3>2
    <3>4. PICK i \in DOMAIN dead : dead[i] = h
      BY <1>1, <1>2, <3>2, <3>3
    <3> QED BY <2>4, <3>1, <3>4
  <2>8. \A i \in DOMAIN dead : dead[i] # current
    BY <1>1, <1>2, <1>3, <1>6, <2>2
  <2>9. \A i, j \in DOMAIN after : after[i] = after[j] /\ after[i] # 0 => i = j
    BY <1>1, <1>2, <2>4, <2>5, <2>8
  <2> QED BY <1>1, <1>6, <2>1, <2>3, <2>4, <2>6, <2>7, <2>9
<1> QED BY <1>4, <1>5, <1>6

\* What recovery does to the hypotheses and the plan.
LEMMA RecoverHyps ==
    ASSUME InsightInv, I!Recover
    PROVE  /\ hyps' \in Seq({"ACTIVE", "FAILED"}) /\ Len(hyps) \in Nat /\ Len(hyps') \in Nat
           /\ Len(hyps) <= Len(hyps') /\ current' \in 0..Len(hyps')
           /\ DeadAreFailed' /\ dead' \in Seq(Nat)
           /\ \A i \in DOMAIN dead' : dead'[i] \in 0..Len(hyps')
           /\ current' # 0 => hyps'[current'] = "ACTIVE"
           /\ ~asked => \A h \in DOMAIN hyps' : h = current' \/ hyps'[h] = "FAILED"
           /\ \/ current' = Len(hyps) + 1 /\ Len(hyps') = Len(hyps) + 1
              \/ way' = "ended" \/ forced' \/ asked'
<1> DEFINE after == I!HypsAfter
<1>1. way = "recover" /\ dead' = I!DeadAfter /\ valid' = valid
  BY DEF I!Recover, I!verdicts
<1>2. /\ after \in Seq({"ACTIVE", "FAILED"}) /\ Len(after) = Len(hyps)
      /\ Len(hyps) \in Nat /\ I!CurrentAfter \in 0..Len(hyps)
      /\ I!CurrentAfter # 0 => after[I!CurrentAfter] = "ACTIVE"
      /\ ~asked => \A h \in 1..Len(hyps) : after[h] = "FAILED"
      /\ dead' \in Seq(Nat) /\ \A i \in DOMAIN dead' : dead'[i] \in 0..Len(hyps)
      /\ \A h \in 1..Len(hyps) : after[h] = "FAILED" <=> \E i \in DOMAIN dead' : dead'[i] = h
      /\ \A i, j \in DOMAIN dead' : dead'[i] = dead'[j] /\ dead'[i] # 0 => i = j
  BY <1>1, TransitionMarks
<1>3. CASE hyps' = Append(after, "ACTIVE") /\ current' = Len(hyps) + 1
  <2>1. /\ hyps' \in Seq({"ACTIVE", "FAILED"}) /\ Len(hyps') = Len(hyps) + 1
        /\ DOMAIN hyps' = 1..Len(hyps) + 1 /\ hyps'[Len(hyps) + 1] = "ACTIVE"
        /\ \A h \in 1..Len(hyps) : hyps'[h] = after[h]
    <3> HIDE DEF after
    <3> QED BY <1>2, <1>3
  <2> HIDE DEF after
  <2>2. \A h \in DOMAIN hyps' : h \in 1..Len(hyps) \/ h = Len(hyps) + 1
    BY <1>2, <2>1
  <2>3. \A i \in DOMAIN dead' : dead'[i] # Len(hyps) + 1
    BY <1>2
  <2>4. \A h \in DOMAIN hyps' : hyps'[h] = "FAILED" <=> \E i \in DOMAIN dead' : dead'[i] = h
    BY <1>2, <2>1, <2>2, <2>3
  <2>5. DeadAreFailed'
    BY <1>2, <2>4 DEF DeadAreFailed
  <2>6. \A i \in DOMAIN dead' : dead'[i] \in 0..Len(hyps')
    BY <1>2, <2>1
  <2>7. ~asked => \A h \in DOMAIN hyps' : h = current' \/ hyps'[h] = "FAILED"
    BY <1>2, <1>3, <2>1, <2>2
  <2> QED BY <1>2, <1>3, <2>1, <2>5, <2>6, <2>7
<1>4. CASE /\ hyps' = after /\ current' = I!CurrentAfter
           /\ way' = "ended" \/ forced' \/ asked'
  <2>1. DOMAIN hyps' = 1..Len(hyps)
    <3> HIDE DEF after
    <3> QED BY <1>2, <1>4
  <2> HIDE DEF after
  <2>2. DeadAreFailed'
    BY <1>2, <1>4, <2>1 DEF DeadAreFailed
  <2>3. /\ hyps' \in Seq({"ACTIVE", "FAILED"}) /\ Len(hyps') = Len(hyps)
        /\ current' \in 0..Len(hyps') /\ \A i \in DOMAIN dead' : dead'[i] \in 0..Len(hyps')
    BY <1>2, <1>4
  <2>4. current' # 0 => hyps'[current'] = "ACTIVE"
    BY <1>2, <1>4
  <2>5. ~asked => \A h \in DOMAIN hyps' : h = current' \/ hyps'[h] = "FAILED"
    BY <1>2, <1>4, <2>1
  <2>6. Len(hyps') \in Nat /\ Len(hyps) <= Len(hyps')
    BY <1>2, <2>3
  <2> QED BY <1>2, <1>4, <2>2, <2>3, <2>4, <2>5, <2>6
<1>5. \/ hyps' = Append(after, "ACTIVE") /\ current' = Len(hyps) + 1
      \/ /\ hyps' = after /\ current' = I!CurrentAfter
         /\ way' = "ended" \/ forced' \/ asked'
  BY DEF I!Recover, I!Replan, I!GiveUp
<1> QED BY <1>3, <1>4, <1>5

\* A plan that recovery goes on with has one step more, numbered on, of the hypothesis
\* that is new.
LEMMA RecoverPlan ==
    ASSUME InsightInv, I!Recover
    PROVE  /\ plan' \in Seq(Steps)
           /\ \/ plan' = plan /\ way' # "explore"
              \/ /\ DOMAIN plan' = 1..Len(plan) + 1 /\ Len(plan') = Len(plan) + 1
                 /\ plan'[Len(plan) + 1].no = Len(plan) + 1
                 /\ plan'[Len(plan) + 1].hyp = Len(hyps) + 1 /\ Len(hyps') = Len(hyps) + 1
                 /\ \A i \in DOMAIN plan : plan'[i] = plan[i]
<1>1. /\ plan \in Seq(Steps) /\ Len(plan) \in Nat /\ DOMAIN plan = 1..Len(plan)
      /\ Len(hyps) \in Nat
  BY DEF InsightInv, InsightTypes, I!TypeOK
<1>2. CASE plan' = plan /\ way' # "explore"
  BY <1>1, <1>2
<1>3. CASE /\ hyps' = Append(I!HypsAfter, "ACTIVE")
           /\ \E tool \in {"tables", "cases"} :
                 plan' = Append(plan, I!ToDo(tool, I!StepNumber, Len(hyps) + 1))
  <2>1. PICK tool \in {"tables", "cases"} :
           plan' = Append(plan, I!ToDo(tool, I!StepNumber, Len(hyps) + 1))
    BY <1>3
  <2> DEFINE step == I!ToDo(tool, I!StepNumber, Len(hyps) + 1)
  <2>2. I!StepNumber = Len(plan) + 1
    <3>1. CASE plan = <<>>
      BY <3>1 DEF I!StepNumber
    <3>2. CASE plan # <<>>
      <4>1. Len(plan) \in DOMAIN plan
        BY <1>1, <3>2
      <4>2. plan[Len(plan)].no = Len(plan)
        BY <4>1 DEF InsightInv, StepsNumbered
      <4> QED BY <3>2, <4>2 DEF I!StepNumber
    <3> QED BY <3>1, <3>2
  <2>3. step \in Steps /\ step.no = Len(plan) + 1 /\ step.hyp = Len(hyps) + 1
    BY <1>1, <2>2 DEF I!ToDo, Steps
  <2>4. plan' = Append(plan, step)
    BY <2>1
  <2> HIDE DEF step
  <2>5. /\ plan' \in Seq(Steps) /\ DOMAIN plan' = 1..Len(plan) + 1
        /\ Len(plan') = Len(plan) + 1
        /\ plan'[Len(plan) + 1] = step /\ \A i \in DOMAIN plan : plan'[i] = plan[i]
    BY <1>1, <2>3, <2>4
  <2>6. Len(hyps') = Len(hyps) + 1
    <3>1. I!HypsAfter \in Seq({"ACTIVE", "FAILED"}) /\ Len(I!HypsAfter) = Len(hyps)
      BY TransitionMarks DEF I!Recover
    <3> QED BY <1>3, <3>1
  <2> QED BY <2>3, <2>5, <2>6
<1>4. \/ plan' = plan /\ way' # "explore"
      \/ /\ hyps' = Append(I!HypsAfter, "ACTIVE")
         /\ \E tool \in {"tables", "cases"} :
               plan' = Append(plan, I!ToDo(tool, I!StepNumber, Len(hyps) + 1))
  BY DEF I!Recover, I!Replan, I!GiveUp, I!MayGenerate
<1> QED BY <1>2, <1>3, <1>4

\* The recovery keeps the invariant.
LEMMA RecoverKeeps == ASSUME InsightInv, I!Recover PROVE InsightInv'
<1>1. /\ way = "recover" /\ way' \in {"recover", "ended", "generate", "explore"}
      /\ UNCHANGED <<judged, tables, written, valid, checks, summary, made>>
  BY DEF I!Recover, I!Replan, I!GiveUp, I!MayGenerate, I!verdicts
<1>2. ~I!Success /\ ~I!Success'
  BY <1>1 DEF InsightInv, SqlIsJudged, I!Success
<1>3. /\ hyps' \in Seq({"ACTIVE", "FAILED"}) /\ Len(hyps) \in Nat /\ Len(hyps') \in Nat
      /\ Len(hyps) <= Len(hyps') /\ current' \in 0..Len(hyps')
      /\ DeadAreFailed' /\ dead' \in Seq(Nat)
      /\ \A i \in DOMAIN dead' : dead'[i] \in 0..Len(hyps')
      /\ current' # 0 => hyps'[current'] = "ACTIVE"
      /\ ~asked => \A h \in DOMAIN hyps' : h = current' \/ hyps'[h] = "FAILED"
      /\ \/ current' = Len(hyps) + 1 /\ Len(hyps') = Len(hyps) + 1
         \/ way' = "ended" \/ forced' \/ asked'
  BY RecoverHyps
<1>4. /\ plan' \in Seq(Steps)
      /\ \/ plan' = plan /\ way' # "explore"
         \/ /\ DOMAIN plan' = 1..Len(plan) + 1 /\ Len(plan') = Len(plan) + 1
            /\ plan'[Len(plan) + 1].no = Len(plan) + 1
            /\ plan'[Len(plan) + 1].hyp = Len(hyps) + 1 /\ Len(hyps') = Len(hyps) + 1
            /\ \A i \in DOMAIN plan : plan'[i] = plan[i]
  BY RecoverPlan
<1>5. /\ hyps \in Seq({"ACTIVE", "FAILED"}) /\ DOMAIN hyps = 1..Len(hyps)
      /\ DOMAIN hyps' = 1..Len(hyps') /\ \A h \in DOMAIN hyps : h \in DOMAIN hyps'
      /\ plan \in Seq(Steps) /\ DOMAIN plan = 1..Len(plan) /\ Len(plan) \in Nat
  BY <1>3 DEF InsightInv, InsightTypes, I!TypeOK
<1>6. InsightTypes'
  <2>1. \A t \in I!Explored : tables[t].status \in I!Statuses /\ tables[t].hyp \in 0..Len(hyps)
    BY DEF InsightInv, InsightTypes, I!TypeOK
  <2>2. \A t \in I!Explored' : tables'[t].status \in I!Statuses /\ tables'[t].hyp \in 0..Len(hyps')
    BY <1>1, <1>3, <2>1 DEF I!Explored
  <2> QED BY <1>1, <1>3, <1>4, <2>2 DEF InsightInv, InsightTypes, I!TypeOK
<1>7. \A i \in DOMAIN plan : i \in DOMAIN plan' /\ plan'[i] = plan[i]
  <2>1. CASE plan' = plan
    BY <2>1
  <2>2. CASE /\ DOMAIN plan' = 1..Len(plan) + 1
             /\ \A i \in DOMAIN plan : plan'[i] = plan[i]
    <3>1. \A i \in DOMAIN plan : i \in 1..Len(plan) + 1
      BY <1>5
    <3> QED BY <2>2, <3>1
  <2> QED BY <1>4, <2>1, <2>2
<1>8. StepsNumbered'
  <2>1. \A i \in DOMAIN plan : plan[i].no = i /\ plan[i].hyp \in DOMAIN hyps
    BY DEF InsightInv, StepsNumbered
  <2>2. CASE plan' = plan
    BY <1>5, <2>1, <2>2 DEF StepsNumbered
  <2>3. CASE /\ DOMAIN plan' = 1..Len(plan) + 1
             /\ plan'[Len(plan) + 1].no = Len(plan) + 1
             /\ plan'[Len(plan) + 1].hyp = Len(hyps) + 1 /\ Len(hyps') = Len(hyps) + 1
    <3>1. Len(hyps) + 1 \in DOMAIN hyps'
      BY <1>3, <1>5, <2>3
    <3>2. \A i \in DOMAIN plan' : i \in DOMAIN plan \/ i = Len(plan) + 1
      BY <1>5, <2>3
    <3> QED BY <1>5, <1>7, <2>1, <2>3, <3>1, <3>2 DEF StepsNumbered
  <2> QED BY <1>4, <2>2, <2>3
<1>9. StepsFound'
  BY <1>1, <1>7 DEF InsightInv, StepsFound
<1>10. LastStepOpen'
  <2>1. SUFFICES ASSUME way' = "explore"
                 PROVE  plan' # <<>> /\ \A t \in Seen : tables'[t].step # Len(plan')
    BY DEF LastStepOpen
  <2>2. Len(plan') = Len(plan) + 1 /\ plan' \in Seq(Steps)
    BY <1>4, <2>1
  <2>3. \A t \in Seen : tables[t].step = 0 \/ tables[t].step \in DOMAIN plan
    BY DEF InsightInv, StepsFound
  <2>4. \A t \in Seen : tables'[t].step # Len(plan')
    BY <1>1, <1>5, <2>2, <2>3
  <2>5. plan' # <<>>
    BY <1>5, <2>2
  <2> QED BY <2>4, <2>5
<1>11. OneIsActive'
  <2>1. ~asked' => ~asked
    BY DEF I!Recover, I!Replan, I!GiveUp
  <2>2. (~asked' /\ ~forced' /\ hyps' # <<>> /\ (way' # "ended" \/ I!Success')) => current' # 0
    BY <1>2, <1>3
  <2> QED BY <1>3, <2>1, <2>2 DEF OneIsActive
<1>12. SqlIsJudged'
  BY <1>1, <1>2 DEF InsightInv, SqlIsJudged
<1> QED BY <1>3, <1>6, <1>8, <1>9, <1>10, <1>11, <1>12 DEF InsightInv

\* Every step keeps the invariant.
LEMMA InsightStep == ASSUME InsightInv, [I!Next]_(I!vars) PROVE InsightInv'
<1>1. CASE UNCHANGED I!vars
  <2>1. UNCHANGED <<way, judged, hyps, current, plan, tables, dead, written, valid, checks,
                    summary, missing, asked, forced, made>>
    BY <1>1 DEF I!vars
  <2>2. InsightTypes'
    BY <2>1, MarksStay DEF InsightInv, InsightTypes, I!TypeOK
  <2>3. LastStepOpen' /\ OneIsActive' /\ SqlIsJudged'
    BY <2>1, MarksStay DEF InsightInv, LastStepOpen, OneIsActive, SqlIsJudged, I!Success
  <2> QED BY <2>1, <2>2, <2>3, MarksStay DEF InsightInv
<1>2. CASE I!Ended
  BY <1>1, <1>2 DEF I!Ended
<1> QED
  BY <1>1, <1>2, ExploreKeeps, GateKeeps, WriteKeeps, ValidateKeeps, RecoverKeeps DEF I!Next

\* However a turn explores, recovers and asks, its marks fit together: steps, the tables
\* they found, the hypotheses and their dead ends.
THEOREM InsightInvariance == I!Spec => []InsightInv
<1>1. I!Init => InsightInv
  BY InsightInit
<1>2. InsightInv /\ [I!Next]_(I!vars) => InsightInv'
  BY InsightStep
<1> QED BY <1>1, <1>2, PTL DEF I!Spec

\* Cardinality means the same here and in the instance.
LEMMA SizesAgree == \A S : I!Cardinality(S) = Cardinality(S)
BY DEF I!Cardinality, Cardinality

\* A set of one element has one.
LEMMA OneElement == ASSUME NEW x PROVE I!Cardinality({x}) = 1
BY FS_Singleton, SizesAgree

\* What is said of the SQL of a successful turn was said of this SQL.
LEMMA JudgmentOfSql == ASSUME InsightInv PROVE I!JudgmentIsOfSql
<1> SUFFICES ASSUME I!Success
             PROVE  IF judged
                    THEN /\ I!ValidationDetail = <<valid.n, valid.n>>
                         /\ I!JourneyValidation = {[items |-> valid.n, summary |-> valid.n]}
                    ELSE /\ I!ValidationDetail = <<>> /\ I!JourneyValidation = {}
                         /\ summary = 0
  BY DEF I!JudgmentIsOfSql
<1>1. /\ valid.n # 0 /\ (judged => checks = valid.n /\ summary = valid.n)
      /\ ~judged => checks = 0 /\ summary = 0
  BY DEF InsightInv, SqlIsJudged
<1> QED BY <1>1 DEF I!ValidationDetail, I!JourneyValidation

\* Every table is told, and a SQL that reads two tables in use warns of the join.
LEMMA TablesTold ==
    ASSUME I!InsightAssumption, InsightInv PROVE I!TablesAreTold
<1>1. I!Rejected \subseteq I!Explored /\ I!Active = I!Explored \ I!Rejected
  BY DEF I!Rejected, I!Active
<1>2. I!Used \cup I!Candidate \cup I!Rejected = I!Explored
  BY <1>1 DEF I!Used, I!Candidate
<1>3. ASSUME I!Success, I!Active # {}
      PROVE  /\ I!Used \cap I!Rejected = {} /\ I!UsedInSummary = I!Used
             /\ I!Used \subseteq I!Active
  <2>1. valid.uses \subseteq I!Active /\ I!Shown = valid
    BY <1>3 DEF InsightInv, SqlIsJudged, I!Shown
  <2> QED BY <1>1, <2>1 DEF I!Used, I!UsedInSummary
<1>4. ASSUME I!Success, I!Active # {}, I!Cardinality(I!Used) > 1
      PROVE  I!Caveats.joins /\ I!JourneyCaveats.joins
  <2>1. IsFiniteSet(Seen)
    <3>1. I!IsFiniteSet(Seen)
      BY DEF I!InsightAssumption
    <3> QED BY <3>1 DEF I!IsFiniteSet, IsFiniteSet
  <2>2. I!Active \subseteq Seen
    BY <1>1 DEF I!Explored
  <2>3. IsFiniteSet(I!Active)
    BY <2>1, <2>2, FS_Subset
  <2>4. /\ Cardinality(I!Used) <= Cardinality(I!Active) /\ Cardinality(I!Used) \in Nat
        /\ Cardinality(I!Active) \in Nat
    BY <1>3, <1>4, <2>3, FS_Subset, FS_CardinalityType
  <2>5. I!Cardinality(I!Active) > 1
    BY <1>4, <2>4, SizesAgree
  <2> QED BY <1>1, <2>5 DEF I!Caveats, I!JourneyCaveats
<1> QED BY <1>2, <1>3, <1>4 DEF I!TablesAreTold

\* A table that a step found is told at this step, and one that none found at none.
LEMMA StepsTell == ASSUME InsightInv PROVE I!StepsTellTheirTables
<1> SUFFICES ASSUME NEW t \in I!Explored
             PROVE  LET here == {c \in (DOMAIN plan) \X (DOMAIN hyps) :
                                    /\ I!HasJourney /\ c[1] \in I!Calls(c[2])
                                    /\ t \in I!Matched(c[1], c[2])}
                        told == {i \in DOMAIN I!History : t \in I!History[i].found}
                    IN  IF tables[t].step = 0 THEN here = {} /\ told = {}
                        ELSE /\ I!Cardinality(here) = 1 /\ I!Cardinality(told) = 1
                             /\ \A i \in told : I!History[i].done
  BY DEF I!StepsTellTheirTables
<1> DEFINE here == {c \in (DOMAIN plan) \X (DOMAIN hyps) :
                       /\ I!HasJourney /\ c[1] \in I!Calls(c[2])
                       /\ t \in I!Matched(c[1], c[2])}
           told == {i \in DOMAIN I!History : t \in I!History[i].found}
           k == tables[t].step
           h == tables[t].hyp
<1>1. /\ plan \in Seq(Steps) /\ DOMAIN plan = 1..Len(plan) /\ Len(plan) \in Nat
      /\ hyps \in Seq({"ACTIVE", "FAILED"}) /\ DOMAIN hyps = 1..Len(hyps) /\ Len(hyps) \in Nat
  BY DEF InsightInv, InsightTypes, I!TypeOK
<1>2. \A i \in DOMAIN plan : plan[i].no = i /\ plan[i].hyp \in DOMAIN hyps
  BY DEF InsightInv, StepsNumbered
<1>3. /\ DOMAIN I!History = DOMAIN plan
      /\ \A i \in DOMAIN plan : /\ I!History[i].found = {u \in I!Explored : tables[u].step = i}
                                /\ I!History[i].done <=> plan[i].status = "DONE"
  BY <1>2 DEF I!History, I!ToldOfStep
<1>4. told = {i \in DOMAIN plan : k = i}
  BY <1>3
<1>5. \A i \in DOMAIN plan, g \in DOMAIN hyps :
         t \in I!Matched(i, g) <=> plan[i].tool = "tables" /\ k = i /\ h = g
  BY <1>2 DEF I!Matched
<1>6. \A i \in DOMAIN plan, g \in DOMAIN hyps :
         i \in I!Calls(g) <=> plan[i].hyp = g /\ plan[i].status # "PENDING"
  BY DEF I!Calls
<1>7. CASE k = 0
  <2>1. 0 \notin DOMAIN plan
    BY <1>1
  <2> QED BY <1>4, <1>5, <1>7, <2>1
<1>8. CASE k # 0
  <2>1. /\ k \in DOMAIN plan /\ plan[k].tool = "tables" /\ plan[k].status = "DONE"
        /\ plan[k].hyp = h
    BY <1>8 DEF InsightInv, StepsFound, I!Explored
  <2>2. h \in DOMAIN hyps
    BY <1>2, <2>1
  <2>3. I!HasJourney
    <3>1. h # 0 /\ hyps # <<>>
      BY <1>1, <2>2
    <3> QED BY <2>1, <3>1 DEF I!HasJourney
  <2>4. here = {<<k, h>>}
    BY <1>5, <1>6, <2>1, <2>2, <2>3
  <2>5. told = {k}
    BY <1>4, <2>1
  <2>6. I!Cardinality(here) = 1 /\ I!Cardinality(told) = 1
    BY <2>4, <2>5, OneElement
  <2>7. \A i \in told : I!History[i].done
    BY <1>3, <2>1, <2>5
  <2> QED BY <1>8, <2>6, <2>7
<1> QED BY <1>7, <1>8

\* A hypothesis shows its failure if it failed, once, and one that did not fail has the SQL.
LEMMA SqlOfOne == ASSUME InsightInv PROVE I!SqlHasOneHypothesis
<1>1. /\ hyps \in Seq({"ACTIVE", "FAILED"}) /\ DOMAIN hyps = 1..Len(hyps) /\ Len(hyps) \in Nat
      /\ dead \in Seq(Nat) /\ DOMAIN dead = 1..Len(dead) /\ Len(dead) \in Nat
      /\ current \in 0..Len(hyps)
  BY DEF InsightInv, InsightTypes, I!TypeOK
<1>2. /\ \A h \in DOMAIN hyps : hyps[h] = "FAILED" <=> \E i \in DOMAIN dead : dead[i] = h
      /\ \A i, j \in DOMAIN dead : dead[i] = dead[j] /\ dead[i] # 0 => i = j
  BY DEF InsightInv, DeadAreFailed
<1>3. I!WithFailure = {h \in DOMAIN hyps : hyps[h] = "FAILED"}
  BY <1>2 DEF I!WithFailure
<1>4. \A h \in I!WithFailure : I!Cardinality({i \in DOMAIN I!Rounds : h \in I!Rounds[i]}) = 1
  <2>1. SUFFICES ASSUME NEW h \in I!WithFailure
                 PROVE  I!Cardinality({i \in DOMAIN I!Rounds : h \in I!Rounds[i]}) = 1
    OBVIOUS
  <2>2. h \in DOMAIN hyps /\ h # 0
    BY <1>1 DEF I!WithFailure
  <2>3. PICK i \in DOMAIN dead : dead[i] = h
    BY DEF I!WithFailure
  <2>4. /\ DOMAIN I!Rounds = DOMAIN dead
        /\ \A j \in DOMAIN dead : h \in I!Rounds[j] <=> dead[j] = h
    BY <2>2 DEF I!Rounds
  <2>5. {j \in DOMAIN I!Rounds : h \in I!Rounds[j]} = {i}
    BY <1>2, <2>2, <2>3, <2>4
  <2> QED BY <2>5, OneElement
<1>5. I!Caveats.detours >= I!Cardinality(I!WithFailure)
  <2> DEFINE place == [h \in I!WithFailure |-> CHOOSE i \in DOMAIN dead : dead[i] = h]
  <2>1. \A h \in I!WithFailure : place[h] \in 1..Len(dead) /\ dead[place[h]] = h
    BY <1>1 DEF I!WithFailure
  <2>2. place \in [I!WithFailure -> 1..Len(dead)]
    BY <2>1
  <2>3. place \in Injection(I!WithFailure, 1..Len(dead))
    BY <2>1, <2>2 DEF Injection, IsInjective
  <2> HIDE DEF place
  <2>4. IsFiniteSet(1..Len(dead)) /\ Cardinality(1..Len(dead)) = Len(dead)
    <3>1. 1 \in Int /\ Len(dead) \in Int
      BY <1>1
    <3>2. /\ IsFiniteSet(1..Len(dead))
          /\ Cardinality(1..Len(dead)) = IF 1 > Len(dead) THEN 0 ELSE Len(dead) - 1 + 1
      BY <3>1, FS_Interval, SMT
    <3> QED BY <1>1, <3>2, SMT
  <2>5. Cardinality(I!WithFailure) <= Len(dead)
    BY <2>3, <2>4, FS_Injection
  <2>6. I!WithFailure \subseteq 1..Len(hyps) /\ IsFiniteSet(1..Len(hyps))
    BY <1>1, FS_Interval DEF I!WithFailure
  <2>7. Cardinality(I!WithFailure) \in Nat
    BY <2>6, FS_Subset, FS_CardinalityType
  <2> QED BY <1>1, <2>5, <2>7, SizesAgree DEF I!Caveats
<1>6. ASSUME I!Success, ~asked, ~forced, hyps # <<>> PROVE I!WithSql = {current}
  <2>1. /\ current # 0 /\ hyps[current] = "ACTIVE"
        /\ \A h \in DOMAIN hyps : h = current \/ hyps[h] = "FAILED"
    BY <1>6 DEF InsightInv, OneIsActive
  <2>2. current \in DOMAIN hyps
    BY <1>1, <2>1
  <2>3. I!Shown # I!NoSql
    BY <1>6 DEF I!Shown, I!Success
  <2> QED BY <2>1, <2>2, <2>3 DEF I!WithSql
<1> QED BY <1>3, <1>4, <1>5, <1>6 DEF I!SqlHasOneHypothesis

\* At the end of every turn, and at every moment before, its accounts are true: the
\* judgment is of the SQL, every table is told and at the step that found it, and the
\* SQL stands at one hypothesis.
THEOREM AccountsOfTurn == ASSUME I!InsightAssumption PROVE I!Spec => []AccountsAreTrue
<1>1. InsightInv => AccountsAreTrue
  BY JudgmentOfSql, TablesTold, StepsTell, SqlOfOne
     DEF InsightInv, InsightTypes, I!AccountsAreTrue, AccountsAreTrue
<1> QED BY <1>1, InsightInvariance, PTL

-----------------------------------------------------------------------------
(* Connections: what is open at each stage, what an alarm says and what a     *)
(* file of the model is                                                       *)

\* The order of the connectors has all of them.
OrderIsAll == \A n \in K!Systems : \E i \in DOMAIN order : order[i] = n

\* The pool is opened after the models, and what has been closed without an exception
\* is not open; while connectors disconnect, those that are open are still to come.
Released ==
    /\ stage \in {"connect", "reranker", "export", "quantize", "load", "pool"}
          => "pool" \notin open
    /\ failed = {} =>
          /\ stage \in {"close llm", "close redis", "disconnect"} => "pool" \notin open
          /\ stage \in {"close redis", "disconnect"} => "llm" \notin open
          /\ stage = "disconnect" =>
                /\ "redis" \notin open
                /\ \A n \in open \cap K!Systems : \E i \in DOMAIN todo : todo[i] = n
                /\ ("tasks" \in open \/ "executor" \in open)
                      => \E i \in DOMAIN todo : todo[i] = "qdrant"
          /\ stage = "stopped" => open = {}

\* Only a connection that is not replaced is lost; whoever is not up during a check is
\* noted, and a no is of one that is noted or lost.
AnswersHaveCause ==
    /\ lost \subseteq {"ADW", "BDP"}
    /\ check # <<>> => \A n \in K!Systems : state[n] # "up" => n \in unwell
    /\ \A n \in DOMAIN check : check[n] = "no" => n \in unwell \cup lost

\* A file that is not whole is being written, or its writer was stopped.
FileIsKnown ==
    /\ stage = "quantize" => Quantize
    /\ file = "partial" => stage = "quantize" \/ (Quantize /\ died)
    /\ stage = "load" => file # "none"

ConnectionsInv == K!TypeOK /\ OrderIsAll /\ Released /\ AnswersHaveCause /\ FileIsKnown

\* The systems by their names, none of which is that of another thing that is open.
LEMMA SystemNames ==
    ASSUME K!ConnectionsAssumption
    PROVE  /\ K!Systems = {"mongo", "qdrant", "postgres"} \cup Databases
           /\ K!Systems \cap {"executor", "tasks", "pool", "redis", "llm"} = {}
           /\ K!Open = K!Systems \cup {"executor", "tasks", "pool", "redis", "llm"}
           /\ K!Range(K!Infra) \subseteq K!Systems
<1>1. K!Range(K!Infra) = {"mongo", "qdrant", "postgres"}
  <2>1. /\ DOMAIN K!Infra = 1..3 /\ K!Infra[1] = "mongo" /\ K!Infra[2] = "qdrant"
        /\ K!Infra[3] = "postgres"
    BY DEF K!Infra
  <2>2. 1..3 = {1, 2, 3}
    OBVIOUS
  <2> QED BY <2>1, <2>2 DEF K!Range
<1> QED BY <1>1 DEF K!Systems, K!ConnectionsAssumption, K!Open

\* Whatever order the databases come in, it has all of them.
LEMMA OrdersAreAll ==
    ASSUME K!ConnectionsAssumption, NEW o \in K!Orders
    PROVE  /\ o \in Seq(K!Systems)
           /\ \A n \in K!Systems : \E i \in DOMAIN o : o[i] = n
<1>1. PICK s \in K!SetToSeqs(Databases) : o = K!Infra \o s
  BY DEF K!Orders
<1> DEFINE size == Cardinality(Databases)
<1>2. IsFiniteSet(Databases) /\ size \in Nat
  <2>1. IsFiniteSet({"ADW", "BDP", "CRP", "TEST"})
    <3>1. IsFiniteSet({"ADW"})
      BY FS_Singleton
    <3>2. IsFiniteSet({"ADW"} \cup {"BDP"})
      BY <3>1, FS_AddElement
    <3>3. IsFiniteSet(({"ADW"} \cup {"BDP"}) \cup {"CRP"})
      BY <3>2, FS_AddElement
    <3>4. IsFiniteSet((({"ADW"} \cup {"BDP"}) \cup {"CRP"}) \cup {"TEST"})
      BY <3>3, FS_AddElement
    <3>5. (({"ADW"} \cup {"BDP"}) \cup {"CRP"}) \cup {"TEST"} = {"ADW", "BDP", "CRP", "TEST"}
      OBVIOUS
    <3> QED BY <3>4, <3>5
  <2>2. Databases \in SUBSET {"ADW", "BDP", "CRP", "TEST"}
    BY DEF K!ConnectionsAssumption
  <2> QED BY <2>1, <2>2, FS_Subset, FS_CardinalityType
<1>3. K!Cardinality(Databases) = size
  BY DEF K!Cardinality, Cardinality
<1>4. s \in [1..size -> Databases] /\ \A i, j \in 1..size : i # j => s[i] # s[j]
  BY <1>1, <1>3 DEF K!SetToSeqs
<1>5. s \in Injection(1..size, Databases)
  BY <1>4 DEF Injection, IsInjective
<1>6. Cardinality(1..size) = size
  <2>1. 1 \in Int /\ size \in Int
    BY <1>2
  <2>2. Cardinality(1..size) = IF 1 > size THEN 0 ELSE size - 1 + 1
    BY <2>1, FS_Interval, SMT
  <2> HIDE DEF size
  <2> QED BY <1>2, <2>2, SMT
<1>7. s \in Surjection(1..size, Databases)
  BY <1>2, <1>5, <1>6, FS_Injection
<1>8. \A n \in Databases : \E i \in 1..size : s[i] = n
  BY <1>7 DEF Surjection
<1> HIDE DEF size
<1>9. s \in Seq(K!Systems) /\ Len(s) = size /\ DOMAIN s = 1..size
  <2>1. s \in [1..size -> K!Systems]
    BY <1>4, SystemNames
  <2> QED BY <1>2, <2>1
<1>10. /\ K!Infra \in Seq(K!Systems) /\ Len(K!Infra) = 3 /\ K!Infra[1] = "mongo"
       /\ K!Infra[2] = "qdrant" /\ K!Infra[3] = "postgres"
  <2>1. "mongo" \in K!Systems /\ "qdrant" \in K!Systems /\ "postgres" \in K!Systems
    BY SystemNames
  <2> QED BY <2>1 DEF K!Infra
<1>10a. /\ o \in Seq(K!Systems) /\ Len(o) = Len(K!Infra) + Len(s)
      /\ \A i \in 1..Len(K!Infra) + Len(s) :
            o[i] = IF i <= Len(K!Infra) THEN K!Infra[i] ELSE s[i - Len(K!Infra)]
  BY <1>1, <1>9, <1>10, ConcatProperties
<1>11. o \in Seq(K!Systems) /\ Len(o) = 3 + size /\ DOMAIN o = 1..3 + size
  BY <1>2, <1>9, <1>10, <1>10a
<1>12. /\ o[1] = "mongo" /\ o[2] = "qdrant" /\ o[3] = "postgres"
       /\ \A i \in 1..size : o[3 + i] = s[i]
  <2>1. \A i \in 1..3 + size : o[i] = IF i <= 3 THEN K!Infra[i] ELSE s[i - 3]
    BY <1>9, <1>10, <1>10a
  <2>2. o[1] = K!Infra[1] /\ o[2] = K!Infra[2] /\ o[3] = K!Infra[3]
    BY <1>2, <2>1
  <2>3. ASSUME NEW i \in 1..size PROVE o[3 + i] = s[i]
    <3>1. 3 + i \in 1..3 + size /\ ~(3 + i <= 3) /\ (3 + i) - 3 = i
      BY <1>2
    <3> QED BY <2>1, <3>1
  <2> QED BY <1>10, <2>2, <2>3
<1>13. /\ 1 \in DOMAIN o /\ 2 \in DOMAIN o /\ 3 \in DOMAIN o
       /\ \A i \in 1..size : 3 + i \in DOMAIN o
  BY <1>2, <1>11
<1>14. ASSUME NEW n \in K!Systems PROVE \E i \in DOMAIN o : o[i] = n
  <2>1. CASE n \in {"mongo", "qdrant", "postgres"}
    BY <1>12, <1>13, <2>1
  <2>2. CASE n \in Databases
    <3>1. PICK i \in 1..size : s[i] = n
      BY <1>8, <2>2
    <3> QED BY <1>12, <1>13, <3>1
  <2> QED BY <2>1, <2>2, SystemNames
<1> QED BY <1>11, <1>14

\* A process starts with nothing open, whatever file it finds.
LEMMA NewProcess ==
    ASSUME K!ConnectionsAssumption, NEW o \in K!Orders, order' = o,
           file' \in {"none", "partial", "whole"}, died' \in BOOLEAN,
           file' = "partial" => Quantize /\ died',
           stage' = "connect", todo' = order', open' = {}, offered' = Databases,
           failed' = {}, state' = K!AllUp, lost' = {}, check' = <<>>, unwell' = {}
    PROVE  ConnectionsInv'
<1>1. order' \in Seq(K!Systems) /\ OrderIsAll'
  BY OrdersAreAll DEF OrderIsAll
<1>2. DOMAIN check' = {}
  OBVIOUS
<1>3. state' \in [K!Systems -> {"up", "refuses", "hangs"}]
  BY DEF K!AllUp
<1>4. K!TypeOK'
  BY <1>1, <1>2, <1>3 DEF K!TypeOK, K!Stages
<1>5. AnswersHaveCause'
  BY <1>2 DEF AnswersHaveCause
<1>6. Released' /\ FileIsKnown'
  BY DEF Released, FileIsKnown
<1> QED BY <1>1, <1>4, <1>5, <1>6 DEF ConnectionsInv

LEMMA ConnectionsInit == ASSUME K!ConnectionsAssumption, K!Init PROVE ConnectionsInv
<1>1. order \in K!Orders
  BY DEF K!Init
<1>2. order \in Seq(K!Systems) /\ OrderIsAll
  BY <1>1, OrdersAreAll DEF OrderIsAll
<1>3. DOMAIN check = {}
  BY DEF K!Init
<1>4. state \in [K!Systems -> {"up", "refuses", "hangs"}]
  BY DEF K!Init, K!AllUp
<1>5. K!TypeOK
  BY <1>2, <1>3, <1>4 DEF K!Init, K!TypeOK, K!Stages
<1>6. AnswersHaveCause
  BY <1>3 DEF AnswersHaveCause, K!Init
<1>7. Released /\ FileIsKnown
  BY DEF Released, FileIsKnown, K!Init
<1> QED BY <1>2, <1>5, <1>6, <1>7 DEF ConnectionsInv

\* What does not touch the systems and the check leaves the causes of its answers.
LEMMA AnswersStay ==
    ASSUME ConnectionsInv, UNCHANGED <<state, lost, check, unwell>>
    PROVE  AnswersHaveCause'
BY DEF ConnectionsInv, AnswersHaveCause

\* The shapes of todo at a connector.
LEMMA HeadOfTodo ==
    ASSUME K!ConnectionsAssumption, ConnectionsInv, todo # <<>>
    PROVE  /\ Head(todo) \in K!Systems /\ Tail(todo) \in Seq(K!Systems)
           /\ Head(todo) = todo[1] /\ DOMAIN todo = 1..Len(todo) /\ Len(todo) \in Nat
           /\ Len(todo) >= 1 /\ DOMAIN Tail(todo) = 1..Len(todo) - 1
           /\ \A i \in DOMAIN todo : i # 1 => /\ i - 1 \in DOMAIN Tail(todo)
                                              /\ Tail(todo)[i - 1] = todo[i]
<1>1. todo \in Seq(K!Systems)
  BY DEF ConnectionsInv, K!TypeOK
<1> QED BY <1>1

\* The steps of the start open what belongs to them, or leave it.
LEMMA ConnectKeeps ==
    ASSUME K!ConnectionsAssumption, ConnectionsInv, K!ConnectNext PROVE ConnectionsInv'
<1>1. /\ stage = "connect" /\ todo # <<>> /\ stage' \in {"connect", "close llm"}
      /\ UNCHANGED <<order, failed, file, died, state, lost, check, unwell, changes>>
      /\ todo' = todo \/ todo' = Tail(todo)
      /\ offered' \subseteq offered
  BY DEF K!ConnectNext, K!ConnectMongo, K!ConnectPostgres, K!ConnectQdrant,
         K!ConnectDatabase, K!Connects, K!Abort, K!cached, K!serving
<1>2. open' \subseteq open \cup {Head(todo), "qdrant", "executor"}
  BY DEF K!ConnectNext, K!ConnectMongo, K!ConnectPostgres, K!ConnectQdrant,
         K!ConnectDatabase, K!Connects
<1>3. Head(todo) \in K!Systems /\ Tail(todo) \in Seq(K!Systems)
  BY <1>1, HeadOfTodo
<1>4. "pool" \notin open' /\ open' \subseteq K!Open
  BY <1>1, <1>2, <1>3, SystemNames DEF ConnectionsInv, Released, K!TypeOK
<1>5. K!TypeOK'
  BY <1>1, <1>3, <1>4 DEF ConnectionsInv, K!TypeOK, K!Stages
<1>6. OrderIsAll' /\ Released' /\ FileIsKnown'
  BY <1>1, <1>4 DEF ConnectionsInv, OrderIsAll, Released, FileIsKnown
<1> QED BY <1>1, <1>5, <1>6, AnswersStay DEF ConnectionsInv

\* A file of the model is there when it is loaded, and whole unless its writer stopped.
LEMMA ModelKeeps ==
    ASSUME K!ConnectionsAssumption, ConnectionsInv,
           K!WarmUp \/ K!ResolveModel \/ K!Export \/ K!QuantizeEnds \/ K!Load
    PROVE  ConnectionsInv'
<1>1. /\ UNCHANGED <<order, todo, open, offered, failed, state, lost, check, unwell>>
      /\ stage \in {"connect", "reranker", "export", "quantize", "load"}
      /\ stage' \in {"reranker", "export", "quantize", "load", "pool", "close llm"}
  BY DEF K!WarmUp, K!ResolveModel, K!Export, K!QuantizeEnds, K!Load, K!Start, K!serving
<1>2. file \in {"none", "partial", "whole"} /\ died \in BOOLEAN /\ Quantize \in BOOLEAN
  BY DEF ConnectionsInv, K!TypeOK, K!ConnectionsAssumption
<1>3. file' \in {"none", "partial", "whole"} /\ died' \in BOOLEAN /\ FileIsKnown'
  <2>1. CASE K!WarmUp
    BY <1>2, <2>1 DEF K!WarmUp, K!cached, ConnectionsInv, FileIsKnown
  <2>2. CASE K!ResolveModel
    <3>1. /\ stage = "reranker" /\ file' = file /\ died' = died
          /\ stage' = IF file = "none" THEN "export" ELSE "load"
      BY <2>2 DEF K!ResolveModel, K!cached
    <3>2. file' = "partial" => Quantize /\ died'
      BY <3>1 DEF ConnectionsInv, FileIsKnown
    <3>3. stage' # "quantize" /\ (stage' = "load" => file' # "none")
      BY <3>1
    <3>4. FileIsKnown'
      BY <3>2, <3>3 DEF FileIsKnown
    <3>5. file' \in {"none", "partial", "whole"}
      BY <1>2, <3>1
    <3>6. died' \in BOOLEAN
      BY <1>2, <3>1, Zenon
    <3> QED BY <3>4, <3>5, <3>6
  <2>3. CASE K!Export
    <3>1. stage = "export" /\ died' = died
      BY <2>3 DEF K!Export, K!cached
    <3>2. \/ stage' = "close llm" /\ file' = file
          \/ stage' = "load" /\ file' = "whole"
          \/ Quantize /\ stage' = "quantize" /\ file' = "partial"
      BY <2>3 DEF K!Export, K!cached
    <3>3. file' \in {"none", "partial", "whole"}
      BY <1>2, <3>2
    <3>4. died' \in BOOLEAN
      BY <1>2, <3>1, Zenon
    <3>5. file = "partial" => Quantize /\ died'
      BY <3>1 DEF ConnectionsInv, FileIsKnown
    <3>6. FileIsKnown'
      BY <3>2, <3>5 DEF FileIsKnown
    <3> QED BY <3>3, <3>4, <3>6
  <2>4. CASE K!QuantizeEnds
    BY <1>2, <2>4 DEF K!QuantizeEnds, ConnectionsInv, FileIsKnown
  <2>5. CASE K!Load
    BY <1>2, <2>5 DEF K!Load, K!cached, ConnectionsInv, FileIsKnown
  <2> QED BY <2>1, <2>2, <2>3, <2>4, <2>5
<1>4. K!TypeOK'
  BY <1>1, <1>3 DEF ConnectionsInv, K!TypeOK, K!Stages
<1>5. OrderIsAll' /\ Released'
  BY <1>1 DEF ConnectionsInv, OrderIsAll, Released
<1> QED BY <1>1, <1>3, <1>4, <1>5, AnswersStay DEF ConnectionsInv

\* The rest of the start, and the turns.
LEMMA ServeKeeps ==
    ASSUME K!ConnectionsAssumption, ConnectionsInv,
           \/ K!OpenPool \/ K!Compile \/ K!OpenRedis \/ K!UseLlm \/ K!Encode \/ K!Stop
    PROVE  ConnectionsInv'
<1>1. /\ UNCHANGED <<order, todo, offered, file, died, state, lost, check, unwell>>
      /\ stage \in {"pool", "compile", "redis", "serve"}
      /\ stage' \in {"compile", "redis", "serve", "leave", "close llm"}
  BY DEF K!OpenPool, K!Compile, K!OpenRedis, K!UseLlm, K!Encode, K!Stop, K!Process,
         K!cached, K!serving
<1>2. open' \subseteq open \cup {"pool", "redis", "llm", "tasks"}
  BY DEF K!OpenPool, K!Compile, K!OpenRedis, K!UseLlm, K!Encode, K!Stop
<1>3. /\ failed' \subseteq {"pool", "close"}
      /\ stage' = "close llm" => "pool" \in failed'
  BY DEF K!OpenPool, K!Compile, K!OpenRedis, K!UseLlm, K!Encode, K!Stop, K!Process,
         ConnectionsInv, K!TypeOK
<1>4. open' \subseteq K!Open
  BY <1>2, SystemNames DEF ConnectionsInv, K!TypeOK
<1>5. K!TypeOK'
  BY <1>1, <1>3, <1>4 DEF ConnectionsInv, K!TypeOK, K!Stages
<1>6. OrderIsAll' /\ Released' /\ FileIsKnown'
  BY <1>1, <1>3 DEF ConnectionsInv, OrderIsAll, Released, FileIsKnown
<1> QED BY <1>1, <1>5, <1>6, AnswersStay DEF ConnectionsInv

\* The connections that are lost for good.
LEMMA SingleOnes == K!Single = {"ADW", "BDP"}
<1>1. \A e \in {K!Adw, K!Bdp, K!Crp, K!Test, K!Postgres} :
         ~e.replaced <=> e = K!Adw \/ e = K!Bdp
  BY DEF K!Adw, K!Bdp, K!Crp, K!Test, K!Postgres
<1>2. K!Adw.name = "ADW" /\ K!Bdp.name = "BDP"
  BY DEF K!Adw, K!Bdp
<1>3. {e \in {K!Adw, K!Bdp, K!Crp, K!Test, K!Postgres} : ~e.replaced} = {K!Adw, K!Bdp}
  BY <1>1
<1> QED BY <1>2, <1>3 DEF K!Single

\* A check that starts notes who is not up, and whoever changes during it is noted.
LEMMA CheckKeeps ==
    ASSUME K!ConnectionsAssumption, ConnectionsInv,
           \/ K!StartCheck \/ K!EndCheck
           \/ \E n \in K!Systems : K!Ping(n) \/ K!Change(n)
    PROVE  ConnectionsInv'
<1>1. UNCHANGED <<stage, order, todo, open, offered, failed, file, died>>
  BY DEF K!StartCheck, K!EndCheck, K!Ping, K!Change, K!Unasked, K!cached
<1>2. /\ state \in [K!Systems -> {"up", "refuses", "hangs"}] /\ lost \subseteq {"ADW", "BDP"}
      /\ lost \subseteq K!Systems /\ DOMAIN check \subseteq K!Systems
      /\ \A n \in DOMAIN check : check[n] \in {"waiting", "yes", "no"}
      /\ unwell \subseteq K!Systems /\ offered \subseteq Databases
      /\ check # <<>> => \A n \in K!Systems : state[n] # "up" => n \in unwell
      /\ \A n \in DOMAIN check : check[n] = "no" => n \in unwell \cup lost
  BY DEF ConnectionsInv, K!TypeOK, AnswersHaveCause
<1> DEFINE Good ==
      /\ state' \in [K!Systems -> {"up", "refuses", "hangs"}] /\ lost' \subseteq K!Systems
      /\ DOMAIN check' \subseteq K!Systems /\ unwell' \subseteq K!Systems
      /\ \A n \in DOMAIN check' : check'[n] \in {"waiting", "yes", "no"}
      /\ AnswersHaveCause'
<1>3. ASSUME K!StartCheck PROVE Good
  <2>1. /\ check' = [n \in K!Range(K!Infra) \cup offered |-> "waiting"]
        /\ unwell' = {n \in K!Systems : state[n] # "up"} /\ UNCHANGED <<state, lost>>
    BY <1>3 DEF K!StartCheck
  <2>2. DOMAIN check' \subseteq K!Systems /\ \A n \in DOMAIN check' : check'[n] = "waiting"
    BY <1>2, <2>1, SystemNames
  <2>3. AnswersHaveCause'
    BY <1>2, <2>1, <2>2 DEF AnswersHaveCause
  <2> QED BY <1>2, <2>1, <2>2, <2>3
<1>4. ASSUME K!EndCheck PROVE Good
  <2>1. check' = <<>> /\ DOMAIN check' = {} /\ unwell' = {} /\ UNCHANGED <<state, lost>>
    BY <1>4 DEF K!EndCheck
  <2> QED BY <1>2, <2>1 DEF AnswersHaveCause
<1>5. ASSUME NEW n \in K!Systems, K!Ping(n) PROVE Good
  <2>1. /\ n \in DOMAIN check /\ UNCHANGED <<state, lost, unwell>>
        /\ \E answer \in {"yes", "no"} :
              /\ check' = [check EXCEPT ![n] = answer]
              /\ answer = "no" => state[n] # "up" \/ n \in lost
    BY <1>5 DEF K!Ping, K!PingEnds, K!PingTimesOut
  <2>2. PICK answer \in {"yes", "no"} :
           /\ check' = [check EXCEPT ![n] = answer]
           /\ answer = "no" => state[n] # "up" \/ n \in lost
    BY <2>1
  <2>3. check # <<>>
    <3>1. DOMAIN <<>> = {}
      OBVIOUS
    <3> QED BY <2>1, <3>1
  <2>4. /\ DOMAIN check' = DOMAIN check
        /\ \A m \in DOMAIN check : check'[m] = IF m = n THEN answer ELSE check[m]
    BY <2>2
  <2>5. answer = "no" => n \in unwell \cup lost
    BY <1>2, <2>2, <2>3
  <2>6. AnswersHaveCause'
    BY <1>2, <2>1, <2>3, <2>4, <2>5 DEF AnswersHaveCause
  <2> QED BY <1>2, <2>1, <2>4, <2>6
<1>6. ASSUME NEW n \in K!Systems, K!Change(n) PROVE Good
  <2>1. PICK s \in {"up", "refuses", "hangs"} \ {state[n]} :
           /\ state' = [state EXCEPT ![n] = s]
           /\ lost' = IF s = "refuses" /\ n \in K!Single THEN lost \cup {n} ELSE lost
           /\ unwell' = IF check # <<>> /\ s # "up" THEN unwell \cup {n} ELSE unwell
    BY <1>6 DEF K!Change
  <2>2. UNCHANGED check
    BY <1>6 DEF K!Change
  <2>3. /\ state' \in [K!Systems -> {"up", "refuses", "hangs"}]
        /\ \A m \in K!Systems : state'[m] = IF m = n THEN s ELSE state[m]
    BY <1>2, <2>1
  <2>4. /\ lost \subseteq lost' /\ lost' \subseteq {"ADW", "BDP"} /\ lost' \subseteq K!Systems
        /\ unwell \subseteq unwell' /\ unwell' \subseteq K!Systems
        /\ check # <<>> /\ s # "up" => n \in unwell'
    BY <1>2, <2>1, SingleOnes
  <2>5. AnswersHaveCause'
    BY <1>2, <2>2, <2>3, <2>4 DEF AnswersHaveCause
  <2> QED BY <1>2, <2>2, <2>3, <2>4, <2>5
<1>7. Good
  BY <1>3, <1>4, <1>5, <1>6
<1>8. K!TypeOK'
  BY <1>1, <1>7 DEF ConnectionsInv, K!TypeOK
<1>9. OrderIsAll' /\ Released' /\ FileIsKnown'
  BY <1>1 DEF ConnectionsInv, OrderIsAll, Released, FileIsKnown
<1> QED BY <1>7, <1>8, <1>9 DEF ConnectionsInv

\* What is closed without an exception is not open any more.
LEMMA CloseKeeps ==
    ASSUME K!ConnectionsAssumption, ConnectionsInv, K!LeavePool \/ K!CloseLlm \/ K!CloseRedis
    PROVE  ConnectionsInv'
<1>1. /\ UNCHANGED <<order, offered, file, died, state, lost, check, unwell>>
      /\ todo' = todo \/ todo' = order
      /\ stage \in {"leave", "close llm", "close redis"}
      /\ stage' \in {"close llm", "close redis", "disconnect", "stopped"}
  BY DEF K!LeavePool, K!CloseLlm, K!CloseRedis, K!Closes, K!Kept, K!cached, K!serving
<1>2. failed' = failed \/ failed' = failed \cup {"close"}
  BY DEF K!LeavePool, K!CloseLlm, K!CloseRedis, K!Closes
<1>3. open' \subseteq open
  BY DEF K!LeavePool, K!CloseLlm, K!CloseRedis, K!Closes
<1>4. K!TypeOK'
  BY <1>1, <1>2, <1>3 DEF ConnectionsInv, K!TypeOK, K!Stages
<1>5. Released'
  <2>1. CASE failed' # {}
    BY <1>1, <2>1 DEF Released
  <2>2. CASE K!LeavePool /\ failed' = {}
    <3>1. "pool" \notin open' /\ stage' = "close llm"
      BY <1>2, <2>2 DEF K!LeavePool, K!Closes
    <3> QED BY <3>1 DEF Released
  <2>3. CASE K!CloseLlm /\ failed' = {}
    <3>1. "llm" \notin open' /\ stage' = "close redis" /\ stage = "close llm" /\ failed = {}
      BY <1>2, <2>3 DEF K!CloseLlm, K!Closes
    <3>2. "pool" \notin open'
      BY <1>3, <3>1 DEF ConnectionsInv, Released
    <3> QED BY <3>1, <3>2 DEF Released
  <2>4. CASE K!CloseRedis /\ failed' = {}
    <3>1. /\ "redis" \notin open' /\ stage' = "disconnect" /\ stage = "close redis"
          /\ failed = {} /\ todo' = order
      BY <1>2, <2>4 DEF K!CloseRedis, K!Closes
    <3>2. "pool" \notin open' /\ "llm" \notin open'
      BY <1>3, <3>1 DEF ConnectionsInv, Released
    <3>3. "qdrant" \in K!Systems
      BY SystemNames
    <3>4. \A n \in K!Systems : \E i \in DOMAIN todo' : todo'[i] = n
      BY <3>1 DEF ConnectionsInv, OrderIsAll
    <3> QED BY <3>1, <3>2, <3>3, <3>4 DEF Released
  <2> QED BY <2>1, <2>2, <2>3, <2>4
<1>6. OrderIsAll' /\ FileIsKnown'
  BY <1>1 DEF ConnectionsInv, OrderIsAll, FileIsKnown
<1> QED BY <1>1, <1>4, <1>5, <1>6, AnswersStay DEF ConnectionsInv

\* After the last connector nothing is open.
LEMMA DisconnectKeeps ==
    ASSUME K!ConnectionsAssumption, ConnectionsInv, K!DisconnectNext PROVE ConnectionsInv'
<1> DEFINE h == Head(todo)
<1>1. /\ UNCHANGED <<order, offered, file, died, state, lost, check, unwell>>
      /\ stage = "disconnect" /\ todo # <<>> /\ todo' = Tail(todo)
      /\ stage' \in {"disconnect", "stopped"} /\ open' \subseteq open
      /\ failed' = failed \/ failed' = failed \cup {"close"}
  BY DEF K!DisconnectNext, K!Closes, K!Kept, K!cached, K!serving
<1>2. /\ h \in K!Systems /\ Tail(todo) \in Seq(K!Systems) /\ h = todo[1]
      /\ DOMAIN todo = 1..Len(todo) /\ Len(todo) \in Nat
      /\ DOMAIN Tail(todo) = 1..Len(todo) - 1
      /\ \A i \in DOMAIN todo : i # 1 => /\ i - 1 \in DOMAIN Tail(todo)
                                         /\ Tail(todo)[i - 1] = todo[i]
  BY <1>1, HeadOfTodo
<1> HIDE DEF h
<1>3. K!TypeOK'
  BY <1>1, <1>2 DEF ConnectionsInv, K!TypeOK, K!Stages
<1>4. Released'
  <2>1. CASE failed' # {}
    BY <1>1, <2>1 DEF Released
  <2>2. CASE failed' = {}
    <3>1. /\ failed = {} /\ open' = open \ ({h} \cup K!BeforeClient(h))
          /\ stage' = IF Len(todo) = 1 THEN "stopped" ELSE "disconnect"
      BY <1>1, <2>2 DEF K!DisconnectNext, K!Closes, h
    <3>2. /\ "pool" \notin open /\ "llm" \notin open /\ "redis" \notin open
          /\ \A n \in open \cap K!Systems : \E i \in DOMAIN todo : todo[i] = n
          /\ ("tasks" \in open \/ "executor" \in open)
                => \E i \in DOMAIN todo : todo[i] = "qdrant"
      BY <1>1, <3>1 DEF ConnectionsInv, Released
    <3>3. ASSUME NEW n \in open' \cap K!Systems
          PROVE  \E i \in DOMAIN Tail(todo) : Tail(todo)[i] = n
      <4>1. PICK i \in DOMAIN todo : todo[i] = n
        BY <1>1, <3>2, <3>3
      <4>2. i # 1
        BY <1>2, <3>1, <3>3, <4>1
      <4> QED BY <1>2, <4>1, <4>2
    <3>4. ASSUME "tasks" \in open' \/ "executor" \in open'
          PROVE  \E i \in DOMAIN Tail(todo) : Tail(todo)[i] = "qdrant"
      <4>1. PICK i \in DOMAIN todo : todo[i] = "qdrant"
        BY <1>1, <3>2, <3>4
      <4>2. h # "qdrant"
        BY <3>1, <3>4 DEF K!BeforeClient
      <4>3. i # 1
        BY <1>2, <4>1, <4>2
      <4> QED BY <1>2, <4>1, <4>3
    <3>5. CASE stage' = "disconnect"
      BY <1>1, <3>2, <3>3, <3>4, <3>5 DEF Released
    <3>6. CASE stage' = "stopped"
      <4>1. Len(todo) = 1
        BY <3>1, <3>6
      <4>2. DOMAIN Tail(todo) = {}
        BY <1>2, <4>1
      <4>3. open' \cap K!Systems = {} /\ "tasks" \notin open' /\ "executor" \notin open'
        BY <3>3, <3>4, <4>2
      <4>4. open' \subseteq K!Systems \cup {"executor", "tasks", "pool", "redis", "llm"}
        BY <1>1, SystemNames DEF ConnectionsInv, K!TypeOK
      <4>5. open' = {}
        BY <1>1, <3>2, <4>3, <4>4
      <4> QED BY <3>6, <4>5 DEF Released
    <3> QED BY <1>1, <3>5, <3>6
  <2> QED BY <2>1, <2>2
<1>5. OrderIsAll' /\ FileIsKnown'
  BY <1>1 DEF ConnectionsInv, OrderIsAll, FileIsKnown
<1> QED BY <1>1, <1>3, <1>4, <1>5, AnswersStay DEF ConnectionsInv

\* A process that dies leaves what it wrote of the file.
LEMMA DieKeeps == ASSUME K!ConnectionsAssumption, ConnectionsInv, K!Die PROVE ConnectionsInv'
<1>1. /\ stage' = "dead" /\ open' = {} /\ (died' <=> died \/ stage = "quantize")
      /\ died' \in BOOLEAN
      /\ UNCHANGED <<order, todo, offered, failed, file, state, lost, check, unwell>>
  BY DEF K!Die, K!serving, ConnectionsInv, K!TypeOK
<1>2. K!TypeOK'
  BY <1>1 DEF ConnectionsInv, K!TypeOK, K!Stages
<1>3. OrderIsAll' /\ Released'
  BY <1>1 DEF ConnectionsInv, OrderIsAll, Released
<1>4. FileIsKnown'
  BY <1>1 DEF ConnectionsInv, FileIsKnown
<1> QED BY <1>1, <1>2, <1>3, <1>4, AnswersStay DEF ConnectionsInv

LEMMA RestartKeeps ==
    ASSUME K!ConnectionsAssumption, ConnectionsInv, K!Restart PROVE ConnectionsInv'
<1>1. PICK o \in K!Orders : order' = o
  BY DEF K!Restart
<1>2. /\ stage \in {"stopped", "dead"} /\ stage' = "connect" /\ todo' = order' /\ open' = {}
      /\ offered' = Databases /\ failed' = {} /\ state' = K!AllUp /\ lost' = {}
      /\ check' = <<>> /\ unwell' = {} /\ UNCHANGED <<file, died>>
  BY DEF K!Restart, K!cached
<1>3. /\ file' \in {"none", "partial", "whole"} /\ died' \in BOOLEAN
      /\ file' = "partial" => Quantize /\ died'
  BY <1>2 DEF ConnectionsInv, K!TypeOK, FileIsKnown
<1> QED BY <1>1, <1>2, <1>3, NewProcess

\* Every step keeps the invariant.
LEMMA ConnectionsStep ==
    ASSUME K!ConnectionsAssumption, ConnectionsInv, [K!Next]_(K!vars) PROVE ConnectionsInv'
<1>1. CASE UNCHANGED K!vars
  <2>1. UNCHANGED <<stage, order, todo, open, offered, failed, file, died, state, lost,
                    check, unwell>>
    BY <1>1 DEF K!vars, K!cached, K!serving
  <2>2. K!TypeOK'
    BY <2>1 DEF ConnectionsInv, K!TypeOK
  <2>3. OrderIsAll' /\ Released' /\ FileIsKnown'
    BY <2>1 DEF ConnectionsInv, OrderIsAll, Released, FileIsKnown
  <2> QED BY <2>1, <2>2, <2>3, AnswersStay DEF ConnectionsInv
<1>2. CASE K!Over
  BY <1>1, <1>2 DEF K!Over
<1> QED
  BY <1>1, <1>2, ConnectKeeps, ModelKeeps, ServeKeeps, CheckKeeps, CloseKeeps,
     DisconnectKeeps, DieKeeps, RestartKeeps DEF K!Next

\* However a process starts, serves, stops or dies, what is open is known at its stage.
THEOREM ConnectionsInvariance ==
    ASSUME K!ConnectionsAssumption PROVE K!Spec => []ConnectionsInv
<1>1. K!Init => ConnectionsInv
  BY ConnectionsInit
<1>2. ConnectionsInv /\ [K!Next]_(K!vars) => ConnectionsInv'
  BY ConnectionsStep
<1> QED BY <1>1, <1>2, PTL DEF K!Spec

\* For every set of business databases and every setting: nothing stays open, an alarm
\* has a cause, and the model that is loaded is whole unless its writer was stopped.
THEOREM ProcessReleases == ASSUME K!ConnectionsAssumption PROVE K!Spec => []ConnectionsHold
<1>1. ConnectionsInv => ConnectionsHold
  <2> SUFFICES ASSUME ConnectionsInv PROVE K!TypeOK /\ K!ConnectionsHold
    BY DEF ConnectionsHold
  <2>1. K!NothingStaysOpen
    BY DEF ConnectionsInv, Released, K!NothingStaysOpen
  <2>2. K!AlarmsHaveCause
    BY DEF ConnectionsInv, AnswersHaveCause, K!AlarmsHaveCause
  <2>3. K!CachedModelIsWhole
    BY DEF ConnectionsInv, K!TypeOK, FileIsKnown, K!CachedModelIsWhole
  <2> QED BY <2>1, <2>2, <2>3 DEF ConnectionsInv, K!ConnectionsHold
<1> QED BY <1>1, ConnectionsInvariance, PTL

-----------------------------------------------------------------------------
(* The request of a call of the LLM                                         *)

\* What is asked, by whom and of which model.
LEMMA CallFacts ==
    ASSUME NEW c \in L!Calls
    PROVE  /\ c.by \in L!Callers /\ c.provider \in {"anthropic", "openai_compatible", "ibk_custom"}
           /\ c.model \in L!ModelsOf[c.provider] /\ c.system \in {"none", "empty", "given"}
           /\ c.messages \in {<<"question">>, <<"question", "correction">>}
           /\ c.limit \in Limits /\ c.temperature \in BOOLEAN
           /\ c.mode \in {"off", "low", "medium", "high"}
<1>1. PICK p \in {"anthropic", "openai_compatible", "ibk_custom"} :
         c \in [by : L!Callers, provider : {p}, model : L!ModelsOf[p],
                system : {"none", "empty", "given"},
                messages : {<<"question">>, <<"question", "correction">>}, limit : Limits,
                temperature : BOOLEAN, mode : {"off", "low", "medium", "high"}]
  BY DEF L!Calls, L!ModelsOf
<1>2. c.provider = p
  BY <1>1
<1> QED BY <1>1, <1>2

\* What a request has after one more parameter, or none.
LEMMA MergedHas ==
    ASSUME NEW f, NEW g
    PROVE  /\ DOMAIN L!Merged(f, g) = DOMAIN f \cup DOMAIN g
           /\ \A n \in DOMAIN g : L!Merged(f, g)[n] = g[n]
           /\ \A n \in DOMAIN f \ DOMAIN g : L!Merged(f, g)[n] = f[n]
  BY DEF L!Merged

LEMMA WithHas ==
    ASSUME NEW name, NEW value
    PROVE  DOMAIN L!With(name, value) = {name} /\ L!With(name, value)[name] = value
  BY DEF L!With

LEMMA IfHas ==
    ASSUME NEW cond, NEW params
    PROVE  /\ cond => L!If(cond, params) = params
           /\ ~cond => DOMAIN L!If(cond, params) = {}
<1>1. DOMAIN <<>> = {}
  OBVIOUS
<1> QED BY <1>1 DEF L!If

\* What a request sends of a call.
Fits(r, c) ==
    /\ DOMAIN r \subseteq L!Takes(c)
    /\ L!Said(r) = L!If(c.system = "given", <<"given">>) \o c.messages
    /\ \A n \in DOMAIN r \cap {"max_tokens", "max_completion_tokens"} : r[n] >= c.limit
    /\ r # L!NoRequest

Words == {"given", "question", "correction"}

\* The messages of the adapters that make the system prompt one of them.
LEMMA MessagesAre ==
    ASSUME NEW c \in L!Calls
    PROVE  /\ L!OpenAiMessages(c) \in Seq(Words) /\ L!OpenAiMessages(c) # <<>>
           /\ c.messages \in Seq(Words) /\ c.messages # <<>>
<1>1. c.messages \in Seq(Words) /\ c.messages # <<>> /\ Len(c.messages) > 0
  <2>1. CASE c.messages = <<"question">>
    BY <2>1 DEF Words
  <2>2. CASE c.messages = <<"question", "correction">>
    BY <2>2 DEF Words
  <2> QED BY <2>1, <2>2, CallFacts
<1>2. CASE c.system = "given"
  <2>1. L!OpenAiMessages(c) = <<"given">> \o c.messages
    BY <1>2 DEF L!OpenAiMessages, L!If
  <2>2. <<"given">> \in Seq(Words)
    BY DEF Words
  <2>3. /\ <<"given">> \o c.messages \in Seq(Words)
        /\ Len(<<"given">> \o c.messages) = 1 + Len(c.messages)
    BY <1>1, <2>2
  <2>4. Len(c.messages) \in Nat
    BY <1>1
  <2> QED BY <1>1, <2>1, <2>3, <2>4
<1>3. CASE c.system # "given"
  <2>1. L!OpenAiMessages(c) = <<>> \o c.messages
    BY <1>3 DEF L!OpenAiMessages, L!If
  <2>2. <<>> \o c.messages = c.messages
    BY <1>1, ConcatEmptySeq
  <2> QED BY <1>1, <2>1, <2>2
<1> QED BY <1>1, <1>2, <1>3

LEMMA AnthropicFits ==
    ASSUME L!LlmClientAssumption, NEW c \in L!Calls, c.provider = "anthropic"
    PROVE  Fits(L!AnthropicRequest(c), c)
<1> DEFINE base == [messages |-> c.messages, max_tokens |-> c.limit]
           system == L!If(c.system # "none", L!With("system", c.system))
           heat == L!If(c.temperature, L!With("temperature", TRUE))
           thinks == L!AnthropicThinking(c)
           more == L!Merged(system, heat)
           filled == L!Merged(base, more)
           r == L!Merged(filled, thinks)
<1>1. r = L!AnthropicRequest(c)
  BY DEF L!AnthropicRequest
<1>2. /\ DOMAIN base = {"messages", "max_tokens"}
      /\ base["messages"] = c.messages /\ base["max_tokens"] = c.limit
  OBVIOUS
<1>3. DOMAIN system = (IF c.system # "none" THEN {"system"} ELSE {})
      /\ (c.system # "none" => system["system"] = c.system)
  <2>1. CASE c.system # "none"
    <3>1. system = L!With("system", c.system)
      BY <2>1 DEF L!If
    <3> QED BY <2>1, <3>1, WithHas
  <2>2. CASE c.system = "none"
    BY <2>2, IfHas
  <2> QED BY <2>1, <2>2
<1>4. DOMAIN heat = (IF c.temperature THEN {"temperature"} ELSE {})
  <2>1. CASE c.temperature
    <3>1. heat = L!With("temperature", TRUE)
      BY <2>1 DEF L!If
    <3> QED BY <2>1, <3>1, WithHas
  <2>2. CASE ~c.temperature
    BY <2>2, IfHas
  <2> QED BY <2>1, <2>2
<1>5. DOMAIN thinks \subseteq {"thinking"}
  <2>1. DOMAIN <<>> = {}
    OBVIOUS
  <2> QED BY <2>1 DEF L!AnthropicThinking
<1>6. /\ DOMAIN r \subseteq {"messages", "max_tokens", "system", "temperature", "thinking"}
      /\ "messages" \in DOMAIN r /\ "max_tokens" \in DOMAIN r
      /\ "max_completion_tokens" \notin DOMAIN r
      /\ "system" \in DOMAIN r <=> c.system # "none"
  <2> HIDE DEF base, system, heat, thinks
  <2>1. DOMAIN more = DOMAIN system \cup DOMAIN heat
    BY MergedHas
  <2> HIDE DEF more
  <2>2. DOMAIN filled = DOMAIN base \cup DOMAIN more
    BY MergedHas
  <2> HIDE DEF filled
  <2>3. DOMAIN r = DOMAIN filled \cup DOMAIN thinks
    BY MergedHas
  <2> HIDE DEF r
  <2> QED BY <2>1, <2>2, <2>3, <1>2, <1>3, <1>4, <1>5
<1>7. r["messages"] = c.messages /\ r["max_tokens"] = c.limit
      /\ (c.system # "none" => r["system"] = c.system)
  <2> HIDE DEF base, system, heat, thinks
  <2>1. /\ DOMAIN more = DOMAIN system \cup DOMAIN heat
        /\ \A n \in DOMAIN system \ DOMAIN heat : more[n] = system[n]
    BY MergedHas
  <2> HIDE DEF more
  <2>2. /\ DOMAIN filled = DOMAIN base \cup DOMAIN more
        /\ \A n \in DOMAIN more : filled[n] = more[n]
        /\ \A n \in DOMAIN base \ DOMAIN more : filled[n] = base[n]
    BY MergedHas, Zenon
  <2> HIDE DEF filled
  <2>3. \A n \in DOMAIN filled \ DOMAIN thinks : r[n] = filled[n]
    BY MergedHas
  <2> HIDE DEF r
  <2> QED BY <2>1, <2>2, <2>3, <1>2, <1>3, <1>4, <1>5
<1> HIDE DEF r
<1>8. L!Said(r) = L!If(c.system = "given", <<"given">>) \o c.messages
  <2>1. CASE c.system = "given"
    <3>1. "system" \in DOMAIN r /\ r.system # "empty" /\ r.system = "given"
      BY <1>6, <1>7, <2>1
    <3>2. r.messages = c.messages
      BY <1>7
    <3> QED BY <2>1, <3>1, <3>2 DEF L!Said, L!If
  <2>2. CASE c.system # "given"
    <3>1. ~("system" \in DOMAIN r /\ r.system # "empty")
      BY <1>6, <1>7, <2>2, CallFacts
    <3>2. r.messages = c.messages
      BY <1>7
    <3> QED BY <2>2, <3>1, <3>2 DEF L!Said, L!If
  <2> QED BY <2>1, <2>2
<1>9. r # L!NoRequest
  BY <1>7, MessagesAre DEF L!NoRequest
<1>10. L!Takes(c) = {"messages", "system", "max_tokens", "temperature", "thinking"}
  BY DEF L!Takes
<1>11. \A n \in DOMAIN r \cap {"max_tokens", "max_completion_tokens"} : r[n] >= c.limit
  <2>1. c.limit \in Limits
    BY CallFacts
  <2>2. c.limit \in Nat
    BY <2>1 DEF L!LlmClientAssumption
  <2> QED BY <1>6, <1>7, <2>2
<1> QED BY <1>1, <1>6, <1>8, <1>9, <1>10, <1>11 DEF Fits

LEMMA IbkFits ==
    ASSUME NEW c \in L!Calls, c.provider = "ibk_custom"
    PROVE  Fits(L!IbkRequest(c), c)
<1> DEFINE r == L!IbkRequest(c)
<1>1. DOMAIN r = {"messages"} /\ r.messages = L!OpenAiMessages(c)
  BY DEF L!IbkRequest
<1>2. L!Takes(c) = {"messages"}
  BY DEF L!Takes
<1>3. L!Said(r) = L!If(c.system = "given", <<"given">>) \o c.messages
  <2>1. L!Said(r) = <<>> \o L!OpenAiMessages(c)
    BY <1>1 DEF L!Said, L!If
  <2>2. <<>> \o L!OpenAiMessages(c) = L!OpenAiMessages(c)
    BY MessagesAre, ConcatEmptySeq
  <2> QED BY <2>1, <2>2 DEF L!OpenAiMessages
<1>4. r # L!NoRequest
  BY <1>1, MessagesAre DEF L!NoRequest
<1> QED BY <1>1, <1>2, <1>3, <1>4 DEF Fits

\* The parameters of an OpenAI request beside its messages and the stream.
LimitOf(c) ==
    IF L!IsReasoning(c) THEN L!With("max_completion_tokens", L!Larger(c.limit, MaxCompletion))
    ELSE L!With("max_tokens", c.limit)
HeatOf(c) == L!If(c.temperature /\ ~L!IsReasoning(c), L!With("temperature", TRUE))
OpenAiOf(first, c) ==
    L!Merged(L!Merged(first, L!Merged(LimitOf(c), HeatOf(c))), L!OpenAiThinking(c))
Firsts(c) == {L!With("messages", L!OpenAiMessages(c)),
              [messages |-> L!OpenAiMessages(c), stream |-> TRUE]}

\* The two that build a request build it the same way.
LEMMA OpenAiIs ==
    ASSUME NEW c \in L!Calls
    PROVE  /\ L!OpenAiCreate(c) = OpenAiOf(L!With("messages", L!OpenAiMessages(c)), c)
           /\ L!OpenAiStream(c) = OpenAiOf([messages |-> L!OpenAiMessages(c), stream |-> TRUE], c)
<1>1. L!OpenAiCreate(c) = OpenAiOf(L!With("messages", L!OpenAiMessages(c)), c)
  BY DEF L!OpenAiCreate, OpenAiOf, LimitOf, HeatOf
<1>2. LimitOf(c) = IF L!IsReasoning(c)
                   THEN [max_completion_tokens |-> L!Larger(c.limit, MaxCompletion)]
                   ELSE [max_tokens |-> c.limit]
  BY DEF LimitOf, L!With
<1>3. L!OpenAiStream(c) = OpenAiOf([messages |-> L!OpenAiMessages(c), stream |-> TRUE], c)
  BY <1>2 DEF L!OpenAiStream, OpenAiOf, HeatOf
<1> QED BY <1>1, <1>3

LEMMA OpenAiParameters ==
    ASSUME L!LlmClientAssumption, NEW c \in L!Calls, c.provider = "openai_compatible"
    PROVE  /\ DOMAIN LimitOf(c) =
                (IF c.model = "o-series" THEN {"max_completion_tokens"} ELSE {"max_tokens"})
           /\ \A n \in DOMAIN LimitOf(c) : LimitOf(c)[n] >= c.limit
           /\ DOMAIN HeatOf(c) \subseteq (IF c.model = "o-series" THEN {} ELSE {"temperature"})
           /\ DOMAIN L!OpenAiThinking(c) =
                CASE c.model = "qwen" -> {"enable_thinking"}
                  [] c.model \in {"o-series", "gemini"} -> {"reasoning_effort"}
                  [] OTHER -> {}
<1>0. c.limit \in Nat /\ MaxCompletion \in Nat
  <2>1. c.limit \in Limits
    BY CallFacts
  <2> QED BY <2>1 DEF L!LlmClientAssumption
<1>1. DOMAIN <<>> = {}
  OBVIOUS
<1>2. CASE c.model = "o-series"
  <2>1. LimitOf(c) = L!With("max_completion_tokens", L!Larger(c.limit, MaxCompletion))
    BY <1>2 DEF LimitOf, L!IsReasoning
  <2>2. /\ DOMAIN LimitOf(c) = {"max_completion_tokens"}
        /\ LimitOf(c)["max_completion_tokens"] = L!Larger(c.limit, MaxCompletion)
    BY <2>1, WithHas
  <2>3. L!Larger(c.limit, MaxCompletion) >= c.limit
    BY <1>0 DEF L!Larger
  <2>4. DOMAIN HeatOf(c) = {}
    BY <1>1, <1>2 DEF HeatOf, L!IsReasoning, L!If
  <2>5. DOMAIN L!OpenAiThinking(c) = {"reasoning_effort"}
    BY <1>2 DEF L!OpenAiThinking
  <2> QED BY <1>2, <2>2, <2>3, <2>4, <2>5
<1>3. CASE c.model # "o-series"
  <2>1. LimitOf(c) = L!With("max_tokens", c.limit)
    BY <1>3 DEF LimitOf, L!IsReasoning
  <2>2. DOMAIN LimitOf(c) = {"max_tokens"} /\ LimitOf(c)["max_tokens"] = c.limit
    BY <2>1, WithHas
  <2>3. c.limit >= c.limit
    BY <1>0
  <2>4. DOMAIN HeatOf(c) \subseteq {"temperature"}
    BY <1>1, <1>3, WithHas DEF HeatOf, L!IsReasoning, L!If
  <2>5. CASE c.model = "qwen"
    BY <1>3, <2>2, <2>3, <2>4, <2>5 DEF L!OpenAiThinking
  <2>6. CASE c.model = "gemini"
    BY <1>3, <2>2, <2>3, <2>4, <2>6 DEF L!OpenAiThinking
  <2>7. CASE c.model \notin {"qwen", "gemini"}
    BY <1>1, <1>3, <2>2, <2>3, <2>4, <2>7 DEF L!OpenAiThinking
  <2> QED BY <2>5, <2>6, <2>7
<1> QED BY <1>2, <1>3

LEMMA FirstsHave ==
    ASSUME NEW c \in L!Calls, NEW first \in Firsts(c)
    PROVE  /\ "messages" \in DOMAIN first /\ DOMAIN first \subseteq {"messages", "stream"}
           /\ first["messages"] = L!OpenAiMessages(c)
<1> DEFINE m == L!With("messages", L!OpenAiMessages(c))
           s == [messages |-> L!OpenAiMessages(c), stream |-> TRUE]
<1>1. DOMAIN m = {"messages"} /\ m["messages"] = L!OpenAiMessages(c)
  BY WithHas
<1>2. DOMAIN s = {"messages", "stream"} /\ s["messages"] = L!OpenAiMessages(c)
  OBVIOUS
<1>3. first = m \/ first = s
  BY DEF Firsts
<1> HIDE DEF m, s
<1> QED BY <1>1, <1>2, <1>3

LEMMA OpenAiFits ==
    ASSUME L!LlmClientAssumption, NEW c \in L!Calls, c.provider = "openai_compatible",
           NEW first \in Firsts(c)
    PROVE  Fits(OpenAiOf(first, c), c)
<1> DEFINE limit == LimitOf(c)
           heat == HeatOf(c)
           thinks == L!OpenAiThinking(c)
           more == L!Merged(limit, heat)
           filled == L!Merged(first, more)
           r == L!Merged(filled, thinks)
<1>1. OpenAiOf(first, c) = r
  BY DEF OpenAiOf
<1>2. /\ "messages" \in DOMAIN first /\ DOMAIN first \subseteq {"messages", "stream"}
      /\ first["messages"] = L!OpenAiMessages(c)
  BY FirstsHave
<1>3. /\ DOMAIN limit = (IF c.model = "o-series" THEN {"max_completion_tokens"} ELSE {"max_tokens"})
      /\ \A n \in DOMAIN limit : limit[n] >= c.limit
      /\ DOMAIN heat \subseteq (IF c.model = "o-series" THEN {} ELSE {"temperature"})
      /\ DOMAIN thinks = CASE c.model = "qwen" -> {"enable_thinking"}
                           [] c.model \in {"o-series", "gemini"} -> {"reasoning_effort"}
                           [] OTHER -> {}
  BY OpenAiParameters
<1> HIDE DEF limit, heat, thinks
<1>4. /\ DOMAIN more = DOMAIN limit \cup DOMAIN heat
      /\ \A n \in DOMAIN limit \ DOMAIN heat : more[n] = limit[n]
  BY MergedHas
<1> HIDE DEF more
<1>5. /\ DOMAIN filled = DOMAIN first \cup DOMAIN more
      /\ \A n \in DOMAIN more : filled[n] = more[n]
      /\ \A n \in DOMAIN first \ DOMAIN more : filled[n] = first[n]
  BY MergedHas
<1> HIDE DEF filled
<1>6. /\ DOMAIN r = DOMAIN filled \cup DOMAIN thinks
      /\ \A n \in DOMAIN filled \ DOMAIN thinks : r[n] = filled[n]
  BY MergedHas
<1> HIDE DEF r
<1>7. DOMAIN thinks \subseteq {"enable_thinking", "reasoning_effort"}
  BY <1>3
<1>8. "system" \notin DOMAIN r /\ r["messages"] = L!OpenAiMessages(c)
  BY <1>2, <1>3, <1>4, <1>5, <1>6, <1>7
<1>9. L!Said(r) = L!If(c.system = "given", <<"given">>) \o c.messages
  <2>1. L!Said(r) = <<>> \o L!OpenAiMessages(c)
    BY <1>8 DEF L!Said, L!If
  <2>2. <<>> \o L!OpenAiMessages(c) = L!OpenAiMessages(c)
    BY MessagesAre, ConcatEmptySeq
  <2> QED BY <2>1, <2>2 DEF L!OpenAiMessages
<1>10. \A n \in DOMAIN r \cap {"max_tokens", "max_completion_tokens"} : r[n] >= c.limit
  <2> TAKE n \in DOMAIN r \cap {"max_tokens", "max_completion_tokens"}
  <2>1. n \in DOMAIN limit /\ n \notin DOMAIN heat /\ n \notin DOMAIN thinks
    BY <1>2, <1>3, <1>4, <1>5, <1>6, <1>7
  <2>2. r[n] = limit[n]
    BY <1>4, <1>5, <1>6, <2>1
  <2> QED BY <1>3, <2>1, <2>2
<1>11. r # L!NoRequest
  BY <1>8, MessagesAre DEF L!NoRequest
<1>12. DOMAIN r \subseteq L!Takes(c)
  <2>1. L!Takes(c) = {"messages", "stream"}
            \cup (IF c.model = "o-series" THEN {"max_completion_tokens"}
                  ELSE {"max_tokens", "temperature"})
            \cup (IF c.model = "qwen" THEN {"enable_thinking"} ELSE {})
            \cup (IF c.model \in {"o-series", "gemini"} THEN {"reasoning_effort"} ELSE {})
    BY DEF L!Takes
  <2>2. CASE c.model = "o-series"
    BY <2>1, <2>2, <1>2, <1>3, <1>4, <1>5, <1>6
  <2>3. CASE c.model = "gemini"
    BY <2>1, <2>3, <1>2, <1>3, <1>4, <1>5, <1>6
  <2>4. CASE c.model = "qwen"
    BY <2>1, <2>4, <1>2, <1>3, <1>4, <1>5, <1>6
  <2>5. CASE c.model \notin {"o-series", "gemini", "qwen"}
    BY <2>1, <2>5, <1>2, <1>3, <1>4, <1>5, <1>6
  <2> QED BY <2>2, <2>3, <2>4, <2>5
<1> QED BY <1>1, <1>9, <1>10, <1>11, <1>12 DEF Fits

\* Two requests that say the same, but for the stream.
Agree(r, s) ==
    \A n \in (DOMAIN r \cup DOMAIN s) \ {"stream"} :
        n \in DOMAIN r \cap DOMAIN s /\ r[n] = s[n]

LEMMA MergedAgree ==
    ASSUME NEW f, NEW g, NEW h, Agree(f, g)
    PROVE  Agree(L!Merged(f, h), L!Merged(g, h))
<1> DEFINE r == L!Merged(f, h)
           s == L!Merged(g, h)
<1>1. /\ DOMAIN r = DOMAIN f \cup DOMAIN h
      /\ \A n \in DOMAIN h : r[n] = h[n]
      /\ \A n \in DOMAIN f \ DOMAIN h : r[n] = f[n]
  BY MergedHas
<1>2. /\ DOMAIN s = DOMAIN g \cup DOMAIN h
      /\ \A n \in DOMAIN h : s[n] = h[n]
      /\ \A n \in DOMAIN g \ DOMAIN h : s[n] = g[n]
  BY MergedHas
<1> HIDE DEF r, s
<1>3. Agree(r, s)
  BY <1>1, <1>2 DEF Agree
<1> QED BY <1>3 DEF r, s

LEMMA OpenAiAgree ==
    ASSUME NEW c \in L!Calls, NEW f \in Firsts(c), NEW g \in Firsts(c)
    PROVE  Agree(OpenAiOf(f, c), OpenAiOf(g, c))
<1>1. Agree(f, g)
  BY FirstsHave DEF Agree
<1> QED BY <1>1, MergedAgree DEF OpenAiOf

\* What is sent is fit for its model and says what the caller has to say, at once
\* or streaming.
LEMMA RequestsFit ==
    ASSUME L!LlmClientAssumption, NEW c \in L!Calls, NEW streaming \in BOOLEAN
    PROVE  /\ Fits(L!RequestOf(c, streaming), c)
           /\ Agree(L!RequestOf(c, streaming), L!RequestOf(c, ~streaming))
<1>1. CASE c.provider = "anthropic"
  <2>1. \A s \in BOOLEAN : L!RequestOf(c, s) = L!AnthropicRequest(c)
    BY <1>1 DEF L!RequestOf
  <2> QED BY <1>1, <2>1, AnthropicFits DEF Agree
<1>2. CASE c.provider = "ibk_custom"
  <2>1. \A s \in BOOLEAN : L!RequestOf(c, s) = L!IbkRequest(c)
    BY <1>2 DEF L!RequestOf
  <2> QED BY <1>2, <2>1, IbkFits DEF Agree
<1>3. CASE c.provider = "openai_compatible"
  <2>1. \A s \in BOOLEAN : L!RequestOf(c, s) = IF s THEN L!OpenAiStream(c) ELSE L!OpenAiCreate(c)
    BY <1>3 DEF L!RequestOf
  <2>2. \A s \in BOOLEAN : \E f \in Firsts(c) : L!RequestOf(c, s) = OpenAiOf(f, c)
    BY <2>1, OpenAiIs DEF Firsts
  <2> QED BY <1>3, <2>2, OpenAiFits, OpenAiAgree
<1> QED BY <1>1, <1>2, <1>3, CallFacts

-----------------------------------------------------------------------------
(* A call of the LLM: what its caller and the trace have of it where it stands *)

Told(said, of) == <<[text |-> said, node |-> of]>>

LlmTypes ==
    /\ calling \in {"idle", "asking", "reading", "left", "over"} /\ asking \in L!Calls
    /\ reply = L!NoAnswer \/ reply \in L!Answers(asking)
    /\ node \in {"graph", "unit", "next"} /\ ending \in {"", "returned", "failed"}

\* What was sent, and what there is before an answer.
CallStage ==
    /\ calling \in {"idle", "asking"} =>
            reply = L!NoAnswer /\ got = <<>> /\ accounts = <<>> /\ ending = ""
    /\ calling = "idle" => request = L!NoRequest
    /\ calling \in {"asking", "reading", "left"} =>
            request = L!RequestOf(asking, L!Streaming(asking))
    /\ calling \in {"asking", "reading"} => node = L!Unit(asking) /\ ending = ""
    /\ calling \in {"reading", "left"} => L!Streaming(asking) /\ reply \in L!Answers(asking)
    /\ calling = "left" => ending = "failed" /\ got # <<>> /\ node # "unit"
    /\ calling = "over" =>
            /\ ending # "" /\ L!NodeIsRestored
            /\ \/ request = L!RequestOf(asking, L!Streaming(asking))
               \/ request = L!NoRequest /\ ending = "failed" /\ got = <<>> /\ accounts = <<>>

\* The events that the caller was given are those of the answer.
GivenAtOnce ==
    got = IF ending = "returned" THEN <<L!WholeText(reply)>> ELSE <<>>
GivenWhole ==
    /\ got \in {<<>>, <<L!WholeText(reply)>>}
    /\ ending = "returned" /\ got = <<>> => L!CreateText(reply) = {}
Events == [kind : {"text", "thinking"}, of : SUBSET Nat]
GivenInPieces ==
    /\ got \in Seq(Events)
    /\ Len(got) <= Len(reply.pieces)
    /\ \A i \in 1..Len(got) : got[i] = L!EventOf(reply, i)
    /\ ending = "returned" => Len(got) = Len(reply.pieces)
GivenFits ==
    /\ ~L!Streaming(asking) => GivenAtOnce
    /\ L!Streaming(asking) /\ asking.provider = "ibk_custom" => GivenWhole
    /\ L!Streaming(asking) /\ asking.provider # "ibk_custom" => GivenInPieces

\* A call is told when its stream has ended, that of the gateway before it begins.
AccountFits ==
    /\ calling \in {"reading", "left"} =>
            accounts = IF asking.provider = "ibk_custom"
                       THEN Told(L!CreateText(reply), L!Unit(asking)) ELSE <<>>
    /\ calling = "over" => L!CallsAreTold

LlmInv == LlmTypes /\ CallStage /\ GivenFits /\ AccountFits

\* What an answer is made of.
LEMMA AnswerHas ==
    ASSUME NEW c, NEW a, a = L!NoAnswer \/ a \in L!Answers(c)
    PROVE  /\ a.pieces \in Seq({"text", "thought"}) /\ Len(a.pieces) \in Nat
           /\ DOMAIN a.pieces = 1..Len(a.pieces)
<1>1. CASE a = L!NoAnswer
  BY <1>1 DEF L!NoAnswer
<1>2. CASE a \in L!Answers(c)
  <2>1. PICK n \in 0..MaxPieces : a.pieces \in [1..n -> {"text", "thought"}]
    BY <1>2 DEF L!Answers
  <2>2. n \in Nat
    OBVIOUS
  <2> QED BY <2>1, <2>2
<1> QED BY <1>1, <1>2

LEMMA TextOfWhole ==
    ASSUME NEW a
    PROVE  L!TextOf(<<>>) = {} /\ L!TextOf(<<L!WholeText(a)>>) = L!CreateText(a)
<1>1. L!TextOf(<<>>) = {}
  BY DEF L!TextOf
<1>2. DOMAIN <<L!WholeText(a)>> = {1} /\ <<L!WholeText(a)>>[1] = L!WholeText(a)
  OBVIOUS
<1>3. L!WholeText(a).kind = "text" /\ L!WholeText(a).of = L!CreateText(a)
  BY DEF L!WholeText
<1> DEFINE s == <<L!WholeText(a)>>
<1>4. s[1].kind = "text" /\ s[1].of = L!CreateText(a) /\ DOMAIN s = {1}
  BY <1>2, <1>3
<1> HIDE DEF s
<1>5. L!TextOf(s) = L!CreateText(a)
  BY <1>4 DEF L!TextOf
<1> QED BY <1>1, <1>5 DEF s

\* What came as text is the pieces of text that came.
LEMMA TextOfPieces ==
    ASSUME NEW s, NEW a, DOMAIN s = 1..Len(s), \A i \in 1..Len(s) : s[i] = L!EventOf(a, i)
    PROVE  L!TextOf(s) = {i \in DOMAIN s : a.pieces[i] = "text"}
<1>1. \A i \in DOMAIN s : /\ s[i].kind = "text" <=> a.pieces[i] = "text"
                          /\ s[i].of = {i}
  BY DEF L!EventOf
<1> QED BY <1>1 DEF L!TextOf

LEMMA AppendToNone == ASSUME NEW x PROVE Append(<<>>, x) = <<x>>
  OBVIOUS

\* A call that fails before it gives anything need not be told.
LEMMA ToldNever ==
    ASSUME accounts' = <<>>, got' = <<>>, ending' = "failed"
    PROVE  L!CallsAreTold'
<1>1. Len(accounts') = 0
  OBVIOUS
<1>2. Len(accounts') <= 1 /\ ~(got' # <<>> \/ ending' = "returned") /\ ~(accounts' # <<>>)
  BY <1>1
<1> QED BY <1>2 DEF L!CallsAreTold

\* A call that was sent is told once, with the text its caller was given.
LEMMA ToldOnce ==
    ASSUME NEW said, NEW of, accounts' = Told(said, of), L!TextOf(got') = said,
           request' # L!NoRequest,
           of # L!Unit(asking') => L!Streaming(asking') /\ ending' = "failed"
    PROVE  L!CallsAreTold'
<1>1. Len(accounts') = 1 /\ accounts' # <<>> /\ accounts'[1] = [text |-> said, node |-> of]
  BY DEF Told
<1>2. accounts'[1].text = said /\ accounts'[1].node = of
  BY <1>1
<1> QED BY <1>1, <1>2 DEF L!CallsAreTold, L!Sent

LEMMA LlmInit == ASSUME L!Init PROVE LlmInv
<1>1. LlmTypes /\ CallStage
  BY DEF L!Init, LlmTypes, CallStage
<1>2. AccountFits
  BY DEF L!Init, AccountFits
<1>3. GivenAtOnce /\ GivenWhole
  BY DEF L!Init, GivenAtOnce, GivenWhole
<1>4. GivenInPieces
  <2>1. Len(<<>>) = 0 /\ <<>> \in Seq(Events)
    OBVIOUS
  <2>2. got = <<>> /\ reply.pieces = <<>> /\ ending = ""
    BY DEF L!Init, L!NoAnswer
  <2>3. got \in Seq(Events) /\ Len(got) = 0 /\ Len(reply.pieces) = 0 /\ ending # "returned"
    BY <2>1, <2>2
  <2> QED BY <2>3 DEF GivenInPieces
<1> QED BY <1>1, <1>2, <1>3, <1>4 DEF LlmInv, GivenFits

\* The caller names its unit and the request is sent, or is not.
LEMMA SendsKeep == ASSUME LlmInv, L!Send \/ L!Refuse \/ L!Fail PROVE LlmInv'
<1> USE DEF LlmInv
<1>1. /\ asking' = asking /\ reply' = reply /\ got' = got /\ reply = L!NoAnswer /\ got = <<>>
      /\ accounts = <<>> /\ ending = "" /\ asking \in L!Calls
  BY DEF L!Send, L!Refuse, L!Fail, CallStage, LlmTypes
<1>2. CASE L!Send
  <2>1. LlmTypes' /\ CallStage'
    BY <1>1, <1>2 DEF L!Send, LlmTypes, CallStage, L!Unit
  <2>2. GivenFits'
    BY <1>1, <1>2 DEF L!Send, GivenFits, GivenAtOnce, GivenWhole, GivenInPieces
  <2> QED BY <2>1, <2>2, <1>1, <1>2 DEF L!Send, AccountFits
<1>3. CASE L!Refuse \/ L!Fail
  <2>1. /\ calling' = "over" /\ ending' = "failed" /\ request' = request
        /\ node' = L!NodeAfter(asking, "failed")
    BY <1>3 DEF L!Refuse, L!Fail, L!Over
  <2>2. LlmTypes'
    BY <1>1, <2>1 DEF LlmTypes, L!NodeAfter
  <2>3. GivenFits'
    BY <1>1, <2>1 DEF GivenFits, GivenAtOnce, GivenWhole, GivenInPieces
  <2>4. L!NodeIsRestored'
    BY <1>1, <2>1 DEF L!NodeIsRestored, L!NodeAfter, L!Ended
  <2>5. CASE L!Refuse
    <3>1. request = L!NoRequest /\ accounts' = <<>>
      BY <2>5, <1>1 DEF L!Refuse, CallStage
    <3>2. CallStage'
      BY <1>1, <2>1, <2>4, <3>1 DEF CallStage
    <3>3. L!CallsAreTold'
      BY <1>1, <2>1, <3>1, ToldNever
    <3> QED BY <2>1, <2>2, <2>3, <3>2, <3>3 DEF AccountFits
  <2>6. CASE L!Fail
    <3>1. /\ request = L!RequestOf(asking, L!Streaming(asking)) /\ node = L!Unit(asking)
          /\ accounts' = <<>> \/ accounts' = Told({}, L!Unit(asking))
      BY <2>6, <1>1, AppendToNone DEF L!Fail, CallStage, L!Tell, Told
    <3>2. CallStage'
      BY <1>1, <2>1, <2>4, <3>1 DEF CallStage
    <3>3. L!CallsAreTold'
      <4>1. request # L!NoRequest
        BY <3>1, <1>1, LlmClientAssumed, RequestsFit DEF Fits, L!Streaming
      <4>2. L!TextOf(got') = {}
        BY <1>1, TextOfWhole
      <4>3. CASE accounts' = <<>>
        BY <1>1, <2>1, <4>3, ToldNever
      <4>4. CASE accounts' = Told({}, L!Unit(asking))
        BY <1>1, <2>1, <4>1, <4>2, <4>4, ToldOnce
      <4> QED BY <3>1, <4>3, <4>4
    <3> QED BY <2>1, <2>2, <2>3, <3>2, <3>3 DEF AccountFits
  <2> QED BY <1>3, <2>5, <2>6
<1> QED BY <1>2, <1>3

\* create
LEMMA ReturnKeeps == ASSUME LlmInv, L!Return PROVE LlmInv'
<1> USE DEF LlmInv
<1>1. /\ asking' = asking /\ request' = request /\ calling' = "over" /\ ending' = "returned"
      /\ ~L!Streaming(asking) /\ reply' \in L!Answers(asking) /\ asking \in L!Calls
      /\ got' = <<L!WholeText(reply')>> /\ node' = L!NodeAfter(asking, "returned")
  BY DEF L!Return, L!Over, LlmTypes
<1>2. /\ request = L!RequestOf(asking, L!Streaming(asking))
      /\ accounts' = Told(L!CreateText(reply'), L!Unit(asking))
  BY AppendToNone DEF L!Return, CallStage, L!Tell, Told
<1>3. LlmTypes'
  BY <1>1 DEF LlmTypes, L!NodeAfter
<1>4. L!NodeIsRestored'
  BY <1>1 DEF L!NodeIsRestored, L!NodeAfter
<1>5. CallStage'
  BY <1>1, <1>2, <1>4 DEF CallStage
<1>6. GivenFits'
  BY <1>1 DEF GivenFits, GivenAtOnce
<1>7. L!CallsAreTold'
  <2>1. request # L!NoRequest
    BY <1>1, <1>2, LlmClientAssumed, RequestsFit DEF Fits, L!Streaming
  <2>2. L!TextOf(got') = L!CreateText(reply')
    BY <1>1, TextOfWhole
  <2> QED BY <1>1, <1>2, <2>1, <2>2, ToldOnce
<1> QED BY <1>1, <1>3, <1>5, <1>6, <1>7 DEF AccountFits

\* The stream of the gateway is told before it begins.
LEMMA OpenKeeps == ASSUME LlmInv, L!Open PROVE LlmInv'
<1> USE DEF LlmInv
<1>1. /\ asking' = asking /\ request' = request /\ calling' = "reading" /\ ending' = ending
      /\ L!Streaming(asking) /\ reply' \in L!Answers(asking) /\ asking \in L!Calls
      /\ got' = <<>> /\ node' = node /\ node = L!Unit(asking) /\ ending = ""
      /\ request = L!RequestOf(asking, L!Streaming(asking))
  BY DEF L!Open, LlmTypes, CallStage
<1>2. LlmTypes' /\ CallStage'
  BY <1>1 DEF LlmTypes, CallStage
<1>3. GivenFits'
  <2>1. Len(reply'.pieces) \in Nat
    BY <1>1, AnswerHas
  <2>2. GivenWhole'
    BY <1>1 DEF GivenWhole
  <2>3. Len(<<>>) = 0 /\ <<>> \in Seq(Events)
    OBVIOUS
  <2>4. GivenInPieces'
    <3>1. got' = <<>> /\ ending' # "returned" /\ Len(got') = 0
      BY <1>1, <2>3
    <3> QED BY <2>1, <2>3, <3>1 DEF GivenInPieces
  <2> QED BY <1>1, <2>2, <2>4 DEF GivenFits
<1>4. AccountFits'
  BY <1>1, AppendToNone DEF L!Open, AccountFits, CallStage, L!Tell, Told
<1> QED BY <1>2, <1>3, <1>4

\* One more event, and it is the next of the answer.
LEMMA ReadKeeps == ASSUME LlmInv, L!Read PROVE LlmInv'
<1> USE DEF LlmInv
<1>1. /\ asking' = asking /\ request' = request /\ calling' = "reading" /\ ending' = ending
      /\ reply' = reply /\ node' = node /\ accounts' = accounts /\ ending = ""
      /\ L!Streaming(asking) /\ reply \in L!Answers(asking) /\ calling = "reading"
  BY DEF L!Read, CallStage
<1>2. LlmTypes' /\ CallStage' /\ AccountFits'
  BY <1>1 DEF LlmTypes, CallStage, AccountFits
<1>3. PICK e \in L!Coming : got' = Append(got, e)
  BY DEF L!Read
<1>4. CASE asking.provider = "ibk_custom"
  <2>1. got = <<>> /\ e = L!WholeText(reply)
    BY <1>3, <1>4 DEF L!Coming
  <2>2. got' = <<L!WholeText(reply)>>
    BY <1>3, <2>1
  <2> QED BY <1>1, <1>2, <1>4, <2>2 DEF GivenFits, GivenWhole
<1>5. CASE asking.provider # "ibk_custom"
  <2>1. GivenInPieces
    BY <1>1, <1>5 DEF GivenFits
  <2>2. /\ Len(got) + 1 \in DOMAIN reply.pieces /\ e = L!EventOf(reply, Len(got) + 1)
    BY <1>3, <1>5 DEF L!Coming
  <2>3. DOMAIN reply.pieces = 1..Len(reply.pieces) /\ Len(reply.pieces) \in Nat
    BY <1>1, AnswerHas
  <2>4. got \in Seq(Events) /\ Len(got) \in Nat
    BY <2>1 DEF GivenInPieces
  <2>5. e \in Events
    BY <2>2, <2>4 DEF L!EventOf, Events
  <2>6. /\ got' \in Seq(Events)
        /\ Len(got') = Len(got) + 1 /\ got'[Len(got) + 1] = e
        /\ \A i \in 1..Len(got) : got'[i] = got[i]
    BY <1>3, <2>4, <2>5
  <2>7. GivenInPieces'
    <3>1. \A i \in 1..Len(got') : got'[i] = L!EventOf(reply, i)
      BY <2>1, <2>2, <2>4, <2>6 DEF GivenInPieces
    <3>2. Len(got') <= Len(reply.pieces)
      BY <2>2, <2>3, <2>6
    <3> QED BY <1>1, <2>6, <3>1, <3>2 DEF GivenInPieces
  <2> QED BY <1>1, <1>2, <1>5, <2>7 DEF GivenFits
<1> QED BY <1>4, <1>5

\* The stream ends, breaks, or is left and collected.
LEMMA AccountTells ==
    ASSUME LlmInv, calling \in {"reading", "left"}, L!Account, UNCHANGED <<asking, request, got>>,
           calling' = "over", ending' \in {"returned", "failed"},
           calling = "left" => ending' = "failed",
           ending' = "returned" /\ asking.provider = "ibk_custom" /\ got = <<>> =>
                L!CreateText(reply) = {},
           calling = "reading" /\ asking.provider = "ibk_custom" => ending' = "returned"
    PROVE  L!CallsAreTold'
<1> USE DEF LlmInv
<1>1. /\ L!Streaming(asking) /\ asking \in L!Calls
      /\ request = L!RequestOf(asking, L!Streaming(asking))
      /\ calling = "left" => got # <<>>
      /\ calling = "reading" => node = L!Unit(asking)
  BY DEF CallStage, LlmTypes
<1>2. request # L!NoRequest
  BY <1>1, LlmClientAssumed, RequestsFit DEF Fits
<1>3. CASE asking.provider = "ibk_custom"
  <2>1. accounts' = Told(L!CreateText(reply), L!Unit(asking))
    BY <1>3 DEF L!Account, AccountFits
  <2>2. got \in {<<>>, <<L!WholeText(reply)>>}
    BY <1>1, <1>3 DEF GivenFits, GivenWhole
  <2>3. L!TextOf(got) = L!CreateText(reply)
    <3>1. CASE got = <<>>
      BY <3>1, <1>1, <1>3, TextOfWhole
    <3>2. CASE got = <<L!WholeText(reply)>>
      BY <3>2, TextOfWhole
    <3> QED BY <2>2, <3>1, <3>2
  <2> QED BY <1>1, <1>2, <2>1, <2>3, ToldOnce
<1>4. CASE asking.provider # "ibk_custom"
  <2>1. accounts' = Told(L!TextOf(got), node)
    BY <1>4, AppendToNone DEF L!Account, AccountFits, L!Tell, Told
  <2>2. node # L!Unit(asking) => ending' = "failed"
    BY <1>1
  <2> QED BY <1>1, <1>2, <2>1, <2>2, ToldOnce
<1> QED BY <1>3, <1>4

\* The stream of the gateway has ended when its reader has the whole text.
LEMMA StreamEndsKeeps == ASSUME LlmInv, L!StreamEnds \/ L!StreamBreaks PROVE LlmInv'
<1> USE DEF LlmInv
<1>1. PICK how \in {"returned", "failed"} :
        /\ how = "returned" => L!Coming = {}
        /\ how = "failed" => asking.provider # "ibk_custom"
        /\ calling' = "over" /\ ending' = how /\ node' = L!NodeAfter(asking, how)
        /\ calling = "reading" /\ L!Account /\ UNCHANGED <<asking, request, reply, got>>
  BY DEF L!StreamEnds, L!StreamBreaks, L!Over
<1>2. /\ L!Streaming(asking) /\ reply \in L!Answers(asking)
      /\ request = L!RequestOf(asking, L!Streaming(asking))
  BY <1>1 DEF CallStage
<1>3. LlmTypes'
  BY <1>1 DEF LlmTypes, L!NodeAfter
<1>4. CallStage'
  BY <1>1, <1>2 DEF CallStage, L!NodeIsRestored, L!NodeAfter
<1>5. CASE asking.provider = "ibk_custom"
  <2>1. got \in {<<>>, <<L!WholeText(reply)>>}
    BY <1>2, <1>5 DEF GivenFits, GivenWhole
  <2>2. got = <<>> => L!CreateText(reply) = {}
    <3>1. L!Coming = {e \in {L!WholeText(reply)} : got = <<>> /\ e.of # {}} /\ L!Coming = {}
      BY <1>1, <1>5 DEF L!Coming
    <3>2. L!WholeText(reply).of = L!CreateText(reply)
      BY DEF L!WholeText
    <3> QED BY <3>1, <3>2
  <2>3. GivenFits'
    BY <1>1, <1>2, <1>5, <2>1, <2>2 DEF GivenFits, GivenWhole
  <2>4. L!CallsAreTold'
    BY <1>1, <1>5, <2>2, AccountTells
  <2> QED BY <1>1, <1>3, <1>4, <2>3, <2>4 DEF AccountFits
<1>6. CASE asking.provider # "ibk_custom"
  <2>1. GivenInPieces
    BY <1>2, <1>6 DEF GivenFits
  <2>2. DOMAIN reply.pieces = 1..Len(reply.pieces) /\ Len(reply.pieces) \in Nat
    BY <1>2, AnswerHas
  <2>3. Len(got) \in Nat
    BY <2>1 DEF GivenInPieces
  <2>4. how = "returned" => Len(got) = Len(reply.pieces)
    <3>1. L!Coming = {} => Len(got) + 1 \notin DOMAIN reply.pieces
      BY <1>6 DEF L!Coming
    <3> QED BY <1>1, <2>1, <2>2, <2>3, <3>1 DEF GivenInPieces
  <2>5. GivenFits'
    BY <1>1, <1>2, <1>6, <2>1, <2>4 DEF GivenFits, GivenInPieces
  <2>6. L!CallsAreTold'
    BY <1>1, <1>6, AccountTells
  <2> QED BY <1>1, <1>3, <1>4, <2>5, <2>6 DEF AccountFits
<1> QED BY <1>5, <1>6

\* Nobody closes a stream that is left, so that it is told later, and for another node.
LEMMA LeavesKeep == ASSUME LlmInv, L!Leave \/ L!NextNode \/ L!Collect PROVE LlmInv'
<1> USE DEF LlmInv
<1>1. /\ asking' = asking /\ request' = request /\ reply' = reply /\ got' = got
      /\ calling \in {"reading", "left"} /\ ending' = "failed"
      /\ calling' \in {"left", "over"} /\ got # <<>>
      /\ L!Streaming(asking) /\ reply \in L!Answers(asking)
      /\ request = L!RequestOf(asking, L!Streaming(asking))
  BY DEF L!Leave, L!NextNode, L!Collect, CallStage
<1>2. LlmTypes'
  BY <1>1 DEF LlmTypes, L!Leave, L!NextNode, L!Collect, L!NodeAfter
<1>3. GivenFits'
  BY <1>1 DEF GivenFits, GivenWhole, GivenInPieces
<1>4. CASE L!Leave \/ L!NextNode
  <2>1. calling' = "left" /\ accounts' = accounts
    BY <1>4 DEF L!Leave, L!NextNode
  <2>2. CallStage' /\ AccountFits'
    <3>1. node' # "unit"
      BY <1>4 DEF L!Leave, L!NextNode, L!NodeAfter, L!Streaming, CallStage
    <3> QED BY <1>1, <2>1, <3>1 DEF CallStage, AccountFits
  <2> QED BY <1>2, <1>3, <2>2
<1>5. CASE L!Collect
  <2>1. calling = "left" /\ calling' = "over" /\ L!Account /\ node' = node
    BY <1>5 DEF L!Collect
  <2>2. L!CallsAreTold'
    BY <1>1, <2>1, AccountTells
  <2>3. CallStage'
    BY <1>1, <2>1 DEF CallStage, L!NodeIsRestored
  <2> QED BY <1>2, <1>3, <2>1, <2>2, <2>3 DEF AccountFits
<1> QED BY <1>4, <1>5

LEMMA LlmStep == ASSUME LlmInv, [L!Next]_(L!vars) PROVE LlmInv'
<1>1. CASE L!Send \/ L!Refuse \/ L!Fail
  BY <1>1, SendsKeep
<1>2. CASE L!Return
  BY <1>2, ReturnKeeps
<1>3. CASE L!Open
  BY <1>3, OpenKeeps
<1>4. CASE L!Read
  BY <1>4, ReadKeeps
<1>5. CASE L!StreamEnds \/ L!StreamBreaks
  BY <1>5, StreamEndsKeeps
<1>6. CASE L!Leave \/ L!NextNode \/ L!Collect
  BY <1>6, LeavesKeep
<1>7. CASE UNCHANGED L!vars
  <2> USE <1>7 DEF L!vars, LlmInv
  <2>1. LlmTypes'
    BY DEF LlmTypes
  <2>2. CallStage'
    BY DEF CallStage, L!NodeIsRestored, L!Ended
  <2>3. GivenFits'
    BY DEF GivenFits, GivenAtOnce, GivenWhole, GivenInPieces
  <2>4. AccountFits'
    BY DEF AccountFits, L!CallsAreTold, L!Sent, L!Ended
  <2> QED BY <2>1, <2>2, <2>3, <2>4
<1> QED BY <1>1, <1>2, <1>3, <1>4, <1>5, <1>6, <1>7 DEF L!Next, L!Done

\* What the caller was given hides the thoughts and has the order of the answer.
LEMMA GivenHides == ASSUME LlmInv PROVE L!ThoughtsAreHidden
<1> USE DEF LlmInv
<1>1. reply = L!NoAnswer \/ reply \in L!Answers(asking)
  BY DEF LlmTypes
<1>2. CASE got = <<>>
  <2>1. L!TextOf(got) = {} /\ DOMAIN got = {}
    <3>1. DOMAIN <<>> = {}
      OBVIOUS
    <3> QED BY <1>2, <3>1, TextOfWhole
  <2>2. L!Ended /\ ending = "returned" /\ ~reply.cut => L!CreateText(reply) = {}
    <3>1. SUFFICES ASSUME ending = "returned" PROVE L!CreateText(reply) = {}
      OBVIOUS
    <3>2. ~GivenAtOnce
      BY <1>2, <3>1 DEF GivenAtOnce
    <3>3. CASE asking.provider = "ibk_custom"
      BY <1>2, <3>1, <3>2, <3>3 DEF GivenFits, GivenWhole
    <3>4. CASE asking.provider # "ibk_custom"
      <4>1. Len(reply.pieces) = 0
        BY <1>2, <3>1, <3>2, <3>4 DEF GivenFits, GivenInPieces
      <4> QED BY <1>1, <4>1, AnswerHas DEF L!CreateText
    <3> QED BY <3>3, <3>4
  <2> QED BY <2>1, <2>2 DEF L!ThoughtsAreHidden
<1>3. CASE got = <<L!WholeText(reply)>>
  <2>1. DOMAIN got = {1} /\ got[1].of = L!CreateText(reply) /\ L!TextOf(got) = L!CreateText(reply)
    BY <1>3, TextOfWhole DEF L!WholeText
  <2>2. \/ \A n \in L!CreateText(reply) : reply.pieces[n] = "text"
        \/ reply.cut
    BY DEF L!CreateText
  <2>3. CASE ~L!Streaming(asking) \/ asking.provider = "ibk_custom"
    BY <2>1, <2>2, <2>3 DEF L!ThoughtsAreHidden
  <2>4. CASE L!Streaming(asking) /\ asking.provider # "ibk_custom"
    <3>1. GivenInPieces
      BY <2>4 DEF GivenFits
    <3>2. got[1] = L!EventOf(reply, 1)
      BY <1>3, <3>1 DEF GivenInPieces
    <3>3. got[1].kind = "text"
      BY <1>3 DEF L!WholeText
    <3>4. got[1].of = {1} /\ reply.pieces[1] = "text"
      BY <3>2, <3>3 DEF L!EventOf
    <3> QED BY <2>1, <3>4 DEF L!ThoughtsAreHidden
  <2> QED BY <2>3, <2>4
<1>4. CASE got # <<>> /\ got # <<L!WholeText(reply)>>
  <2>1. L!Streaming(asking) /\ asking.provider # "ibk_custom" /\ GivenInPieces
    BY <1>4 DEF GivenFits, GivenAtOnce, GivenWhole
  <2>2. /\ DOMAIN got = 1..Len(got) /\ Len(got) \in Nat
        /\ \A i \in 1..Len(got) : got[i] = L!EventOf(reply, i)
    BY <2>1 DEF GivenInPieces
  <2>3. \A i \in 1..Len(got) :
            got[i].of = {i} /\ (got[i].kind = "text" <=> reply.pieces[i] = "text")
    BY <2>2 DEF L!EventOf
  <2>4. L!TextOf(got) = {i \in DOMAIN got : reply.pieces[i] = "text"}
    BY <2>2, TextOfPieces
  <2>5. ending = "returned" => DOMAIN got = DOMAIN reply.pieces
    BY <1>1, <2>1, <2>2, AnswerHas DEF GivenInPieces
  <2>6. ending = "returned" /\ ~reply.cut => L!TextOf(got) = L!CreateText(reply)
    BY <2>4, <2>5 DEF L!CreateText
  <2> QED BY <2>2, <2>3, <2>6 DEF L!ThoughtsAreHidden
<1> QED BY <1>2, <1>3, <1>4

\* Each property of a call follows from what there is where it stands.
LEMMA LlmInvHolds == ASSUME LlmInv PROVE LlmCallHolds
<1> USE DEF LlmInv
<1>1. asking \in L!Calls /\ L!Streaming(asking) \in BOOLEAN
  BY DEF LlmTypes, L!Streaming
<1>2. L!CallsAreTold
  <2>1. CASE calling = "over"
    BY <2>1 DEF AccountFits
  <2>2. CASE calling # "over"
    <3>1. accounts = <<>> \/ accounts = Told(L!CreateText(reply), L!Unit(asking))
      BY <2>2 DEF LlmTypes, CallStage, AccountFits
    <3>2. Len(accounts) <= 1
      <4>1. CASE accounts = <<>>
        BY <4>1
      <4>2. CASE accounts = Told(L!CreateText(reply), L!Unit(asking))
        BY <4>2 DEF Told
      <4> QED BY <3>1, <4>1, <4>2
    <3> QED BY <2>2, <3>2 DEF L!CallsAreTold, L!Ended
  <2> QED BY <2>1, <2>2
<1>3. L!Sent => request = L!RequestOf(asking, L!Streaming(asking))
  BY DEF L!Sent, LlmTypes, CallStage
<1>4. L!RequestFits
  BY <1>1, <1>3, LlmClientAssumed, RequestsFit DEF L!RequestFits, Fits
<1>5. L!SameRequest
  BY <1>1, <1>3, LlmClientAssumed, RequestsFit DEF L!SameRequest, Agree
<1>6. L!NodeIsRestored
  BY DEF L!NodeIsRestored, L!Ended, CallStage
<1>7. L!TypeOK
  <2>1. /\ DOMAIN reply.pieces = 1..Len(reply.pieces) /\ Len(reply.pieces) \in Nat
    BY AnswerHas DEF LlmTypes
  <2>2. CASE got = <<>>
    <3>1. DOMAIN <<>> = {}
      OBVIOUS
    <3> QED BY <2>2, <3>1 DEF LlmTypes, L!TypeOK
  <2>3. CASE got = <<L!WholeText(reply)>>
    <3>1. DOMAIN got = {1} /\ got[1] = L!WholeText(reply)
      BY <2>3
    <3>2. got[1].kind = "text" /\ got[1].of \subseteq DOMAIN reply.pieces
      BY <3>1 DEF L!WholeText, L!CreateText
    <3> QED BY <3>1, <3>2 DEF LlmTypes, L!TypeOK
  <2>4. CASE got # <<>> /\ got # <<L!WholeText(reply)>>
    <3>1. GivenInPieces
      BY <2>4 DEF GivenFits, GivenAtOnce, GivenWhole
    <3>2. DOMAIN got = 1..Len(got) /\ Len(got) \in Nat
      BY <3>1 DEF GivenInPieces
    <3>3. \A i \in DOMAIN got :
            got[i].kind \in {"text", "thinking"} /\ got[i].of \subseteq DOMAIN reply.pieces
      BY <2>1, <3>1, <3>2 DEF GivenInPieces, L!EventOf
    <3> QED BY <3>3 DEF LlmTypes, L!TypeOK
  <2> QED BY <2>2, <2>3, <2>4
<1> QED BY <1>2, <1>4, <1>5, <1>6, <1>7, GivenHides DEF LlmCallHolds, L!LlmCallHolds

\* Where a call of the LLM stands, its caller was given the events of the answer so
\* far and the trace was told of it, whichever way the call is made and ends.
THEOREM LlmInvariance == L!Spec => []LlmInv
<1>1. L!Init => LlmInv
  BY LlmInit
<1>2. LlmInv /\ [L!Next]_(L!vars) => LlmInv'
  BY LlmStep
<1> QED BY <1>1, <1>2, PTL DEF L!Spec

\* The request of a call fits its model, its caller and the trace get the same of the
\* answer, no thought passes for text and the node name is put back, for all limits
\* and for answers of any length.
THEOREM LlmCallsHold == L!Spec => []LlmCallHolds
<1>1. LlmInv => LlmCallHolds
  BY LlmInvHolds
<1> QED BY <1>1, LlmInvariance, PTL
=============================================================================
