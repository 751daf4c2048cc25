------------------------ MODULE ReasoningLoop_proofs ------------------------
(***************************************************************************)
(* The safety properties of ReasoningLoop, for every value of its          *)
(* constants that satisfies the assumptions of that module.                *)
(*                                                                         *)
(* The file goes from lemmas about the operators of the model, over type   *)
(* correctness, to the inductive invariant IInv: one lemma per conjunct,   *)
(* one step per group of actions that change the turn in the same way      *)
(* (a skipped node, exploring, the gate, generating, validating,           *)
(* recovering, leaving the loop, the user), then the theorems.  At the end *)
(* the reason layer is shown to implement TurnContract: initial states map *)
(* to initial states, and a superstep of the graph to a step of the        *)
(* contract or to none.                                                    *)
(***************************************************************************)
EXTENDS ReasonTurn, TLAPS

USE LimitsAssumption, SystemsAssumption, SqlAssumption, SwitchesAssumption

-----------------------------------------------------------------------------
(* Operators of the model                                                   *)

\* resolve_target_db decides a system, or none.
LEMMA ResolveType ==
    ASSUME NEW S \in SUBSET Systems
    PROVE  ResolveTargetDb(S) \in Systems \cup {NoDb}
  <1>1. CASE TargetDbCode # NoDb
    BY <1>1 DEF ResolveTargetDb
  <1>2. CASE TargetDbCode = NoDb /\ \E s \in S : S = {s}
    BY <1>2 DEF ResolveTargetDb
  <1>3. CASE TargetDbCode = NoDb /\ ~ \E s \in S : S = {s}
    BY <1>3 DEF ResolveTargetDb
  <1>. QED BY <1>1, <1>2, <1>3

\* get_query_db finds a connector of a system, or raises.
LEMMA QueryDbType ==
    ASSUME NEW d \in Systems \cup {NoDb}
    PROVE  QueryDb(d) \in Systems \cup {NoDb}
  <1>1. CASE d \in Connectors
    BY <1>1 DEF QueryDb
  <1>2. CASE d \notin Connectors /\ \E c \in Connectors : Connectors = {c}
    BY <1>2 DEF QueryDb
  <1>3. CASE d \notin Connectors /\ ~ \E c \in Connectors : Connectors = {c}
    BY <1>3 DEF QueryDb
  <1>. QED BY <1>1, <1>2, <1>3

\* A saturating counter stays within its limit and never goes back.
LEMMA BumpType ==
    ASSUME NEW cap \in Nat, NEW n \in 0..cap
    PROVE  /\ Bump(n, cap) \in 0..cap
           /\ Bump(n, cap) >= n
  BY DEF Bump

\* The batch of context_retriever is all that is wanted or all that is left.
LEMMA ExecutedBounds ==
    ASSUME NEW wanted \in Nat, NEW remaining \in Nat
    PROVE  /\ Executed(wanted, remaining) \in Nat
           /\ Executed(wanted, remaining) <= wanted
           /\ Executed(wanted, remaining) <= remaining
           /\ Executed(wanted, remaining) = wanted
                \/ Executed(wanted, remaining) = remaining
  BY DEF Executed

\* The counters of a new turn are within their limits.
LEMMA FreshGuardType == FreshGuard \in LoopGuards
  BY DEF FreshGuard, LoopGuards, ReplanCap

\* Entering recovery_agent keeps the tool calls and, unless the user has just
\* answered, counts a replan.
LEMMA EntryGuardFacts ==
    ASSUME TypeOK
    PROVE  /\ EntryGuard \in LoopGuards
           /\ EntryGuard.toolCalls = loopGuard.toolCalls
           /\ ~answered => EntryGuard.replans > 0
  <1>1. ReplanCap \in Nat /\ ReplanCap > 0
    BY DEF ReplanCap
  <1>2. /\ Bump(loopGuard.replans, ReplanCap) \in 0..ReplanCap
        /\ Bump(loopGuard.replans, ReplanCap) > 0
    BY <1>1 DEF TypeOK, LoopGuards, Bump
  <1>3. LocalFixesAfterFailure \in 0..MaxLocalFixes
    BY DEF LocalFixesAfterFailure, TypeOK, LoopGuards
  <1>. QED BY <1>2, <1>3 DEF EntryGuard, TypeOK, LoopGuards

\* context_retriever stays within the tool calls, and leaves a step PENDING
\* only when they are used up.
LEMMA RetrieverFacts ==
    ASSUME TypeOK, ContextRetriever
    PROVE  /\ loopGuard' \in LoopGuards
           /\ pendingSteps' \in Nat
           /\ pendingSteps' > 0 => loopGuard'.toolCalls = MaxToolCalls
           /\ loopGuard'.replans = loopGuard.replans
  <1>1. PICK skipped \in 0..pendingSteps :
          LET wanted   == pendingSteps - skipped
              executed == Executed(wanted, MaxToolCalls - loopGuard.toolCalls)
          IN  /\ loopGuard' = [loopGuard EXCEPT !.toolCalls = @ + executed]
              /\ pendingSteps' = wanted - executed
    BY DEF ContextRetriever
  <1>. DEFINE wanted == pendingSteps - skipped
              remaining == MaxToolCalls - loopGuard.toolCalls
              executed == Executed(wanted, remaining)
  <1>2. wanted \in Nat /\ remaining \in Nat
    BY DEF TypeOK, LoopGuards
  <1>3. /\ executed \in Nat /\ executed <= wanted /\ executed <= remaining
        /\ executed = wanted \/ executed = remaining
    BY <1>2, ExecutedBounds
  <1>4. /\ loopGuard' = [loopGuard EXCEPT !.toolCalls = @ + executed]
        /\ pendingSteps' = wanted - executed
    BY <1>1
  <1>. HIDE DEF wanted, executed
  <1>5. loopGuard' \in LoopGuards /\ loopGuard'.replans = loopGuard.replans
    BY <1>3, <1>4 DEF TypeOK, LoopGuards
  <1>6. pendingSteps' \in Nat
    BY <1>2, <1>3, <1>4
  <1>7. pendingSteps' > 0 => loopGuard'.toolCalls = MaxToolCalls
    <2>1. loopGuard'.toolCalls = loopGuard.toolCalls + executed
      BY <1>4 DEF TypeOK, LoopGuards
    <2>. QED BY <2>1, <1>2, <1>3, <1>4 DEF TypeOK, LoopGuards
  <1>. QED BY <1>5, <1>6, <1>7

-----------------------------------------------------------------------------
(* Type correctness                                                         *)

\* Every entry into the reason layer is well typed.
LEMMA InitType == Init => TypeOK
  <1>. SUFFICES ASSUME Init PROVE TypeOK
    OBVIOUS
  <1>1. node \in Nodes /\ route \in {"NONE", "REGENERATE"}
    BY DEF Init, FreshEntry, RegenerateEntry, Nodes, CancelChecked
  <1>2. /\ readiness \in Bands /\ explored \in BOOLEAN
        /\ selected \subseteq Systems
        /\ targetDb \in Systems \cup {NoDb}
    BY ResolveType DEF Init, FreshEntry, RegenerateEntry, Bands
  <1>. QED BY <1>1, <1>2, FreshGuardType DEF Init, TypeOK, FailureTypes

\* Every step keeps the types, the counters within their limits included.
LEMMA NextType == TypeOK /\ [Next]_vars => TypeOK'
  <1>. SUFFICES ASSUME TypeOK PROVE [Next]_vars => TypeOK'
    OBVIOUS
  <1>. USE DEF TypeOK, Nodes, CancelChecked, Terminal, Bands, FailureTypes,
            LocalFixable
  <1>. USE DEF vars, signalVars, hypVars, contextVars, recoveryVars,
            sqlVars, planVars, reasonVars
  <1>1. CASE CancelledAtEntry
    BY <1>1 DEF CancelledAtEntry, RouteAfter, RouteAfterReadinessGate,
            RouteAfterSqlGenerator, RouteAfterSqlValidator,
            RouteAfterRecoveryAgent, RouteAfterExecution
  <1>2. CASE ReasoningPreparer
    <2>1. pendingSteps' \in Nat
      BY <1>2 DEF ReasoningPreparer
    <2>2. isForceGenerated' \in BOOLEAN
      BY <1>2, Zenon DEF ReasoningPreparer
    <2>. HIDE DEF ReasoningPreparer
    <2>3. /\ node' = "context_retriever" /\ hypothesis' = "ACTIVE"
          /\ pendingHyps' = 0 /\ explorationPhase' = "initial"
          /\ entrySource' = "NONE" /\ phase' = "EXPLORING"
          /\ UNCHANGED <<status, route, cancelFlag, signalVars, failureType,
                         finalStatus, contextVars, targetDb, sqlVars,
                         loopGuard>>
      BY <1>2 DEF ReasoningPreparer
    <2>. QED BY <2>1, <2>2, <2>3
  <1>3. CASE ContextRetriever
    BY <1>3, RetrieverFacts DEF ContextRetriever, Runs
  <1>4. CASE ContextInterpreter
    BY <1>4 DEF ContextInterpreter, Runs
  <1>5. CASE ReadinessGate
    BY <1>5, ResolveType DEF ReadinessGate, Runs, GatePhase, FailureContext,
            RouteAfterReadinessGate, Verdict
  <1>6. CASE SqlGenerator
    BY <1>6, BumpType DEF SqlGenerator, Runs, LoopGuards,
            RouteAfterSqlGenerator
  <1>7. CASE ValidatorWithoutSql
    BY <1>7 DEF ValidatorWithoutSql, Runs, ValidatorUnchanged,
            RouteAfterSqlValidator
  <1>8. CASE ValidatorRejectsByRule
    BY <1>8, BumpType DEF ValidatorRejectsByRule, Runs, ValidatorUnchanged,
            RouteAfterSqlValidator, LocalFailure, SourceIfUnset, LoopGuards
  <1>9. CASE ValidatorRunsSql
    BY <1>9, QueryDbType DEF ValidatorRunsSql, Runs, ValidatorUnchanged,
            RouteAfterSqlValidator, ValidationPassed, Failure, SourceIfUnset
  <1>10. CASE SemanticCheck
    BY <1>10, BumpType DEF SemanticCheck, RouteAfterSqlValidator,
            ValidationPassed, Failure, LocalFailure, SourceIfUnset, LoopGuards
  <1>11. CASE RecoveryAsksUser
    BY <1>11, EntryGuardFacts DEF RecoveryAsksUser, MayAsk, RecoveryEntry,
            RecoveryUnchanged, Runs, RouteAfterRecoveryAgent, EntryHypothesis,
            EntryPending, EntryFailure, HypothesisAfterFailure,
            PendingAfterFailure, LoopGuards
  <1>12. CASE RecoveryGivesUp
    <2>1. isForceGenerated' \in BOOLEAN
      BY <1>12, Zenon DEF RecoveryGivesUp, GiveUp
    <2>2. finalStatus' \in {"PENDING", "SUCCESS", "CANCELLED", "FAILURE"}
      BY <1>12 DEF RecoveryGivesUp, GiveUp
    <2>3. node' \in Nodes
      BY <1>12 DEF RecoveryGivesUp, RouteAfterRecoveryAgent
    <2>. QED BY <1>12, <2>1, <2>2, <2>3, EntryGuardFacts
         DEF RecoveryGivesUp, GiveUp, RecoveryEntry, RecoveryUnchanged,
             EntryHypothesis, EntryPending, EntryFailure,
             HypothesisAfterFailure, PendingAfterFailure
  <1>13. CASE RecoveryReplans
    <2>1. isForceGenerated' \in BOOLEAN
      BY <1>13, Zenon DEF RecoveryReplans, GiveUp
    <2>2. finalStatus' \in {"PENDING", "SUCCESS", "CANCELLED", "FAILURE"}
      BY <1>13 DEF RecoveryReplans, GiveUp
    <2>3. node' \in Nodes
      BY <1>13 DEF RecoveryReplans, RouteAfterRecoveryAgent
    <2>. QED BY <1>13, <2>1, <2>2, <2>3, EntryGuardFacts
         DEF RecoveryReplans, GiveUp, RecoveryEntry, RecoveryUnchanged,
             EntryHypothesis, EntryPending, EntryFailure,
             HypothesisAfterFailure, PendingAfterFailure
  <1>14. CASE NodeRaises
    BY <1>14 DEF NodeRaises, Runs
  <1>15. CASE ClarificationHandler
    BY <1>15 DEF ClarificationHandler
  <1>16. CASE ResultFinalizer
    BY <1>16 DEF ResultFinalizer, RouteAfterResultFinalizer
  <1>17. CASE SqlExecutor
    BY <1>17 DEF SqlExecutor, Runs, RouteAfterExecution
  <1>18. CASE HandleError
    BY <1>18 DEF HandleError
  <1>19. CASE Answer
    BY <1>19 DEF Answer
  <1>20. CASE Abandon
    BY <1>20 DEF Abandon
  <1>21. CASE Cancel
    BY <1>21 DEF Cancel
  <1>22. CASE UNCHANGED vars
    BY <1>22
    <1>. QED BY <1>1, <1>2, <1>3, <1>4, <1>5, <1>6, <1>7, <1>8, <1>9, <1>10,
            <1>11, <1>12, <1>13, <1>14, <1>15, <1>16, <1>17, <1>18, <1>19,
            <1>20, <1>21, <1>22 DEF Next, GraphStep, RecoveryAgent, Finished

-----------------------------------------------------------------------------
(* The inductive invariant                                                  *)

\* Types, the bookkeeping of the loop (ControlInv) and the safety properties
\* themselves, which rest on one another.
IInv ==
    /\ TypeOK /\ ControlInv
    /\ ExecutedSqlIsValidated /\ TargetFollowsSelection
    /\ ExplorationWithinBudget /\ LocalFixWithinBudget /\ FailureIsFinal
    /\ GenerateLimitNeedsForce /\ RegenerateRecoversAfterLocalFixes

\* Only result_finalizer, sql_executor and handle_error end a turn by status.
LEMMA StatusInv_Step == IInv /\ TypeOK' /\ [Next]_vars => StatusInv'
  <1>. SUFFICES ASSUME IInv, TypeOK' PROVE [Next]_vars => StatusInv'
    OBVIOUS
  <1>. USE DEF IInv, ControlInv, TypeOK, StatusInv
  <1>. USE DEF Nodes, CancelChecked, Terminal, vars, signalVars, reasonVars,
          planVars, sqlVars, hypVars, contextVars, recoveryVars
  <1>1. CASE CancelledAtEntry
    BY <1>1 DEF CancelledAtEntry, RouteAfter, RouteAfterReadinessGate,
            RouteAfterSqlGenerator, RouteAfterSqlValidator,
            RouteAfterRecoveryAgent, RouteAfterExecution
  <1>2. CASE ReasoningPreparer \/ ContextRetriever \/ ContextInterpreter
    BY <1>2 DEF ReasoningPreparer, ContextRetriever, ContextInterpreter, Runs
  <1>3. CASE ReadinessGate
    BY <1>3 DEF ReadinessGate, Runs, RouteAfterReadinessGate, GatePhase
  <1>4. CASE SqlGenerator
    BY <1>4 DEF SqlGenerator, Runs, RouteAfterSqlGenerator
  <1>5. CASE ValidatorWithoutSql \/ ValidatorRejectsByRule
            \/ ValidatorRunsSql \/ SemanticCheck
    BY <1>5 DEF ValidatorWithoutSql, ValidatorRejectsByRule, ValidatorRunsSql,
            SemanticCheck, Runs, ValidatorUnchanged, RouteAfterSqlValidator,
            LocalFailure, Failure, ValidationPassed
  <1>6. CASE RecoveryAsksUser \/ RecoveryGivesUp \/ RecoveryReplans
    BY <1>6 DEF RecoveryAsksUser, RecoveryGivesUp, RecoveryReplans, Runs,
            RecoveryEntry, RecoveryUnchanged, GiveUp, RouteAfterRecoveryAgent
  <1>7. CASE ClarificationHandler \/ ResultFinalizer \/ SqlExecutor
            \/ HandleError \/ NodeRaises
    BY <1>7 DEF ClarificationHandler, ResultFinalizer, SqlExecutor,
            HandleError, NodeRaises, Runs, RouteAfterResultFinalizer,
            RouteAfterExecution
  <1>8. CASE Answer \/ Abandon \/ Cancel \/ UNCHANGED vars
    BY <1>8 DEF Answer, Abandon, Cancel
  <1>. QED BY <1>1, <1>2, <1>3, <1>4, <1>5, <1>6, <1>7, <1>8 DEF Next,
              GraphStep, RecoveryAgent, Finished

\* Only recovery_agent opens a question, and it goes to clarification_handler.
LEMMA SignalInv_Step == IInv /\ TypeOK' /\ [Next]_vars => SignalInv'
  <1>. SUFFICES ASSUME IInv, TypeOK' PROVE [Next]_vars => SignalInv'
    OBVIOUS
  <1>. USE DEF IInv, ControlInv, TypeOK, SignalInv, StatusInv,
          ExecutedSqlIsValidated
  <1>. USE DEF Nodes, CancelChecked, Terminal, vars, signalVars, reasonVars,
          planVars, sqlVars, hypVars, contextVars, recoveryVars
  <1>1. CASE CancelledAtEntry
    BY <1>1 DEF CancelledAtEntry, RouteAfter, RouteAfterReadinessGate,
            RouteAfterSqlGenerator, RouteAfterSqlValidator,
            RouteAfterRecoveryAgent, RouteAfterExecution
  <1>2. CASE ReasoningPreparer \/ ContextRetriever \/ ContextInterpreter
    BY ZenonT(60), <1>2 DEF ReasoningPreparer, ContextRetriever, ContextInterpreter, Runs
  <1>3. CASE ReadinessGate
    BY <1>3 DEF ReadinessGate, Runs, RouteAfterReadinessGate, GatePhase
  <1>4. CASE SqlGenerator
    BY <1>4 DEF SqlGenerator, Runs, RouteAfterSqlGenerator
  <1>5. CASE ValidatorWithoutSql \/ ValidatorRejectsByRule
            \/ ValidatorRunsSql \/ SemanticCheck
    BY <1>5 DEF ValidatorWithoutSql, ValidatorRejectsByRule, ValidatorRunsSql,
            SemanticCheck, Runs, ValidatorUnchanged, RouteAfterSqlValidator,
            LocalFailure, Failure, ValidationPassed
  <1>6. CASE RecoveryAsksUser \/ RecoveryGivesUp \/ RecoveryReplans
    BY <1>6 DEF RecoveryAsksUser, RecoveryGivesUp, RecoveryReplans, Runs,
            RecoveryEntry, RecoveryUnchanged, GiveUp, RouteAfterRecoveryAgent
  <1>7. CASE ClarificationHandler \/ ResultFinalizer \/ SqlExecutor
            \/ HandleError \/ NodeRaises
    BY ZenonT(60), <1>7 DEF ClarificationHandler, ResultFinalizer, SqlExecutor,
            HandleError, NodeRaises, Runs, RouteAfterResultFinalizer,
            RouteAfterExecution
  <1>8. CASE Answer \/ Abandon \/ Cancel \/ UNCHANGED vars
    BY <1>8 DEF Answer, Abandon, Cancel
  <1>. QED BY <1>1, <1>2, <1>3, <1>4, <1>5, <1>6, <1>7, <1>8 DEF Next,
              GraphStep, RecoveryAgent, Finished

\* Nothing but the validator itself runs between its two halves.
LEMMA LayerThreeInv_Step == IInv /\ TypeOK' /\ [Next]_vars => LayerThreeInv'
  <1>. SUFFICES ASSUME IInv, TypeOK' PROVE [Next]_vars => LayerThreeInv'
    OBVIOUS
  <1>. USE DEF IInv, ControlInv, TypeOK, LayerThreeInv
  <1>. USE DEF Nodes, CancelChecked, Terminal, vars, signalVars, reasonVars,
          planVars, sqlVars, hypVars, contextVars, recoveryVars
  <1>1. CASE CancelledAtEntry
    BY <1>1 DEF CancelledAtEntry, RouteAfter, RouteAfterReadinessGate,
            RouteAfterSqlGenerator, RouteAfterSqlValidator,
            RouteAfterRecoveryAgent, RouteAfterExecution
  <1>2. CASE ReasoningPreparer \/ ContextRetriever \/ ContextInterpreter
    BY <1>2 DEF ReasoningPreparer, ContextRetriever, ContextInterpreter, Runs
  <1>3. CASE ReadinessGate
    BY <1>3 DEF ReadinessGate, Runs, RouteAfterReadinessGate, GatePhase
  <1>4. CASE SqlGenerator
    BY <1>4 DEF SqlGenerator, Runs, RouteAfterSqlGenerator
  <1>5. CASE ValidatorWithoutSql \/ ValidatorRejectsByRule
            \/ ValidatorRunsSql \/ SemanticCheck
    BY <1>5 DEF ValidatorWithoutSql, ValidatorRejectsByRule, ValidatorRunsSql,
            SemanticCheck, Runs, ValidatorUnchanged, RouteAfterSqlValidator,
            LocalFailure, Failure, ValidationPassed
  <1>6. CASE RecoveryAsksUser \/ RecoveryGivesUp \/ RecoveryReplans
    BY <1>6 DEF RecoveryAsksUser, RecoveryGivesUp, RecoveryReplans, Runs,
            RecoveryEntry, RecoveryUnchanged, GiveUp, RouteAfterRecoveryAgent
  <1>7. CASE ClarificationHandler \/ ResultFinalizer \/ SqlExecutor
            \/ HandleError \/ NodeRaises
    BY <1>7 DEF ClarificationHandler, ResultFinalizer, SqlExecutor,
            HandleError, NodeRaises, Runs, RouteAfterResultFinalizer,
            RouteAfterExecution
  <1>8. CASE Answer \/ Abandon \/ Cancel \/ UNCHANGED vars
    BY <1>8 DEF Answer, Abandon, Cancel
  <1>. QED BY <1>1, <1>2, <1>3, <1>4, <1>5, <1>6, <1>7, <1>8 DEF Next,
              GraphStep, RecoveryAgent, Finished

\* Only the validator sets validated_sql, and the nodes after it change neither
\* the SQL, nor the target, nor the selection.
LEMMA ValidatedInv_Step == IInv /\ TypeOK' /\ [Next]_vars => ValidatedInv'
  <1>. SUFFICES ASSUME IInv, TypeOK' PROVE [Next]_vars => ValidatedInv'
    OBVIOUS
  <1>. USE DEF IInv, ControlInv, TypeOK, ValidatedInv, LayerThreeInv,
          TargetFollowsSelection, GenerationNodes
  <1>. USE DEF Nodes, CancelChecked, Terminal, vars, signalVars, reasonVars,
          planVars, sqlVars, hypVars, contextVars, recoveryVars
  <1>1. CASE CancelledAtEntry
    BY <1>1 DEF CancelledAtEntry, RouteAfter, RouteAfterReadinessGate,
            RouteAfterSqlGenerator, RouteAfterSqlValidator,
            RouteAfterRecoveryAgent, RouteAfterExecution
  <1>2. CASE ReasoningPreparer \/ ContextRetriever \/ ContextInterpreter
    BY ZenonT(60), <1>2 DEF ReasoningPreparer, ContextRetriever, ContextInterpreter, Runs
  <1>3. CASE ReadinessGate
    BY <1>3 DEF ReadinessGate, Runs, RouteAfterReadinessGate, GatePhase
  <1>4. CASE SqlGenerator
    BY <1>4 DEF SqlGenerator, Runs, RouteAfterSqlGenerator
  <1>5. CASE ValidatorWithoutSql \/ ValidatorRejectsByRule
            \/ ValidatorRunsSql \/ SemanticCheck
    BY <1>5 DEF ValidatorWithoutSql, ValidatorRejectsByRule, ValidatorRunsSql,
            SemanticCheck, Runs, ValidatorUnchanged, RouteAfterSqlValidator,
            LocalFailure, Failure, ValidationPassed
  <1>6. CASE RecoveryAsksUser \/ RecoveryGivesUp \/ RecoveryReplans
    BY <1>6 DEF RecoveryAsksUser, RecoveryGivesUp, RecoveryReplans, Runs,
            RecoveryEntry, RecoveryUnchanged, GiveUp, RouteAfterRecoveryAgent
  <1>7. CASE ClarificationHandler \/ ResultFinalizer \/ SqlExecutor
            \/ HandleError \/ NodeRaises
    BY <1>7 DEF ClarificationHandler, ResultFinalizer, SqlExecutor,
            HandleError, NodeRaises, Runs, RouteAfterResultFinalizer,
            RouteAfterExecution
  <1>8. CASE Answer \/ Abandon \/ Cancel \/ UNCHANGED vars
    BY <1>8 DEF Answer, Abandon, Cancel
  <1>. QED BY <1>1, <1>2, <1>3, <1>4, <1>5, <1>6, <1>7, <1>8 DEF Next,
              GraphStep, RecoveryAgent, Finished

\* No edge leads back to reasoning_preparer.
LEMMA PreparerInv_Step == IInv /\ TypeOK' /\ [Next]_vars => PreparerInv'
  <1>. SUFFICES ASSUME IInv, TypeOK' PROVE [Next]_vars => PreparerInv'
    OBVIOUS
  <1>. USE DEF IInv, ControlInv, TypeOK, PreparerInv
  <1>. USE DEF Nodes, CancelChecked, Terminal, vars, signalVars, reasonVars,
          planVars, sqlVars, hypVars, contextVars, recoveryVars
  <1>1. CASE CancelledAtEntry
    BY <1>1 DEF CancelledAtEntry, RouteAfter, RouteAfterReadinessGate,
            RouteAfterSqlGenerator, RouteAfterSqlValidator,
            RouteAfterRecoveryAgent, RouteAfterExecution
  <1>2. CASE ReasoningPreparer \/ ContextRetriever \/ ContextInterpreter
    BY <1>2 DEF ReasoningPreparer, ContextRetriever, ContextInterpreter, Runs
  <1>3. CASE ReadinessGate
    BY <1>3 DEF ReadinessGate, Runs, RouteAfterReadinessGate, GatePhase
  <1>4. CASE SqlGenerator
    BY <1>4 DEF SqlGenerator, Runs, RouteAfterSqlGenerator
  <1>5. CASE ValidatorWithoutSql \/ ValidatorRejectsByRule
            \/ ValidatorRunsSql \/ SemanticCheck
    BY <1>5 DEF ValidatorWithoutSql, ValidatorRejectsByRule, ValidatorRunsSql,
            SemanticCheck, Runs, ValidatorUnchanged, RouteAfterSqlValidator,
            LocalFailure, Failure, ValidationPassed
  <1>6. CASE RecoveryAsksUser \/ RecoveryGivesUp \/ RecoveryReplans
    BY <1>6 DEF RecoveryAsksUser, RecoveryGivesUp, RecoveryReplans, Runs,
            RecoveryEntry, RecoveryUnchanged, GiveUp, RouteAfterRecoveryAgent
  <1>7. CASE ClarificationHandler \/ ResultFinalizer \/ SqlExecutor
            \/ HandleError \/ NodeRaises
    BY <1>7 DEF ClarificationHandler, ResultFinalizer, SqlExecutor,
            HandleError, NodeRaises, Runs, RouteAfterResultFinalizer,
            RouteAfterExecution
  <1>8. CASE Answer \/ Abandon \/ Cancel \/ UNCHANGED vars
    BY <1>8 DEF Answer, Abandon, Cancel
  <1>. QED BY <1>1, <1>2, <1>3, <1>4, <1>5, <1>6, <1>7, <1>8 DEF Next,
              GraphStep, RecoveryAgent, Finished

\* New steps are planned only on the way to context_retriever: recovery_agent
\* goes there unless the turn is cancelled (SignalInv).
LEMMA LeftoverInv_Step == IInv /\ TypeOK' /\ [Next]_vars => LeftoverInv'
  <1>. SUFFICES ASSUME IInv, TypeOK' PROVE [Next]_vars => LeftoverInv'
    OBVIOUS
  <1>. USE DEF IInv, ControlInv, TypeOK, LeftoverInv, SignalInv,
          ExecutedSqlIsValidated, LoopGuards
  <1>. USE DEF Nodes, CancelChecked, Terminal, vars, signalVars, reasonVars,
          planVars, sqlVars, hypVars, contextVars, recoveryVars
  <1>1. CASE CancelledAtEntry
    BY <1>1 DEF CancelledAtEntry, RouteAfter, RouteAfterReadinessGate,
            RouteAfterSqlGenerator, RouteAfterSqlValidator,
            RouteAfterRecoveryAgent, RouteAfterExecution
  <1>2. CASE ReasoningPreparer \/ ContextRetriever \/ ContextInterpreter
    BY ZenonT(60), <1>2, RetrieverFacts DEF ReasoningPreparer, ContextRetriever,
            ContextInterpreter, Runs
  <1>3. CASE ReadinessGate
    BY <1>3 DEF ReadinessGate, Runs, RouteAfterReadinessGate, GatePhase
  <1>4. CASE SqlGenerator
    BY <1>4 DEF SqlGenerator, Runs, RouteAfterSqlGenerator
  <1>5. CASE ValidatorWithoutSql \/ ValidatorRejectsByRule
            \/ ValidatorRunsSql \/ SemanticCheck
    BY <1>5 DEF ValidatorWithoutSql, ValidatorRejectsByRule, ValidatorRunsSql,
            SemanticCheck, Runs, ValidatorUnchanged, RouteAfterSqlValidator,
            LocalFailure, Failure, ValidationPassed
  <1>6. CASE RecoveryAsksUser \/ RecoveryGivesUp \/ RecoveryReplans
    BY <1>6, EntryGuardFacts DEF RecoveryAsksUser, RecoveryGivesUp,
            RecoveryReplans, Runs, RecoveryEntry, RecoveryUnchanged, GiveUp,
            RouteAfterRecoveryAgent
  <1>7. CASE ClarificationHandler \/ ResultFinalizer \/ SqlExecutor
            \/ HandleError \/ NodeRaises
    BY <1>7 DEF ClarificationHandler, ResultFinalizer, SqlExecutor,
            HandleError, NodeRaises, Runs, RouteAfterResultFinalizer,
            RouteAfterExecution
  <1>8. CASE Answer \/ Abandon \/ Cancel \/ UNCHANGED vars
    BY <1>8 DEF Answer, Abandon, Cancel
  <1>. QED BY <1>1, <1>2, <1>3, <1>4, <1>5, <1>6, <1>7, <1>8 DEF Next,
              GraphStep, RecoveryAgent, Finished

\* recovery_agent clears the failure and counts the replan before it explores.
LEMMA ExploringInv_Step == IInv /\ TypeOK' /\ [Next]_vars => ExploringInv'
  <1>. SUFFICES ASSUME IInv, TypeOK' PROVE [Next]_vars => ExploringInv'
    OBVIOUS
  <1>. USE DEF IInv, ControlInv, TypeOK, ExploringInv, PreparerInv,
          ExploringNodes, LoopGuards
  <1>. USE DEF Nodes, CancelChecked, Terminal, vars, signalVars, reasonVars,
          planVars, sqlVars, hypVars, contextVars, recoveryVars
  <1>1. CASE CancelledAtEntry
    BY <1>1 DEF CancelledAtEntry, RouteAfter, RouteAfterReadinessGate,
            RouteAfterSqlGenerator, RouteAfterSqlValidator,
            RouteAfterRecoveryAgent, RouteAfterExecution
  <1>2. CASE ReasoningPreparer \/ ContextRetriever \/ ContextInterpreter
    BY <1>2, RetrieverFacts DEF ReasoningPreparer, ContextRetriever,
            ContextInterpreter, Runs
  <1>3. CASE ReadinessGate
    BY <1>3 DEF ReadinessGate, Runs, RouteAfterReadinessGate, GatePhase
  <1>4. CASE SqlGenerator
    BY <1>4 DEF SqlGenerator, Runs, RouteAfterSqlGenerator
  <1>5. CASE ValidatorWithoutSql \/ ValidatorRejectsByRule
            \/ ValidatorRunsSql \/ SemanticCheck
    BY <1>5 DEF ValidatorWithoutSql, ValidatorRejectsByRule, ValidatorRunsSql,
            SemanticCheck, Runs, ValidatorUnchanged, RouteAfterSqlValidator,
            LocalFailure, Failure, ValidationPassed
  <1>6. CASE RecoveryAsksUser \/ RecoveryGivesUp \/ RecoveryReplans
    BY <1>6, EntryGuardFacts DEF RecoveryAsksUser, RecoveryGivesUp,
            RecoveryReplans, Runs, RecoveryEntry, RecoveryUnchanged, GiveUp,
            RouteAfterRecoveryAgent, EntryFailure
  <1>7. CASE ClarificationHandler \/ ResultFinalizer \/ SqlExecutor
            \/ HandleError \/ NodeRaises
    BY <1>7 DEF ClarificationHandler, ResultFinalizer, SqlExecutor,
            HandleError, NodeRaises, Runs, RouteAfterResultFinalizer,
            RouteAfterExecution
  <1>8. CASE Answer \/ Abandon \/ Cancel \/ UNCHANGED vars
    BY <1>8 DEF Answer, Abandon, Cancel
  <1>. QED BY <1>1, <1>2, <1>3, <1>4, <1>5, <1>6, <1>7, <1>8 DEF Next,
              GraphStep, RecoveryAgent, Finished

\* sql_executor is reached from result_finalizer only, with validated SQL
\* (ValidatedInv) and an unchanged status (StatusInv).
LEMMA ExecutedSqlIsValidated_Step ==
    IInv /\ TypeOK' /\ [Next]_vars => ExecutedSqlIsValidated'
  <1>. SUFFICES ASSUME IInv, TypeOK'
                PROVE  [Next]_vars => ExecutedSqlIsValidated'
    OBVIOUS
  <1>. USE DEF IInv, ControlInv, TypeOK, ExecutedSqlIsValidated, StatusInv,
          ValidatedInv
  <1>. USE DEF Nodes, CancelChecked, Terminal, vars, signalVars, reasonVars,
          planVars, sqlVars, hypVars, contextVars, recoveryVars
  <1>1. CASE CancelledAtEntry
    BY <1>1 DEF CancelledAtEntry, RouteAfter, RouteAfterReadinessGate,
            RouteAfterSqlGenerator, RouteAfterSqlValidator,
            RouteAfterRecoveryAgent, RouteAfterExecution
  <1>2. CASE ReasoningPreparer \/ ContextRetriever \/ ContextInterpreter
    BY <1>2 DEF ReasoningPreparer, ContextRetriever, ContextInterpreter, Runs
  <1>3. CASE ReadinessGate
    BY <1>3 DEF ReadinessGate, Runs, RouteAfterReadinessGate, GatePhase
  <1>4. CASE SqlGenerator
    BY <1>4 DEF SqlGenerator, Runs, RouteAfterSqlGenerator
  <1>5. CASE ValidatorWithoutSql \/ ValidatorRejectsByRule
            \/ ValidatorRunsSql \/ SemanticCheck
    BY <1>5 DEF ValidatorWithoutSql, ValidatorRejectsByRule, ValidatorRunsSql,
            SemanticCheck, Runs, ValidatorUnchanged, RouteAfterSqlValidator,
            LocalFailure, Failure, ValidationPassed
  <1>6. CASE RecoveryAsksUser \/ RecoveryGivesUp \/ RecoveryReplans
    BY <1>6 DEF RecoveryAsksUser, RecoveryGivesUp, RecoveryReplans, Runs,
            RecoveryEntry, RecoveryUnchanged, GiveUp, RouteAfterRecoveryAgent
  <1>7. CASE ClarificationHandler \/ ResultFinalizer \/ SqlExecutor
            \/ HandleError \/ NodeRaises
    BY <1>7 DEF ClarificationHandler, ResultFinalizer, SqlExecutor,
            HandleError, NodeRaises, Runs, RouteAfterResultFinalizer,
            RouteAfterExecution
  <1>8. CASE Answer \/ Abandon \/ Cancel \/ UNCHANGED vars
    BY <1>8 DEF Answer, Abandon, Cancel
  <1>. QED BY <1>1, <1>2, <1>3, <1>4, <1>5, <1>6, <1>7, <1>8 DEF Next,
              GraphStep, RecoveryAgent, Finished

\* The gate generates only with the target it has just resolved; every other
\* way into sql_generator keeps it, or is a forced generation.
LEMMA TargetFollowsSelection_Step ==
    IInv /\ TypeOK' /\ [Next]_vars => TargetFollowsSelection'
  <1>. SUFFICES ASSUME IInv, TypeOK'
                PROVE  [Next]_vars => TargetFollowsSelection'
    OBVIOUS
  <1>. USE DEF IInv, ControlInv, TypeOK, TargetFollowsSelection, ValidatedInv,
          GenerationNodes
  <1>. USE DEF Nodes, CancelChecked, Terminal, vars, signalVars, reasonVars,
          planVars, sqlVars, hypVars, contextVars, recoveryVars
  <1>1. CASE CancelledAtEntry
    BY <1>1 DEF CancelledAtEntry, RouteAfter, RouteAfterReadinessGate,
            RouteAfterSqlGenerator, RouteAfterSqlValidator,
            RouteAfterRecoveryAgent, RouteAfterExecution
  <1>2. CASE ReasoningPreparer \/ ContextRetriever \/ ContextInterpreter
    BY <1>2 DEF ReasoningPreparer, ContextRetriever, ContextInterpreter, Runs
  <1>3. CASE ReadinessGate
    BY <1>3 DEF ReadinessGate, Runs, RouteAfterReadinessGate, GatePhase,
            Verdict
  <1>4. CASE SqlGenerator
    BY <1>4 DEF SqlGenerator, Runs, RouteAfterSqlGenerator
  <1>5. CASE ValidatorWithoutSql \/ ValidatorRejectsByRule
            \/ ValidatorRunsSql \/ SemanticCheck
    BY <1>5 DEF ValidatorWithoutSql, ValidatorRejectsByRule, ValidatorRunsSql,
            SemanticCheck, Runs, ValidatorUnchanged, RouteAfterSqlValidator,
            LocalFailure, Failure, ValidationPassed
  <1>6. CASE RecoveryAsksUser \/ RecoveryGivesUp \/ RecoveryReplans
    BY <1>6 DEF RecoveryAsksUser, RecoveryGivesUp, RecoveryReplans, Runs,
            RecoveryEntry, RecoveryUnchanged, GiveUp, RouteAfterRecoveryAgent
  <1>7. CASE ClarificationHandler \/ ResultFinalizer \/ SqlExecutor
            \/ HandleError \/ NodeRaises
    BY <1>7 DEF ClarificationHandler, ResultFinalizer, SqlExecutor,
            HandleError, NodeRaises, Runs, RouteAfterResultFinalizer,
            RouteAfterExecution
  <1>8. CASE Answer \/ Abandon \/ Cancel \/ UNCHANGED vars
    BY <1>8 DEF Answer, Abandon, Cancel
  <1>. QED BY <1>1, <1>2, <1>3, <1>4, <1>5, <1>6, <1>7, <1>8 DEF Next,
              GraphStep, RecoveryAgent, Finished

\* recovery_agent plans only if should_terminate is false of the counters it
\* writes; the gate never explores (LeftoverInv).
LEMMA ExplorationWithinBudget_Step ==
    IInv /\ TypeOK' /\ [Next]_vars => ExplorationWithinBudget'
  <1>. SUFFICES ASSUME IInv, TypeOK'
                PROVE  [Next]_vars => ExplorationWithinBudget'
    OBVIOUS
  <1>. USE DEF IInv, ControlInv, TypeOK, ExplorationWithinBudget, PreparerInv,
          LeftoverInv, ExploringNodes, LoopGuards
  <1>. USE DEF Nodes, CancelChecked, Terminal, vars, signalVars, reasonVars,
          planVars, sqlVars, hypVars, contextVars, recoveryVars
  <1>1. CASE CancelledAtEntry
    BY <1>1 DEF CancelledAtEntry, RouteAfter, RouteAfterReadinessGate,
            RouteAfterSqlGenerator, RouteAfterSqlValidator,
            RouteAfterRecoveryAgent, RouteAfterExecution
  <1>2. CASE ReasoningPreparer
    BY <1>2, RetrieverFacts DEF ReasoningPreparer, Runs, FreshGuard
  <1>3. CASE ContextRetriever
    BY <1>3, RetrieverFacts DEF ContextRetriever, Runs, FreshGuard
  <1>4. CASE ContextInterpreter
    BY <1>4, RetrieverFacts DEF ContextInterpreter, Runs, FreshGuard
  <1>5. CASE ReadinessGate
    BY <1>5 DEF ReadinessGate, Runs, RouteAfterReadinessGate, GatePhase,
            Verdict, ShouldTerminate
  <1>6. CASE SqlGenerator
    BY <1>6 DEF SqlGenerator, Runs, RouteAfterSqlGenerator
  <1>7. CASE ValidatorWithoutSql \/ ValidatorRejectsByRule
            \/ ValidatorRunsSql \/ SemanticCheck
    BY <1>7 DEF ValidatorWithoutSql, ValidatorRejectsByRule, ValidatorRunsSql,
            SemanticCheck, Runs, ValidatorUnchanged, RouteAfterSqlValidator,
            LocalFailure, Failure, ValidationPassed
  <1>8. CASE RecoveryAsksUser \/ RecoveryGivesUp \/ RecoveryReplans
    BY <1>8, EntryGuardFacts DEF RecoveryAsksUser, RecoveryGivesUp,
            RecoveryReplans, Runs, RecoveryEntry, RecoveryUnchanged, GiveUp,
            RouteAfterRecoveryAgent, ShouldTerminate
  <1>9. CASE ClarificationHandler \/ ResultFinalizer \/ SqlExecutor
            \/ HandleError \/ NodeRaises
    BY <1>9 DEF ClarificationHandler, ResultFinalizer, SqlExecutor,
            HandleError, NodeRaises, Runs, RouteAfterResultFinalizer,
            RouteAfterExecution
  <1>10. CASE Answer \/ Abandon \/ Cancel \/ UNCHANGED vars
    BY <1>10 DEF Answer, Abandon, Cancel
  <1>. QED BY <1>1, <1>2, <1>3, <1>4, <1>5, <1>6, <1>7, <1>8, <1>9,
              <1>10 DEF Next, GraphStep, RecoveryAgent, Finished

\* The validator sends SQL back only below the limit; the other entries of
\* sql_generator carry no local failure (ExploringInv).
LEMMA LocalFixWithinBudget_Step ==
    IInv /\ TypeOK' /\ [Next]_vars => LocalFixWithinBudget'
  <1>. SUFFICES ASSUME IInv, TypeOK' PROVE [Next]_vars => LocalFixWithinBudget'
    OBVIOUS
  <1>. USE DEF IInv, ControlInv, TypeOK, LocalFixWithinBudget, ExploringInv,
          ExploringNodes, LocalFixable, LoopGuards, ShouldEscalateToStructural
  <1>. USE DEF Nodes, CancelChecked, Terminal, vars, signalVars, reasonVars,
          planVars, sqlVars, hypVars, contextVars, recoveryVars
  <1>1. CASE CancelledAtEntry
    BY <1>1 DEF CancelledAtEntry, RouteAfter, RouteAfterReadinessGate,
            RouteAfterSqlGenerator, RouteAfterSqlValidator,
            RouteAfterRecoveryAgent, RouteAfterExecution
  <1>2. CASE ReasoningPreparer \/ ContextRetriever \/ ContextInterpreter
    BY <1>2 DEF ReasoningPreparer, ContextRetriever, ContextInterpreter, Runs
  <1>3. CASE ReadinessGate
    BY <1>3 DEF ReadinessGate, Runs, RouteAfterReadinessGate, GatePhase
  <1>4. CASE SqlGenerator
    BY <1>4 DEF SqlGenerator, Runs, RouteAfterSqlGenerator
  <1>5. CASE ValidatorWithoutSql \/ ValidatorRejectsByRule
            \/ ValidatorRunsSql \/ SemanticCheck
    BY <1>5 DEF ValidatorWithoutSql, ValidatorRejectsByRule, ValidatorRunsSql,
            SemanticCheck, Runs, ValidatorUnchanged, RouteAfterSqlValidator,
            LocalFailure, Failure, ValidationPassed
  <1>6. CASE RecoveryAsksUser \/ RecoveryGivesUp \/ RecoveryReplans
    BY <1>6 DEF RecoveryAsksUser, RecoveryGivesUp, RecoveryReplans, Runs,
            RecoveryEntry, RecoveryUnchanged, GiveUp, RouteAfterRecoveryAgent,
            EntryFailure
  <1>7. CASE ClarificationHandler \/ ResultFinalizer \/ SqlExecutor
            \/ HandleError \/ NodeRaises
    BY <1>7 DEF ClarificationHandler, ResultFinalizer, SqlExecutor,
            HandleError, NodeRaises, Runs, RouteAfterResultFinalizer,
            RouteAfterExecution
  <1>8. CASE Answer \/ Abandon \/ Cancel \/ UNCHANGED vars
    BY <1>8 DEF Answer, Abandon, Cancel
  <1>. QED BY <1>1, <1>2, <1>3, <1>4, <1>5, <1>6, <1>7, <1>8 DEF Next,
              GraphStep, RecoveryAgent, Finished

\* A turn fails in recovery_agent or result_finalizer, before any SQL was
\* validated (ValidatedInv) and with no open question (SignalInv).
LEMMA FailureIsFinal_Step == IInv /\ TypeOK' /\ [Next]_vars => FailureIsFinal'
  <1>. SUFFICES ASSUME IInv, TypeOK' PROVE [Next]_vars => FailureIsFinal'
    OBVIOUS
  <1>. USE DEF IInv, ControlInv, TypeOK, FailureIsFinal, SignalInv,
          ValidatedInv
  <1>. USE DEF Nodes, CancelChecked, Terminal, vars, signalVars, reasonVars,
          planVars, sqlVars, hypVars, contextVars, recoveryVars
  <1>1. CASE CancelledAtEntry
    BY <1>1 DEF CancelledAtEntry, RouteAfter, RouteAfterReadinessGate,
            RouteAfterSqlGenerator, RouteAfterSqlValidator,
            RouteAfterRecoveryAgent, RouteAfterExecution
  <1>2. CASE ReasoningPreparer \/ ContextRetriever \/ ContextInterpreter
    BY <1>2 DEF ReasoningPreparer, ContextRetriever, ContextInterpreter, Runs
  <1>3. CASE ReadinessGate
    BY <1>3 DEF ReadinessGate, Runs, RouteAfterReadinessGate, GatePhase
  <1>4. CASE SqlGenerator
    BY <1>4 DEF SqlGenerator, Runs, RouteAfterSqlGenerator
  <1>5. CASE ValidatorWithoutSql \/ ValidatorRejectsByRule
            \/ ValidatorRunsSql \/ SemanticCheck
    BY <1>5 DEF ValidatorWithoutSql, ValidatorRejectsByRule, ValidatorRunsSql,
            SemanticCheck, Runs, ValidatorUnchanged, RouteAfterSqlValidator,
            LocalFailure, Failure, ValidationPassed
  <1>6. CASE RecoveryAsksUser \/ RecoveryGivesUp \/ RecoveryReplans
    BY <1>6 DEF RecoveryAsksUser, RecoveryGivesUp, RecoveryReplans, Runs,
            RecoveryEntry, RecoveryUnchanged, GiveUp, RouteAfterRecoveryAgent
  <1>7. CASE ClarificationHandler \/ ResultFinalizer \/ SqlExecutor
            \/ HandleError \/ NodeRaises
    BY <1>7 DEF ClarificationHandler, ResultFinalizer, SqlExecutor,
            HandleError, NodeRaises, Runs, RouteAfterResultFinalizer,
            RouteAfterExecution
  <1>8. CASE Answer \/ Abandon \/ Cancel \/ UNCHANGED vars
    BY <1>8 DEF Answer, Abandon, Cancel
  <1>. QED BY <1>1, <1>2, <1>3, <1>4, <1>5, <1>6, <1>7, <1>8 DEF Next,
              GraphStep, RecoveryAgent, Finished

\* At the limit should_terminate holds, so the gate can only force.
LEMMA GenerateLimitNeedsForce_Step ==
    IInv /\ TypeOK' /\ [Next]_vars => GenerateLimitNeedsForce'
  <1>. SUFFICES ASSUME IInv, TypeOK'
                PROVE  [Next]_vars => GenerateLimitNeedsForce'
    OBVIOUS
  <1>. USE DEF IInv, ControlInv, TypeOK, GenerateLimitNeedsForce,
          GenerateLimitReached
  <1>. USE DEF Nodes, CancelChecked, Terminal, vars, signalVars, reasonVars,
          planVars, sqlVars, hypVars, contextVars, recoveryVars
  <1>1. CASE CancelledAtEntry
    BY <1>1 DEF CancelledAtEntry, RouteAfter, RouteAfterReadinessGate,
            RouteAfterSqlGenerator, RouteAfterSqlValidator,
            RouteAfterRecoveryAgent, RouteAfterExecution
  <1>2. CASE ReasoningPreparer \/ ContextRetriever \/ ContextInterpreter
    BY <1>2 DEF ReasoningPreparer, ContextRetriever, ContextInterpreter, Runs
  <1>3. CASE ReadinessGate
    BY <1>3 DEF ReadinessGate, Runs, RouteAfterReadinessGate, GatePhase,
            Verdict, ShouldTerminate
  <1>4. CASE SqlGenerator
    BY <1>4 DEF SqlGenerator, Runs, RouteAfterSqlGenerator
  <1>5. CASE ValidatorWithoutSql \/ ValidatorRejectsByRule
            \/ ValidatorRunsSql \/ SemanticCheck
    BY <1>5 DEF ValidatorWithoutSql, ValidatorRejectsByRule, ValidatorRunsSql,
            SemanticCheck, Runs, ValidatorUnchanged, RouteAfterSqlValidator,
            LocalFailure, Failure, ValidationPassed
  <1>6. CASE RecoveryAsksUser \/ RecoveryGivesUp \/ RecoveryReplans
    BY <1>6 DEF RecoveryAsksUser, RecoveryGivesUp, RecoveryReplans, Runs,
            RecoveryEntry, RecoveryUnchanged, GiveUp, RouteAfterRecoveryAgent
  <1>7. CASE ClarificationHandler \/ ResultFinalizer \/ SqlExecutor
            \/ HandleError \/ NodeRaises
    BY <1>7 DEF ClarificationHandler, ResultFinalizer, SqlExecutor,
            HandleError, NodeRaises, Runs, RouteAfterResultFinalizer,
            RouteAfterExecution
  <1>8. CASE Answer \/ Abandon \/ Cancel \/ UNCHANGED vars
    BY <1>8 DEF Answer, Abandon, Cancel
  <1>. QED BY <1>1, <1>2, <1>3, <1>4, <1>5, <1>6, <1>7, <1>8 DEF Next,
              GraphStep, RecoveryAgent, Finished

\* The first failure of a REGENERATE turn reaches recovery_agent from the
\* validator; the gate runs only after a replan (ExploringInv).
LEMMA RegenerateRecoversAfterLocalFixes_Step ==
    IInv /\ TypeOK' /\ [Next]_vars => RegenerateRecoversAfterLocalFixes'
  <1>. SUFFICES ASSUME IInv, TypeOK'
                PROVE  [Next]_vars => RegenerateRecoversAfterLocalFixes'
    OBVIOUS
  <1>. USE DEF IInv, ControlInv, TypeOK, RegenerateRecoversAfterLocalFixes,
          ExploringInv, ExploringNodes, LocalFixable, LoopGuards,
          ShouldEscalateToStructural
  <1>. USE DEF Nodes, CancelChecked, Terminal, vars, signalVars, reasonVars,
          planVars, sqlVars, hypVars, contextVars, recoveryVars
  <1>1. CASE CancelledAtEntry
    BY <1>1 DEF CancelledAtEntry, RouteAfter, RouteAfterReadinessGate,
            RouteAfterSqlGenerator, RouteAfterSqlValidator,
            RouteAfterRecoveryAgent, RouteAfterExecution
  <1>2. CASE ReasoningPreparer \/ ContextRetriever \/ ContextInterpreter
    BY <1>2 DEF ReasoningPreparer, ContextRetriever, ContextInterpreter, Runs
  <1>3. CASE ReadinessGate
    BY <1>3 DEF ReadinessGate, Runs, RouteAfterReadinessGate, GatePhase
  <1>4. CASE SqlGenerator
    BY <1>4 DEF SqlGenerator, Runs, RouteAfterSqlGenerator
  <1>5. CASE ValidatorWithoutSql \/ ValidatorRejectsByRule
            \/ ValidatorRunsSql \/ SemanticCheck
    BY <1>5 DEF ValidatorWithoutSql, ValidatorRejectsByRule, ValidatorRunsSql,
            SemanticCheck, Runs, ValidatorUnchanged, RouteAfterSqlValidator,
            LocalFailure, Failure, ValidationPassed
  <1>6. CASE RecoveryAsksUser \/ RecoveryGivesUp \/ RecoveryReplans
    BY <1>6 DEF RecoveryAsksUser, RecoveryGivesUp, RecoveryReplans, Runs,
            RecoveryEntry, RecoveryUnchanged, GiveUp, RouteAfterRecoveryAgent
  <1>7. CASE ClarificationHandler \/ ResultFinalizer \/ SqlExecutor
            \/ HandleError \/ NodeRaises
    BY <1>7 DEF ClarificationHandler, ResultFinalizer, SqlExecutor,
            HandleError, NodeRaises, Runs, RouteAfterResultFinalizer,
            RouteAfterExecution
  <1>8. CASE Answer \/ Abandon \/ Cancel \/ UNCHANGED vars
    BY <1>8 DEF Answer, Abandon, Cancel
  <1>. QED BY <1>1, <1>2, <1>3, <1>4, <1>5, <1>6, <1>7, <1>8 DEF Next,
              GraphStep, RecoveryAgent, Finished

-----------------------------------------------------------------------------
(* Theorems                                                                 *)

\* Both entries into the reason layer satisfy the inductive invariant.
LEMMA InitInv == Init => IInv
  <1>. SUFFICES ASSUME Init PROVE IInv
    OBVIOUS
  <1>1. TypeOK
    BY InitType
  <1>2. ControlInv
    BY DEF Init, FreshEntry, RegenerateEntry, FreshGuard, ControlInv,
           StatusInv, SignalInv, LayerThreeInv, ValidatedInv, PreparerInv,
           LeftoverInv, ExploringInv, ExploringNodes
  <1>3. TargetFollowsSelection
    BY DEF Init, FreshEntry, RegenerateEntry, TargetFollowsSelection,
           GenerationNodes
  <1>4. GenerateLimitNeedsForce
    BY DEF Init, FreshGuard, GenerateLimitNeedsForce, GenerateLimitReached
  <1>5. /\ ExecutedSqlIsValidated /\ ExplorationWithinBudget
        /\ LocalFixWithinBudget /\ FailureIsFinal
        /\ RegenerateRecoversAfterLocalFixes
    BY DEF Init, FreshEntry, RegenerateEntry, ExecutedSqlIsValidated,
           ExplorationWithinBudget, ExploringNodes, LocalFixWithinBudget,
           LocalFixable, FailureIsFinal, RegenerateRecoversAfterLocalFixes
  <1>. QED BY <1>1, <1>2, <1>3, <1>4, <1>5 DEF IInv

\* Every step preserves it.
LEMMA NextInv == IInv /\ [Next]_vars => IInv'
  <1>. SUFFICES ASSUME IInv, [Next]_vars PROVE IInv'
    OBVIOUS
  <1>1. TypeOK'
    BY NextType DEF IInv
  <1>. QED
    BY <1>1, StatusInv_Step, SignalInv_Step, LayerThreeInv_Step,
       ValidatedInv_Step, PreparerInv_Step, LeftoverInv_Step,
       ExploringInv_Step, ExecutedSqlIsValidated_Step,
       TargetFollowsSelection_Step, ExplorationWithinBudget_Step,
       LocalFixWithinBudget_Step, FailureIsFinal_Step,
       GenerateLimitNeedsForce_Step, RegenerateRecoversAfterLocalFixes_Step
    DEF IInv, ControlInv

\* IInv is an invariant of the reason layer.
THEOREM Invariance == Spec => []IInv
  BY InitInv, NextInv, PTL DEF Spec

\* Every field keeps its type, and no counter of LoopGuard passes its limit.
THEOREM TypeCorrect == Spec => []TypeOK
  <1>1. IInv => TypeOK
    BY DEF IInv
  <1>. QED BY <1>1, Invariance, PTL

\* result_finalizer lets only SQL run that sql_validator passed, on the database
\* it was checked on.
THEOREM OnlyValidatedSqlRuns == Spec => []ExecutedSqlIsValidated
  <1>1. IInv => ExecutedSqlIsValidated
    BY DEF IInv
  <1>. QED BY <1>1, Invariance, PTL

\* Unforced SQL is generated for, checked on and run on the one system that
\* the selected tables decide.
THEOREM GenerationFollowsSelection == Spec => []TargetFollowsSelection
  <1>1. IInv => TargetFollowsSelection
    BY DEF IInv
  <1>. QED BY <1>1, Invariance, PTL

\* Exploration starts only with tool calls and replans to spare.
THEOREM ExplorationHasBudget == Spec => []ExplorationWithinBudget
  <1>1. IInv => ExplorationWithinBudget
    BY DEF IInv
  <1>. QED BY <1>1, Invariance, PTL

\* No step of a plan is left behind that the tool budget had room for.
THEOREM LeftoversNeedToolLimit == Spec => []LeftoverOnlyAtToolLimit
  <1>1. IInv => LeftoverOnlyAtToolLimit
    BY DEF IInv, ControlInv, LeftoverInv, LeftoverOnlyAtToolLimit
  <1>. QED BY <1>1, Invariance, PTL

\* The local fixes are never overdrawn.
THEOREM LocalFixesHaveBudget == Spec => []LocalFixWithinBudget
  <1>1. IInv => LocalFixWithinBudget
    BY DEF IInv
  <1>. QED BY <1>1, Invariance, PTL

\* MAX_GENERATES is passed only by a forced generation.
THEOREM GenerationsHaveBudget == Spec => []GenerateLimitNeedsForce
  <1>1. IInv => GenerateLimitNeedsForce
    BY DEF IInv
  <1>. QED BY <1>1, Invariance, PTL

\* The bookkeeping of the loop: statuses, questions, validated SQL, leftovers.
THEOREM ControlHolds == Spec => []ControlInv
  <1>1. IInv => ControlInv
    BY DEF IInv
  <1>. QED BY <1>1, Invariance, PTL

\* A turn that was given up never turns into a success.
THEOREM FailureStays == Spec => []FailureIsFinal
  <1>1. IInv => FailureIsFinal
    BY DEF IInv
  <1>. QED BY <1>1, Invariance, PTL

\* A REGENERATE turn uses its local fixes before it explores anew.
THEOREM RegenerateFixesFirst == Spec => []RegenerateRecoversAfterLocalFixes
  <1>1. IInv => RegenerateRecoversAfterLocalFixes
    BY DEF IInv
  <1>. QED BY <1>1, Invariance, PTL

\* With a store that never misses its flag, a cancelled turn holds the flag, has
\* no open question and is never at a node without with_cancel_check that works.
CancelInv ==
    status = "CANCELLED" =>
        /\ cancelFlag /\ ~pendingSignal
        /\ node \in CancelChecked \cup {"result_finalizer", "error_end", "end"}

\* The wrapper skips every node that could leave this set or lower the flag.
LEMMA CancelInv_Step ==
    ASSUME CancelStoreMayFail = FALSE
    PROVE  IInv /\ CancelInv /\ [Next]_vars => CancelInv'
  <1>. SUFFICES ASSUME IInv, CancelInv PROVE [Next]_vars => CancelInv'
    OBVIOUS
  <1>. USE DEF IInv, ControlInv, TypeOK, CancelInv, SignalInv, StatusInv
  <1>. USE DEF Nodes, CancelChecked, Terminal, vars, signalVars, reasonVars,
          planVars, sqlVars, hypVars, contextVars, recoveryVars
  <1>1. CASE CancelledAtEntry
    BY <1>1 DEF CancelledAtEntry, RouteAfter, RouteAfterReadinessGate,
            RouteAfterSqlGenerator, RouteAfterSqlValidator,
            RouteAfterRecoveryAgent, RouteAfterExecution
  <1>2. CASE ReasoningPreparer \/ ContextRetriever \/ ContextInterpreter
    BY <1>2 DEF ReasoningPreparer, ContextRetriever, ContextInterpreter, Runs
  <1>3. CASE ReadinessGate
    BY <1>3 DEF ReadinessGate, Runs, RouteAfterReadinessGate, GatePhase
  <1>4. CASE SqlGenerator
    BY <1>4 DEF SqlGenerator, Runs, RouteAfterSqlGenerator
  <1>5. CASE ValidatorWithoutSql \/ ValidatorRejectsByRule
            \/ ValidatorRunsSql \/ SemanticCheck
    BY <1>5 DEF ValidatorWithoutSql, ValidatorRejectsByRule, ValidatorRunsSql,
            SemanticCheck, Runs, ValidatorUnchanged, RouteAfterSqlValidator,
            LocalFailure, Failure, ValidationPassed
  <1>6. CASE RecoveryAsksUser \/ RecoveryGivesUp \/ RecoveryReplans
    BY <1>6 DEF RecoveryAsksUser, RecoveryGivesUp, RecoveryReplans, Runs,
            RecoveryEntry, RecoveryUnchanged, GiveUp, RouteAfterRecoveryAgent
  <1>7. CASE ClarificationHandler \/ ResultFinalizer \/ SqlExecutor
            \/ HandleError \/ NodeRaises
    BY <1>7 DEF ClarificationHandler, ResultFinalizer, SqlExecutor,
            HandleError, NodeRaises, Runs, RouteAfterResultFinalizer,
            RouteAfterExecution
  <1>8. CASE Answer \/ Abandon \/ Cancel \/ UNCHANGED vars
    BY <1>8 DEF Answer, Abandon, Cancel
  <1>. QED BY <1>1, <1>2, <1>3, <1>4, <1>5, <1>6, <1>7, <1>8 DEF Next,
              GraphStep, RecoveryAgent, Finished

\* After a node has seen the flag of a reliable store nothing is generated,
\* explored, validated or counted any more.
THEOREM CancelStopsWork ==
    ASSUME CancelStoreMayFail = FALSE
    PROVE  Spec => NoWorkAfterCancel
  <1>1. Init => CancelInv
    BY DEF Init, CancelInv
  <1>2. IInv /\ CancelInv /\ [Next]_vars
          => [status = "CANCELLED" =>
                /\ status' = "CANCELLED"
                /\ UNCHANGED <<loopGuard, sqlVars, contextVars, hypVars,
                               answered>>]_vars
    <2>. SUFFICES ASSUME IInv, CancelInv, [Next]_vars, status = "CANCELLED"
                  PROVE  \/ UNCHANGED vars
                         \/ /\ status' = "CANCELLED"
                            /\ UNCHANGED <<loopGuard, sqlVars, contextVars,
                                           hypVars, answered>>
      OBVIOUS
    <2>1. cancelFlag /\ node \notin {"reasoning_preparer", "layer2b",
                          "clarification_handler", "awaiting_answer"}
      BY DEF CancelInv, CancelChecked
    <2>2. \A n \in Nodes : ~Runs(n)
      BY <2>1 DEF Runs
    <2>. QED
      BY <2>1, <2>2 DEF Next, GraphStep, RecoveryAgent, CancelledAtEntry,
         ReasoningPreparer, ContextRetriever, ContextInterpreter,
         ReadinessGate, SqlGenerator, ValidatorWithoutSql,
         ValidatorRejectsByRule, ValidatorRunsSql, SemanticCheck,
         RecoveryAsksUser, RecoveryGivesUp, RecoveryReplans, RecoveryEntry,
         NodeRaises, ClarificationHandler, ResultFinalizer, SqlExecutor,
         HandleError, Answer, Abandon, Cancel, Finished, Nodes,
         CancelChecked, signalVars, reasonVars, planVars, sqlVars, hypVars,
         contextVars
  <1>. QED BY <1>1, <1>2, Invariance, CancelInv_Step, PTL
           DEF Spec, NoWorkAfterCancel

-----------------------------------------------------------------------------
(* The contract of the layer                                                *)

\* An open question leads to clarification_handler or out of the turn: never
\* back to a node whose edge would ask it a second time.
QuestionInv ==
    pendingSignal => node \in {"clarification_handler", "awaiting_answer",
                               "abandoned", "result_finalizer", "error_end",
                               "end"}

LEMMA QuestionInv_Step == IInv /\ QuestionInv /\ [Next]_vars => QuestionInv'
  <1>. SUFFICES ASSUME IInv, QuestionInv, [Next]_vars PROVE QuestionInv'
    OBVIOUS
  <1>. USE DEF QuestionInv, vars, signalVars, reasonVars
  <1>1. CASE CancelledAtEntry
    BY <1>1 DEF CancelledAtEntry, CancelChecked
  <1>2. CASE ReasoningPreparer \/ ContextRetriever \/ ContextInterpreter
            \/ ReadinessGate \/ SqlGenerator
    BY <1>2 DEF ReasoningPreparer, ContextRetriever, ContextInterpreter,
            ReadinessGate, SqlGenerator, Runs
  <1>3. CASE ValidatorWithoutSql \/ ValidatorRejectsByRule
            \/ ValidatorRunsSql \/ SemanticCheck
    BY <1>3 DEF ValidatorWithoutSql, ValidatorRejectsByRule,
            ValidatorRunsSql, SemanticCheck, Runs, ValidatorUnchanged
  <1>4. CASE RecoveryAsksUser
    BY <1>4 DEF RecoveryAsksUser, RouteAfterRecoveryAgent
  <1>5. CASE RecoveryGivesUp \/ RecoveryReplans
    BY <1>5 DEF RecoveryGivesUp, RecoveryReplans, RecoveryEntry, Runs,
            GiveUp, RouteAfterRecoveryAgent
  <1>6. CASE ClarificationHandler \/ ResultFinalizer \/ SqlExecutor
            \/ HandleError \/ NodeRaises
    BY <1>6 DEF ClarificationHandler, ResultFinalizer, SqlExecutor,
            HandleError, NodeRaises, Runs, RouteAfterResultFinalizer,
            IInv, ControlInv, SignalInv
  <1>7. CASE Answer \/ Abandon \/ Cancel \/ UNCHANGED vars
    BY <1>7 DEF Answer, Abandon, Cancel
  <1>. QED BY <1>1, <1>2, <1>3, <1>4, <1>5, <1>6, <1>7
       DEF Next, GraphStep, RecoveryAgent, Finished

-----------------------------------------------------------------------------
(* The steps of the contract, action by action                              *)

Unseen == UNCHANGED <<Stage, loopGuard.asks, Passed, Presented>>

\* The body of a node between entry and decision shows nothing outside.
LEMMA LoopSteps ==
    ASSUME IInv, QuestionInv,
           \/ ReasoningPreparer \/ ContextRetriever \/ ContextInterpreter
           \/ ReadinessGate \/ SqlGenerator \/ ValidatorWithoutSql
           \/ ValidatorRejectsByRule
    PROVE  Unseen
  <1>. USE DEF Unseen, Stage, Passed, Presented, IInv, TypeOK, LoopGuards,
            sqlVars, signalVars
  <1>1. CASE ReasoningPreparer \/ ContextRetriever \/ ContextInterpreter
    BY <1>1 DEF ReasoningPreparer, ContextRetriever, ContextInterpreter, Runs
  <1>2. CASE ReadinessGate
    BY <1>2 DEF ReadinessGate, Runs, RouteAfterReadinessGate, QuestionInv
  <1>3. CASE SqlGenerator
    BY <1>3 DEF SqlGenerator, Runs, RouteAfterSqlGenerator, QuestionInv
  <1>4. CASE ValidatorWithoutSql \/ ValidatorRejectsByRule
    BY <1>4 DEF ValidatorWithoutSql, ValidatorRejectsByRule, Runs,
            ValidatorUnchanged, RouteAfterSqlValidator, LocalFailure
  <1>. QED BY <1>1, <1>2, <1>3, <1>4

\* sql_validator passes a query, or it shows nothing.
LEMMA ValidatorSteps ==
    ASSUME IInv, TypeOK', ValidatorRunsSql \/ SemanticCheck
    PROVE  Contract!Pass \/ Unseen
  <1>. USE DEF Unseen, Stage, Passed, Presented, IInv, TypeOK, LoopGuards
  <1>0. /\ validatedSql = NoSql /\ node \in {"sql_validator", "layer2b"}
        /\ node' \in {"layer2b", "result_finalizer", "recovery_agent",
                      "sql_generator"}
        /\ loopGuard'.asks = loopGuard.asks
    BY DEF ControlInv, ValidatedInv, ValidatorRunsSql, SemanticCheck, Runs,
           RouteAfterSqlValidator, LocalFailure, Failure, ValidationPassed
  <1>1. CASE validatedSql' = NoSql
    BY <1>0, <1>1
  <1>2. CASE validatedSql' # NoSql
    <2>1. /\ validatedSql' = generatedSql /\ generatedSql \in Sqls
          /\ checkedDb' \in Systems
      BY <1>0, <1>2 DEF ValidatorRunsSql, SemanticCheck, ValidationPassed,
         LocalFailure, Failure, ControlInv, LayerThreeInv
    <2>. QED BY <1>0, <1>2, <2>1, SqlAssumption DEF Contract!Pass
  <1>. QED BY <1>1, <1>2

\* recovery_agent asks within the limit, or it shows nothing.
LEMMA RecoverySteps ==
    ASSUME IInv, QuestionInv,
           RecoveryAsksUser \/ RecoveryGivesUp \/ RecoveryReplans
    PROVE  Contract!Ask \/ Unseen
  <1>. USE DEF Unseen, Stage, Passed, Presented, IInv, TypeOK, LoopGuards,
            sqlVars, RecoveryEntry, RecoveryUnchanged, Runs
  <1>0. /\ validatedSql = NoSql /\ validatedSql' = NoSql
        /\ node = "recovery_agent" /\ pendingSignal = FALSE
    BY DEF ControlInv, ValidatedInv, QuestionInv, RecoveryAsksUser,
           RecoveryGivesUp, RecoveryReplans
  <1>1. CASE RecoveryAsksUser
    <2>1. /\ loopGuard.asks < MaxAskUserRounds
          /\ loopGuard'.asks = loopGuard.asks + 1
          /\ node' \in {"clarification_handler", "result_finalizer"}
      BY <1>1 DEF RecoveryAsksUser, MayAsk, EntryGuard,
              RouteAfterRecoveryAgent
    <2>. QED BY <1>0, <2>1 DEF Contract!Ask
  <1>2. CASE RecoveryGivesUp \/ RecoveryReplans
    <2>1. loopGuard'.asks = loopGuard.asks
      BY <1>2 DEF RecoveryGivesUp, RecoveryReplans, EntryGuard
    <2>2. node' \in {"result_finalizer", "context_retriever", "sql_generator"}
      BY <1>0, <1>2 DEF RecoveryGivesUp, RecoveryReplans, GiveUp,
              RouteAfterRecoveryAgent
    <2>. QED BY <1>0, <2>1, <2>2
  <1>. QED BY <1>1, <1>2

\* The ends of the turn, the question and its answer.
LEMMA EndSteps ==
    ASSUME IInv, IInv', QuestionInv,
           \/ CancelledAtEntry \/ NodeRaises \/ ClarificationHandler
           \/ ResultFinalizer \/ SqlExecutor \/ HandleError \/ Answer
           \/ Abandon \/ Cancel
    PROVE  \/ Contract!Present \/ Contract!Stop \/ Contract!Answer
           \/ Contract!Abandon \/ Unseen
  <1>. USE DEF Unseen, Stage, Passed, Presented, IInv, TypeOK, LoopGuards,
            sqlVars, reasonVars, signalVars
  <1>1. CASE CancelledAtEntry
    <2>1. /\ node' \notin {"clarification_handler", "awaiting_answer",
                           "present", "end", "aborted", "abandoned"}
          /\ node \notin {"clarification_handler", "awaiting_answer",
                           "present", "end", "aborted", "abandoned"}
      BY <1>1 DEF CancelledAtEntry, CancelChecked, RouteAfter, QuestionInv,
         RouteAfterReadinessGate, RouteAfterSqlGenerator,
         RouteAfterSqlValidator, RouteAfterRecoveryAgent, RouteAfterExecution
    <2>. QED BY <1>1, <2>1 DEF CancelledAtEntry
  <1>2. CASE NodeRaises
    <2>1. node \in {"recovery_agent", "sql_generator", "sql_validator",
                    "sql_executor"}
      BY <1>2 DEF NodeRaises, Runs
    <2>. QED BY <1>2, <2>1 DEF NodeRaises, Contract!Stop
  <1>3. CASE ClarificationHandler
    BY <1>3 DEF ClarificationHandler
  <1>4. CASE ResultFinalizer
    BY <1>4 DEF ResultFinalizer, RouteAfterResultFinalizer
  <1>5. CASE SqlExecutor
    <2>1. /\ validatedSql # NoSql /\ checkedDb = QueryDb(targetDb)
          /\ node = "sql_executor" /\ node' \in {"error_end", "present"}
          /\ UNCHANGED <<validatedSql, checkedDb, targetDb, loopGuard>>
      BY <1>5 DEF SqlExecutor, Runs, ExecutedSqlIsValidated,
              RouteAfterExecution, planVars
    <2>2. QueryDb(targetDb)' = QueryDb(targetDb)
      BY <2>1 DEF QueryDb
    <2>. QED BY <2>1, <2>2, SqlAssumption DEF Contract!Present
  <1>6. CASE HandleError
    BY <1>6 DEF HandleError, Contract!Stop
  <1>7. CASE Answer
    BY <1>7 DEF Answer, Contract!Answer
  <1>8. CASE Abandon
    BY <1>8 DEF Abandon, Contract!Abandon
  <1>9. CASE Cancel
    BY <1>9 DEF Cancel, planVars, QueryDb
  <1>. QED BY <1>1, <1>2, <1>3, <1>4, <1>5, <1>6, <1>7, <1>8, <1>9

-----------------------------------------------------------------------------

LEMMA ContractInit == Init => Contract!Init
  BY SqlAssumption DEF Init, FreshEntry, RegenerateEntry, FreshGuard,
     Contract!Init, Stage, Passed, Presented

LEMMA ContractStep ==
    IInv /\ IInv' /\ QuestionInv /\ [Next]_vars
        => [Contract!Next]_Contract!vars
  <1>. SUFFICES ASSUME IInv, IInv', QuestionInv, [Next]_vars
                PROVE  Contract!Next \/ Unseen
    BY DEF Unseen, Contract!vars
  <1>1. CASE UNCHANGED vars
    BY <1>1 DEF Unseen, Stage, Passed, Presented, QueryDb, vars, reasonVars,
            planVars, sqlVars
  <1>2. CASE Finished
    BY <1>1, <1>2 DEF Finished
  <1>3. TypeOK'
    BY DEF IInv
  <1>. QED
    BY <1>1, <1>2, <1>3, LoopSteps, ValidatorSteps, RecoverySteps, EndSteps
    DEF Next, GraphStep, RecoveryAgent, Contract!Next

\* One turn of the reason layer, seen from outside, is a behaviour of the
\* contract: bounded questions, one query, and only its result is presented.
THEOREM ImplementsContract == Spec => ContractKept
  <1>1. Init => QuestionInv
    BY DEF Init, QuestionInv
  <1>. QED
    BY <1>1, ContractInit, ContractStep, QuestionInv_Step, Invariance, PTL
    DEF Spec, ContractKept, Contract!Spec
=============================================================================
