------------------------------ MODULE Services ------------------------------
(***************************************************************************)
(* The message store and, beside it, what a process has open, the calls of *)
(* the LLM and the parts of a turn that compute what it works with and     *)
(* what it tells: the normalized question, the validated SQL and the       *)
(* accounts at its end, with variables of their own, and what they promise *)
(* together.                                                               *)
(***************************************************************************)
EXTENDS MessageStore

CONSTANTS
    LlmAnswers, Texts, Phase2Enabled, Stopwords,                           \* Normalizer
    Statements, Tables, ColumnsOf, MaxLocalFixes, MaxGenerates, PiiMasking, \* Validation
    Seen, MaxSteps, MaxStatements,                                        \* Insight
    Databases, PoolBackend, RedisBackend, Reranking, Quantize,
    MaxChanges, MaxStarts,                                                \* Connections
    Limits, MaxCompletion, MaxPieces                                      \* LlmClient

VARIABLES
    part,  \* the module that moves
    phase, text, kept, data, source, normalized,
    checking, sql, explored, setting, guard, layer3, judgment, outcome,
    way, judged, hyps, current, plan, tables, dead, written, valid, checks, summary,
    missing, asked, forced, made,
    stage, order, todo, open, offered, failed, file, died, state, lost, check, unwell,
    changes, starts,
    calling, asking, request, reply, got, accounts, node, ending

N == INSTANCE Normalizer WITH pc <- phase, given <- source, result <- normalized
V == INSTANCE Validation WITH pc <- checking
I == INSTANCE Insight WITH Tables <- Seen, pc <- way, sql <- written, failed <- missing
K == INSTANCE Connections
L == INSTANCE LlmClient WITH pc <- calling, call <- asking, answer <- reply, told <- accounts,
                            outcome <- ending

ASSUME NormalizerAssumed == N!NormalizerAssumption
ASSUME ValidationAssumed == V!ValidationAssumption
ASSUME InsightAssumed == I!InsightAssumption
ASSUME ConnectionsAssumed == K!ConnectionsAssumption
ASSUME LlmClientAssumed == L!LlmClientAssumption

normalizerVars == <<phase, text, kept, data, source, normalized>>
validationVars == <<checking, sql, explored, setting, guard, layer3, judgment, outcome>>
insightVars == <<way, judged, hyps, current, plan, tables, dead, written, valid, checks,
                 summary, missing, asked, forced, made>>
connectionVars == <<stage, order, todo, open, offered, failed, file, died, state, lost,
                    check, unwell, changes, starts>>
llmVars == <<calling, asking, request, reply, got, accounts, node, ending>>

-----------------------------------------------------------------------------
(* The properties of the modules; those of MessageStore are ReturnedRowIsOwn, *)
(* HistoryIsRead and NothingLost                                             *)

\* A normalized question keeps its promises to the user and to the search.
NormalizedQueryHolds == part = "Normalizer" => N!TypeOK /\ N!NormalizedQueryHolds

\* Only a safe query that was run passes, and the trace names the node that is next.
OnlyRunSqlPasses == part = "Validation" => V!TypeOK /\ V!OnlyRunSqlPasses /\ V!TraceNamesRoute

\* The accounts of a turn are true to what it did.
AccountsAreTrue == part = "Insight" => I!TypeOK /\ I!AccountsAreTrue

\* What a process opens it closes, its health checks do not cry wolf, and the model
\* that it finds is whole.
ConnectionsHold == part = "Connections" => K!TypeOK /\ K!ConnectionsHold

\* A call of the LLM fits the model, and its caller and the trace get the same of it.
LlmCallHolds == part = "LlmClient" => L!TypeOK /\ L!LlmCallHolds
=============================================================================
