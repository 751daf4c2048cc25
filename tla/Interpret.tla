----------------------------- MODULE Interpret -----------------------------
(***************************************************************************)
(* The interpretation of one turn: intent_classifier, then                 *)
(* continue_orchestrator, query_normalizer or simple_responder, with the   *)
(* questions that clarification_handler puts to the user, until the graph  *)
(* enters another layer.  pipeline.py has the edges.                       *)
(*                                                                         *)
(* What the language model answers is any answer the parsers accept.  The  *)
(* snapshots the turn can refer to are TurnSnapshots; the questions of the *)
(* reason layer are in ReasoningLoop.                                      *)
(***************************************************************************)
EXTENDS Naturals

CONSTANTS
    ClarificationMaxTurns,  \* settings.clarification_max_turns
    NormalizationEnabled,   \* settings.normalization_enabled
    AmbiguityTypes          \* some of the types of AmbiguitySignal

Priority == [INTENT |-> 1, FORMULA |-> 1, TABLE |-> 2, VALUE |-> 2,
             TIMEFRAME |-> 3, CONTEXT |-> 4, CONFLICT |-> 4]

InterpretAssumption ==
    /\ ClarificationMaxTurns \in Nat \ {0}
    /\ NormalizationEnabled \in BOOLEAN
    /\ AmbiguityTypes \subseteq DOMAIN Priority

VARIABLES
    pc,         \* the node that runs next, or where the turn has left to
    status,     \* state.status
    intent,     \* state.intent
    text,       \* what preprocessed_input holds
    analysis,   \* what analysis_query holds
    query,      \* what normalized_query holds
    reference,  \* the last snapshot: "none", "bare" or "equipped"
    pending,    \* state.pending_signals
    resolved,   \* state.resolved_signals of the turn, as a set
    last,       \* the last of them
    asks,       \* how many of them were asked, counted as far as matters
    cancel      \* the cancel store holds a flag of this turn

vars == <<pc, status, intent, text, analysis, query, reference, pending,
          resolved, last, asks, cancel>>

Sources == {"intent_classifier", "query_normalizer"}
Signal == [source : Sources, type : AmbiguityTypes \cup {"INTENT", "CONTEXT"},
           decision : {"ASK", "INFER"}]
NoSignal == [source |-> "none"]

Exits == {"reasoning_preparer", "sql_generator", "visualizer", "analyzer",
          "simple_responder", "error_end", "raised", "abandoned"}
Nodes == {"intent_classifier", "continue_orchestrator", "query_normalizer",
          "clarification_handler", "asked"}

FieldsOK ==
    /\ pc \in Nodes \cup Exits
    /\ status \in {"PENDING", "CLASSIFIED", "ORCHESTRATE", "NORMALIZED",
                   "ERROR", "CANCELLED"}
    /\ intent \in {"unknown", "extraction", "analysis", "other"}
    /\ text \in {"typed", "merged", "extraction"}
    /\ analysis \in {"", "typed", "merged", "extraction"}
    /\ query \in {"none", "default", "made", "restored"}
    /\ reference \in {"none", "bare", "equipped"}

SignalsOK ==
    /\ pending \subseteq Signal /\ resolved \subseteq Signal
    /\ last \in resolved \cup {NoSignal}

CountsOK == asks \in 0..ClarificationMaxTurns + 1 /\ cancel \in BOOLEAN

TypeOK == FieldsOK /\ SignalsOK /\ CountsOK

\* turn_reset has cleared the fields of the turn.
Init ==
    /\ pc = "intent_classifier" /\ status = "PENDING" /\ intent = "unknown"
    /\ text = "typed" /\ analysis = "" /\ query = "none"
    /\ reference \in {"none", "bare", "equipped"}
    /\ pending = {} /\ resolved = {} /\ last = NoSignal /\ asks = 0
    /\ cancel = FALSE

-----------------------------------------------------------------------------
(* Edges                                                                    *)

RouteAfterIntent(signals, stat, int) ==
    IF signals # {} THEN "clarification_handler"
    ELSE IF stat \in {"CANCELLED", "ERROR"} THEN "error_end"
    ELSE IF stat = "ORCHESTRATE" THEN "continue_orchestrator"
    ELSE IF int = "other" THEN "simple_responder"
    ELSE IF NormalizationEnabled THEN "query_normalizer"
    ELSE "reasoning_preparer"

RouteAfterNormalize(signals, stat) ==
    IF stat = "CANCELLED" THEN "error_end"
    ELSE IF signals # {} THEN "clarification_handler"
    ELSE "reasoning_preparer"

RouteAfterClarify_First(signals, signal) ==
    IF \E s \in signals : s.source = "intent_classifier"
    THEN "intent_classifier" ELSE signal.source

\* _route_after_clarify: to the source of the last signal of the turn.
RouteAfterClarify(signals, signal) == signal.source

\* with_cancel_check: the node is left out.
SkipCancelled ==
    /\ pc \in {"intent_classifier", "query_normalizer"} /\ cancel
    /\ status' = "CANCELLED"
    /\ pc' = IF pc = "intent_classifier"
             THEN RouteAfterIntent(pending, status', intent)
             ELSE RouteAfterNormalize(pending, status')
    /\ UNCHANGED <<intent, text, analysis, query, reference, pending, resolved,
                   last, asks, cancel>>

Runs(node) == pc = node /\ ~cancel

Infer_Overwrites(signals) ==
    /\ resolved' = signals
    /\ IF signals = {} THEN UNCHANGED last ELSE last' \in signals

\* Signals that a node resolves without asking.
Infer(signals) ==
    /\ resolved' = resolved \cup signals
    /\ IF signals = {} THEN UNCHANGED last ELSE last' \in signals

-----------------------------------------------------------------------------
(* intent_classifier_node                                                   *)

ClassifyFails ==
    /\ Runs("intent_classifier")
    /\ status' = "ERROR" /\ pc' = RouteAfterIntent(pending, "ERROR", intent)
    /\ UNCHANGED <<intent, text, analysis, query, reference, pending, resolved,
                   last, asks, cancel>>

MayAsk == asks < ClarificationMaxTurns

\* UNSURE or AMBIGUOUS: one question.
ClassifyAsks ==
    /\ Runs("intent_classifier") /\ MayAsk
    /\ \E type \in AmbiguityTypes :
          pending' = {[source |-> "intent_classifier", type |-> type,
                       decision |-> "ASK"]}
    /\ intent' \in {"unknown", "extraction", "analysis", "other"}
    /\ status' = "CLASSIFIED" /\ pc' = RouteAfterIntent(pending', status', intent')
    /\ UNCHANGED <<text, analysis, query, reference, resolved, last, asks, cancel>>

\* A question that the model described in a way AmbiguitySignal refuses.
ClassifyRaises ==
    /\ Runs("intent_classifier") /\ MayAsk
    /\ pc' = "raised"
    /\ UNCHANGED <<status, intent, text, analysis, query, reference, pending,
                   resolved, last, asks, cancel>>

\* _handle_forced_progression
ClassifyForced ==
    /\ Runs("intent_classifier") /\ ~MayAsk
    /\ Infer({[source |-> "intent_classifier", type |-> "INTENT", decision |-> "INFER"]})
    /\ intent' = "extraction"
    /\ status' = "CLASSIFIED" /\ pc' = RouteAfterIntent(pending, status', intent')
    /\ UNCHANGED <<text, analysis, query, reference, pending, asks, cancel>>

ClassifyNew ==
    /\ Runs("intent_classifier")
    /\ intent' \in {"extraction", "analysis", "other"}
    /\ status' = "CLASSIFIED" /\ pc' = RouteAfterIntent(pending, status', intent')
    /\ UNCHANGED <<text, analysis, query, reference, pending, resolved, last,
                   asks, cancel>>

\* _apply_continue_updates; the model may leave the context empty.
ClassifyContinue ==
    /\ Runs("intent_classifier")
    /\ intent' \in {"extraction", "analysis", "other"}
    /\ text' \in {text, "merged"}
    /\ Infer({[source |-> "intent_classifier", type |-> "CONTEXT", decision |-> "INFER"]})
    /\ status' = IF reference = "none" THEN "CLASSIFIED" ELSE "ORCHESTRATE"
    /\ pc' = RouteAfterIntent(pending, status', intent')
    /\ UNCHANGED <<analysis, query, reference, pending, asks, cancel>>

-----------------------------------------------------------------------------
(* continue_orchestrator_node, which is not wrapped                         *)

\* No usable answer of the model, or no rows to show.
OrchestrateFails ==
    /\ pc = "continue_orchestrator"
    /\ status' = "ERROR" /\ pc' = "error_end"
    /\ UNCHANGED <<intent, text, analysis, query, reference, pending, resolved,
                   last, asks, cancel>>

Downgrades_Never == FALSE

\* REGENERATE becomes REFINE.
Downgrades == reference = "bare"

\* _build_hydration_updates restores the query for every route but REFINE.
RestoredQuery == IF reference = "equipped" THEN "restored" ELSE query

Orchestrate ==
    /\ pc = "continue_orchestrator"
    /\ \/ pc' = "visualizer" /\ query' = RestoredQuery
          /\ intent' \in {"extraction", "analysis"}
       \/ pc' = "analyzer" /\ query' = RestoredQuery /\ intent' = "analysis"
       \/ pc' = "sql_generator" /\ ~Downgrades /\ query' = RestoredQuery
          /\ intent' \in {"extraction", "analysis"}
       \/ pc' = "query_normalizer" /\ UNCHANGED query
          /\ intent' \in {"extraction", "analysis"}
    /\ status' = "CLASSIFIED"
    /\ UNCHANGED <<text, analysis, reference, pending, resolved, last, asks, cancel>>

-----------------------------------------------------------------------------
(* query_normalizer_node                                                    *)

\* _rewrite_for_analysis; the rewriting may fail.
Rewrite ==
    IF intent = "analysis"
    THEN analysis' = text /\ text' \in {text, "extraction"}
    ELSE UNCHANGED <<analysis, text>>

NormalizeFails ==
    /\ Runs("query_normalizer") /\ Rewrite
    /\ query' = "default" /\ status' = "NORMALIZED"
    /\ pc' = RouteAfterNormalize(pending, status')
    /\ UNCHANGED <<intent, reference, pending, resolved, last, asks, cancel>>

\* A signal that the model described in a way AmbiguitySignal refuses.
NormalizeRaises ==
    /\ Runs("query_normalizer")
    /\ pc' = "raised"
    /\ UNCHANGED <<status, intent, text, analysis, query, reference, pending,
                   resolved, last, asks, cancel>>

SignalsOf(types, decision) ==
    {[source |-> "query_normalizer", type |-> t, decision |-> decision] : t \in types}

\* Ambiguities to ask about are pending; the others are resolved here.
Normalize ==
    /\ Runs("query_normalizer") /\ Rewrite
    /\ \E ask, infer \in SUBSET AmbiguityTypes :
          /\ pending' = SignalsOf(ask, "ASK")
          /\ Infer(SignalsOf(infer, "INFER"))
    /\ query' = "made" /\ status' = "NORMALIZED"
    /\ pc' = RouteAfterNormalize(pending', status')
    /\ UNCHANGED <<intent, reference, asks, cancel>>

-----------------------------------------------------------------------------
(* clarification_handler_node                                               *)

Guarded(s) == IF s.type = "FORMULA" THEN [s EXCEPT !.decision = "ASK"] ELSE s

\* The questions that no other comes before.
Best ==
    LET ask == {s \in {Guarded(p) : p \in pending} : s.decision = "ASK"}
    IN {s \in ask : \A o \in ask : Priority[s.type] <= Priority[o.type]}

\* Every node that makes a signal pending makes an ASK pending.
Ask ==
    /\ pc = "clarification_handler" /\ Best # {}
    /\ pc' = "asked"
    /\ UNCHANGED <<status, intent, text, analysis, query, reference, pending,
                   resolved, last, asks, cancel>>

\* The other questions are dropped with the one that was answered.
StillPending(best) == {}

\* The user answers; the interrupted node runs again from its start.
Answer ==
    /\ pc = "asked" /\ ~cancel
    /\ \E best \in Best :
          /\ resolved' = resolved \cup {best} /\ last' = best
          /\ pending' = StillPending(best)
    /\ asks' = IF asks > ClarificationMaxTurns THEN asks ELSE asks + 1
    /\ pc' = RouteAfterClarify(resolved', last')
    /\ UNCHANGED <<status, intent, text, analysis, query, reference, cancel>>

\* A cancelled question is not answered: the next message begins a turn.
Abandon ==
    /\ pc = "asked" /\ cancel
    /\ pc' = "abandoned" /\ pending' = {}
    /\ UNCHANGED <<status, intent, text, analysis, query, reference, resolved,
                   last, asks, cancel>>

\* POST .../cancel
Cancel ==
    /\ pc \in Nodes /\ ~cancel
    /\ cancel' = TRUE
    /\ UNCHANGED <<pc, status, intent, text, analysis, query, reference, pending,
                   resolved, last, asks>>

Step ==
    \/ SkipCancelled
    \/ ClassifyFails \/ ClassifyAsks \/ ClassifyRaises \/ ClassifyForced
    \/ ClassifyNew \/ ClassifyContinue
    \/ OrchestrateFails \/ Orchestrate
    \/ NormalizeFails \/ NormalizeRaises \/ Normalize
    \/ Ask

Left == pc \in Exits /\ UNCHANGED vars

Next == Step \/ Answer \/ Abandon \/ Cancel \/ Left

Spec == Init /\ [][Next]_vars

\* The executor runs the next node; the user owes nothing.
FairSpec == Spec /\ WF_vars(Step)

-----------------------------------------------------------------------------
(* Properties                                                               *)

\* The answer to a question goes back to the node that asked, whatever other
\* nodes of the turn have asked or inferred before.
ReturnsToAsker ==
    [][pc = "asked" /\ pc' \in Nodes \ {"asked"} =>
          \A s \in pending : pc' = s.source]_vars

\* The reason layer is entered with a normalized query, on every way into it.
ReasonHasQuery ==
    NormalizationEnabled /\ pc \in {"reasoning_preparer", "sql_generator"}
        => query # "none"

\* However often its answers are unclear, a turn ends unless query_normalizer
\* asks again and again, or a question is left without an answer.
LeavesUnlessNormalizerAsks ==
    \/ []<>(\E s \in pending : s.source = "query_normalizer")
    \/ <>(pc \in Exits)
    \/ <>[](pc = "asked")
=============================================================================
