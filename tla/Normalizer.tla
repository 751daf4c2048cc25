----------------------------- MODULE Normalizer -----------------------------
(***************************************************************************)
(* How query_normalizer_node makes the eight slots of a question: the      *)
(* rewriting of a question that asks for an analysis, one or two calls of  *)
(* the LLM, the check of every enumerated value after each of them         *)
(* (_validate_structure), the repair of the whole (_postprocess) and what  *)
(* becomes of the ambiguities.  Interpret has the node within its layer    *)
(* and takes any result; here the result is computed.                      *)
(*                                                                         *)
(* An answer of the LLM is a record of the slots in which the code reads   *)
(* or repairs something.  A value is valid, valid but for its case, wrong  *)
(* or missing ("").                                                        *)
(***************************************************************************)
EXTENDS Naturals, Sequences

CONSTANTS
    LlmAnswers,     \* what the LLM may answer
    Texts,          \* what may stand in a slot, the enumerated values among it
    Phase2Enabled,  \* settings.normalization_phase2_enabled
    Stopwords       \* _POST_STOPWORDS

VARIABLES
    pc,      \* "rewrite", "phase1", "phase2", "post", "signals" or "done"
    text,    \* what is normalized: "typed" or "rewritten"
    kept,    \* analysis_query: what is kept for the analyzer
    data,    \* the dictionary that goes from phase to phase
    given,   \* the answer that data comes from (history)
    result   \* the update of the node

vars == <<pc, text, kept, data, given, result>>

Intents   == {"EXTRACT", "AGGREGATE", "RANK"}
AggFuncs  == {"SUM", "COUNT", "NONE", "UNKNOWN"}
DimRoles  == {"GROUP", "DISPLAY"}
ModTypes  == {"RANK", "SORT"}
SortDirs  == {"ASC", "DESC"}
Decisions == {"ASK", "INFER"}

\* What the LLM may write of an ambiguity: a decision, or anything that AmbiguitySignal
\* refuses (another decision, an unknown type or confidence, a question that is no text).
Writable == Decisions \cup {"refused"}

NoData == [primary |-> ""]
Nothing == [query |-> "none", pending |-> {}, resolved |-> {}, steps |-> <<>>]

\* The slots of NormalizedQuery, of which the order of the modifiers does not matter
\* here; `broken' is a slot that is null, which the checks cannot read, or of a shape
\* that the model refuses.
Slots ==
    [primary : Texts, secondary : SUBSET Texts, aggs : Seq(Texts),
     roles : SUBSET Texts, mods : SUBSET [type : Texts, dir : Texts, by : Texts],
     columns : SUBSET Texts, keywords : BOOLEAN, words : SUBSET Texts,
     ambiguities : SUBSET (Writable \cup {"SUM"}), broken : {"", "null", "shape"}]

\* "SUM" marks the ambiguity that the repair adds, whatever the LLM wrote of its own.
NormalizerAssumption ==
    /\ Phase2Enabled \in BOOLEAN
    /\ Intents \cup AggFuncs \cup DimRoles \cup ModTypes \cup SortDirs \subseteq Texts
    /\ {"", "measure"} \subseteq Texts
    /\ \A a \in LlmAnswers : a \in Slots /\ a.ambiguities \subseteq Writable

TypeOK ==
    /\ pc \in {"rewrite", "phase1", "phase2", "post", "signals", "done"}
    /\ text \in {"typed", "rewritten"} /\ kept \in {"", "typed"}
    /\ data = NoData \/ data \in Slots
    /\ given = NoData \/ given \in LlmAnswers
    /\ result.query \in {"none", "default", "made", "raised"}
    /\ result.pending \cup result.resolved \subseteq Decisions \cup {"SUM"}

Init ==
    /\ pc = "rewrite" /\ text = "typed" /\ kept = ""
    /\ data = NoData /\ given = NoData /\ result = Nothing

-----------------------------------------------------------------------------
(* The checks of enumerated values                                          *)

UpperOf == [aggregate |-> "AGGREGATE", sum |-> "SUM", none |-> "NONE",
            group |-> "GROUP", rank |-> "RANK", asc |-> "ASC"]
Upper(v) == IF v \in DOMAIN UpperOf THEN UpperOf[v] ELSE v

\* _validate_enum: the value in upper case, or "".
Enum(v, valid) == IF Upper(v) \in valid THEN Upper(v) ELSE ""

\* Every slot but the intent asks whether there is such a value and keeps the
\* one the LLM wrote.
Kept(v, valid, default) == IF Enum(v, valid) = "" THEN default ELSE v

ValidIntent(d) ==
    [d EXCEPT !.primary = IF Enum(@, Intents) = "" THEN "EXTRACT" ELSE Enum(@, Intents),
              !.secondary = {Enum(s, Intents) : s \in @} \ {""}]

ValidMeasures(d) ==
    [d EXCEPT !.aggs = [i \in DOMAIN @ |-> Kept(@[i], AggFuncs, "UNKNOWN")]]

ValidDimensions(d) == [d EXCEPT !.roles = {Kept(r, DimRoles, "DISPLAY") : r \in @}]

\* A modifier of an unknown type is taken out, an unknown direction is DESC.
ValidModifiers(d) ==
    LET known(m) == Enum(m.type, ModTypes) # ""
        directed(m) == IF m.dir = "" THEN m ELSE [m EXCEPT !.dir = Kept(@, SortDirs, "DESC")]
    IN  [d EXCEPT !.mods = {directed(m) : m \in {n \in @ : known(n)}}]

ValidStructure(d) == ValidModifiers(ValidDimensions(ValidMeasures(ValidIntent(d))))

-----------------------------------------------------------------------------
(* The repair of the whole                                                  *)

IntentsOf(d) == {d.primary} \cup d.secondary

Aggregates(d) == "GROUP" \in d.roles \/ "AGGREGATE" \in IntentsOf(d)

PostAggregateFix_Silent(d) ==
    IF ~Aggregates(d) THEN d
    ELSE [d EXCEPT !.aggs = [i \in DOMAIN @ |-> IF @[i] = "NONE" THEN "SUM" ELSE @[i]]]

\* A query that aggregates sums up a measure whose function is NONE, and says so in
\* an ambiguity that carries no decision.
PostAggregateFix(d) ==
    IF ~Aggregates(d) \/ ~\E i \in DOMAIN d.aggs : d.aggs[i] = "NONE" THEN d
    ELSE [d EXCEPT !.aggs = [i \in DOMAIN @ |-> IF @[i] = "NONE" THEN "SUM" ELSE @[i]],
                   !.ambiguities = @ \cup {"SUM"}]

\* A rank needs something to rank by: the first measure, if there is one.
PostRankFix(d) ==
    [d EXCEPT !.mods = {IF m.type = "RANK" /\ m.by = "" /\ d.aggs # <<>>
                        THEN [m EXCEPT !.by = "measure"] ELSE m : m \in @}]

\* The expected columns are searched for too; without search_keywords they are
\* put into a dictionary that nothing refers to.
PostOutputHintMerge(d) ==
    IF d.keywords THEN [d EXCEPT !.words = @ \cup d.columns] ELSE d

PostOptimizeKeywords(d) == [d EXCEPT !.words = @ \ (Stopwords \cup {""})]

\* The query for similar SQL is built last, and makes search_keywords if needed.
PostBuildSqlHistorySearch(d) == [d EXCEPT !.keywords = TRUE]

Postprocess(d) ==
    PostBuildSqlHistorySearch(PostOptimizeKeywords(PostOutputHintMerge(
        PostRankFix(PostAggregateFix(d)))))

-----------------------------------------------------------------------------
(* The node                                                                 *)

\* Any exception of run_normalization: the default query, nothing of what a
\* phase found; the rewriting stays.
Fail ==
    /\ result' = [Nothing EXCEPT !.query = "default"]
    /\ data' = NoData /\ given' = NoData /\ pc' = "done"

\* _rewrite_for_analysis: what the user typed is kept; an LLM that fails or
\* answers nothing leaves it to be normalized.
Rewrite ==
    /\ pc = "rewrite" /\ pc' = "phase1"
    /\ \/ kept' = "typed" /\ text' \in {"typed", "rewritten"}
       \/ UNCHANGED <<kept, text>>
    /\ UNCHANGED <<data, given, result>>

\* An LLM call and the check of its answer.
Phase(answer, next) ==
    \/ Fail
    \/ /\ answer.broken # "null"
       /\ data' = ValidStructure(answer) /\ given' = answer
       /\ result' = [result EXCEPT !.steps = Append(@, next)]
       /\ pc' = next

Phase1 ==
    /\ pc = "phase1"
    /\ \E a \in LlmAnswers : Phase(a, IF Phase2Enabled THEN "phase2" ELSE "post")
    /\ UNCHANGED <<text, kept>>

\* The second phase answers with a dictionary of its own.
Phase2 ==
    /\ pc = "phase2"
    /\ \E a \in LlmAnswers : Phase(a, "post")
    /\ UNCHANGED <<text, kept>>

\* _postprocess and NormalizedQuery.model_validate.
Finish ==
    /\ pc = "post"
    /\ IF data.broken = "shape" THEN Fail
       ELSE /\ data' = Postprocess(data) /\ pc' = "signals"
            /\ UNCHANGED <<given, result>>
    /\ UNCHANGED <<text, kept>>

\* T3: an ambiguity is asked if the LLM says so, inferred otherwise; then a step
\* of the trace for every phase, the last of which names reasoning_preparer.
Signals ==
    /\ pc = "signals" /\ "refused" \notin data.ambiguities /\ pc' = "done"
    /\ result' = [query |-> "made",
                  pending |-> data.ambiguities \cap {"ASK"},
                  resolved |-> data.ambiguities \ {"ASK"},
                  steps |-> [i \in DOMAIN result.steps |->
                                IF i = Len(result.steps) THEN "reasoning_preparer"
                                ELSE result.steps[i]]]
    /\ UNCHANGED <<text, kept, data, given>>

\* The signals are made outside the try: one that is refused ends the node, and neither
\* the query nor a step of the trace leaves it.
SignalRefused ==
    /\ pc = "signals" /\ "refused" \in data.ambiguities /\ pc' = "done"
    /\ result' = [Nothing EXCEPT !.query = "raised"]
    /\ UNCHANGED <<text, kept, data, given>>

Done == pc = "done" /\ UNCHANGED vars

Next == Rewrite \/ Phase1 \/ Phase2 \/ Finish \/ Signals \/ SignalRefused \/ Done

Spec == Init /\ [][Next]_vars

-----------------------------------------------------------------------------
(* Properties                                                               *)

\* What the code chose in place of the user is told: a measure that is summed up
\* though the LLM gave no function goes with an inference the user can correct, and
\* there is no such inference without one.
SumsAreTold ==
    LET chosen == {i \in DOMAIN data.aggs : data.aggs[i] = "SUM" /\ given.aggs[i] = "NONE"}
    IN  (chosen # {}) <=> "SUM" \in result.resolved

\* A query that aggregates has no measure whose function is NONE, in the letters
\* of AggFuncs: a none in other letters passes the check and the repair as it is.
NoneIsSummed == Aggregates(data) => \A i \in DOMAIN data.aggs : data.aggs[i] # "NONE"

\* Columns the user wants to see are searched for by their names, unless the LLM
\* left out the search keywords.
ColumnsAreSearched ==
    given.keywords => data.columns \ (Stopwords \cup {""}) \subseteq data.words

\* A rank of something is by something.
RanksHaveMeasure ==
    \A m \in data.mods : m.type = "RANK" /\ data.aggs # <<>> => m.by # ""

\* What is made keeps these, and the question to the user if the LLM has one.
PromisesKept ==
    /\ SumsAreTold /\ NoneIsSummed /\ ColumnsAreSearched /\ RanksHaveMeasure
    /\ "ASK" \in given.ambiguities <=> "ASK" \in result.pending

\* A normalized query keeps its promises to the user and to the search, whatever
\* the two phases answered, and a failed one keeps nothing by halves.  The node
\* raises because of what the LLM wrote, never because of what the repair added.
NormalizedQueryHolds ==
    pc = "done" =>
        \/ result.query = "made" /\ PromisesKept
        \/ result = [Nothing EXCEPT !.query = "default"]
        \/ /\ result = [Nothing EXCEPT !.query = "raised"]
           /\ "refused" \in given.ambiguities

=============================================================================
