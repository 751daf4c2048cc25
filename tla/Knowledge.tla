------------------------------ MODULE Knowledge ------------------------------
(***************************************************************************)
(* What a turn learns while it explores: reasoning_preparer seeds the      *)
(* items to settle and the first plan, context_retriever runs the steps of *)
(* the plan in parallel, context_interpreter loads what they returned and  *)
(* lets the LLM judge it, confidence_scorer reads the result, and          *)
(* recovery_agent appends further steps.  ReasoningLoop models who runs    *)
(* when; here it is what they know.                                        *)
(*                                                                         *)
(* What the LLM answers is any answer.  Facts, evidence, confidence values *)
(* and the rows that observation tools return are left out, and so are     *)
(* code columns, which go the way of tables but are never judged.          *)
(***************************************************************************)
EXTENDS Naturals, Sequences, FiniteSets

CONSTANTS
    Tables, UseCases, Items,
    TablesOf,       \* use case -> the tables of its SQL
    Scope,          \* the item output_scope; the others are measures and filters
    Named,          \* tables whose name alone tells their schema
    Queries,        \* search texts; QueryOfTurn is the one of the first plan
    QueryOfTurn,
    MaxToolCalls,   \* MAX_TOOL_CALLS
    MaxSteps        \* bound: steps of the whole plan

VARIABLES
    phase,   \* "prepare", "retrieve", "running", "interpret" or "assess"
    plan,    \* execution_plan
    keys,    \* executed_tool_keys
    calls,   \* loop_guard.total_tool_calls
    local,   \* context_retriever's own explored_tables, while it runs
    tables,  \* explored_tables: selection_status, or "none"
    sampled, \* the explored tables with sample_rows
    cases,   \* explored_use_cases
    relevant,\* those of them marked relevant
    terms,   \* explored_biz_terms and _manuals: selection_status, in order of their ids
    items,   \* knowledge_items: status, or "none"
    found    \* the tables and use cases that steps found which are DONE: ghost

vars == <<phase, plan, keys, calls, local, tables, sampled, cases, relevant,
          terms, items, found>>
state == <<tables, sampled, cases, relevant, terms, items>>

KnowledgeAssumption ==
    /\ TablesOf \in [UseCases -> SUBSET Tables]
    /\ Scope \in Items /\ Named \subseteq Tables /\ QueryOfTurn \in Queries
    /\ MaxToolCalls \in Nat /\ MaxSteps \in Nat

Verdicts == {"PENDING", "REFERENCE", "SELECTED", "REJECTED"}
Statuses == {"UNRESOLVED", "CONFLICTED", "CANDIDATE", "PROBABLE", "CONFIRMED"}

\* What a step returned: asked, known and got belong to the enrichment of its
\* use cases, the tables it looks up, those known before and those it got.
Nothing == [tables |-> {}, cases |-> {}, terms |-> 0, sampled |-> {},
            asked |-> {}, known |-> {}, got |-> {}]

\* "running" and "enriching" are the steps whose task awaits its tool, or the
\* lookups of its enrichment.
StepStates == {"PENDING", "running", "enriching", "DONE", "FAILED", "SKIPPED"}
ToDo(tool, on, form) ==
    [tool |-> tool, on |-> on, form |-> form, status |-> "PENDING", raw |-> Nothing]
PossibleSteps ==
    {ToDo(tool, query, "bare") : tool \in {"search_use_cases", "search_table_meta", "search_biz_terms"},
                                 query \in Queries}
    \cup {ToDo("lookup_table_meta", table, "bare") : table \in Tables}
    \cup {ToDo("get_sample_rows", table, form) : table \in Tables, form \in {"bare", "full"}}

Key(step) == <<step.tool, step.on, step.form>>
TableKey(table) == Key(ToDo("lookup_table_meta", table, "bare"))

With(status) == {i \in DOMAIN plan : plan[i].status = status}
Explored == {table \in Tables : tables[table] # "none"}

Init ==
    /\ phase = "prepare" /\ plan = <<>> /\ keys = {} /\ calls = 0 /\ local = {}
    /\ tables = [table \in Tables |-> "none"] /\ sampled = {}
    /\ cases = {} /\ relevant = {} /\ terms = <<>>
    /\ items = [item \in Items |-> "none"]
    /\ found = [tables |-> {}, cases |-> {}]

-----------------------------------------------------------------------------
(* reasoning_preparer                                                       *)

Seeds(known) == [item \in Items |-> IF item \notin known THEN "none"
                                    ELSE IF item = Scope THEN "CONFLICTED" ELSE "UNRESOLVED"]

FirstPlan ==
    LET search == ToDo("search_table_meta", QueryOfTurn, "bare")
    IN <<ToDo("search_use_cases", QueryOfTurn, "bare")>>
       \o (IF Key(search) \in keys THEN <<>> ELSE <<search>>)

Prepare ==
    /\ phase = "prepare" /\ phase' = "retrieve"
    /\ \E known \in SUBSET Items : items' = Seeds(known)
    /\ plan' = FirstPlan
    /\ UNCHANGED <<keys, calls, local, tables, sampled, cases, relevant, terms, found>>

-----------------------------------------------------------------------------
(* context_retriever                                                        *)

\* _should_skip_step
Skipped(step) ==
    \/ Key(step) \in keys
    \/ step.tool = "get_sample_rows" /\ step.on \in sampled

\* _qualify_table_in_input
Qualified(step) ==
    IF step.tool = "get_sample_rows" /\ step.on \in Explored \cup Named
    THEN [step EXCEPT !.form = "full"] ELSE step

\* The steps to run: the first of those not skipped, as many as the budget leaves.
Chosen ==
    LET open == {i \in With("PENDING") : ~Skipped(plan[i])}
    IN {i \in open : Cardinality({j \in open : j < i}) < MaxToolCalls - calls}

Begun(i) ==
    IF i \in Chosen THEN [Qualified(plan[i]) EXCEPT !.status = "running"]
    ELSE IF i \in With("PENDING") /\ Skipped(plan[i]) THEN [plan[i] EXCEPT !.status = "SKIPPED"]
    ELSE plan[i]

Begin ==
    /\ phase = "retrieve" /\ phase' = "running"
    /\ local' = Explored
    /\ plan' = [i \in DOMAIN plan |-> Begun(i)]
    /\ calls' = calls + Cardinality(Chosen)
    /\ UNCHANGED <<keys, state, found>>

\* What a tool may return, without the tables that FORCED mode filters out.
\* search_use_cases leaves out the use cases that are explored.
Results(step) ==
    CASE step.tool = "search_table_meta" -> {[Nothing EXCEPT !.tables = got] : got \in SUBSET Tables}
      [] step.tool = "lookup_table_meta" -> {[Nothing EXCEPT !.tables = got] : got \in SUBSET {step.on}}
      [] step.tool = "get_sample_rows"   -> {[Nothing EXCEPT !.sampled = got] : got \in SUBSET {step.on}}
      [] step.tool = "search_biz_terms"  -> {[Nothing EXCEPT !.terms = n] : n \in 0 .. 1}
      [] step.tool = "search_use_cases"  ->
            {[Nothing EXCEPT !.cases = got] : got \in SUBSET (UseCases \ cases)}

Hinted(raw) == UNION {TablesOf[case] : case \in raw.cases}

\* _enrich_use_cases up to its lookups: they are for the tables neither known
\* nor looked up before.
Asking(raw) ==
    [raw EXCEPT !.known = local,
                !.asked = {table \in Hinted(raw) \ local : TableKey(table) \notin keys}]

Finds(raw) ==
    found' = [tables |-> found.tables \cup raw.tables, cases |-> found.cases \cup raw.cases]

\* _run_step: the tool answers.
Answer(i) ==
    /\ phase = "running" /\ plan[i].status = "running"
    /\ keys' = keys \cup {Key(plan[i])}
    /\ \E raw \in Results(plan[i]) :
         /\ local' = local \cup raw.tables
         /\ IF raw.cases # {}
            THEN plan' = [plan EXCEPT ![i].status = "enriching", ![i].raw = Asking(raw)]
                 /\ UNCHANGED found
            ELSE plan' = [plan EXCEPT ![i].status = "DONE", ![i].raw = raw] /\ Finds(raw)
    /\ UNCHANGED <<phase, calls, state>>

\* The lookups of the enrichment return, each with its table or without: the
\* keys of all are recorded.
Enrich(i) ==
    /\ phase = "running" /\ plan[i].status = "enriching"
    /\ keys' = keys \cup {TableKey(table) : table \in plan[i].raw.asked}
    /\ \E got \in SUBSET plan[i].raw.asked :
         /\ local' = local \cup got
         /\ plan' = [plan EXCEPT ![i].status = "DONE", ![i].raw.got = got]
    /\ Finds(plan[i].raw)
    /\ UNCHANGED <<phase, calls, state>>

\* The tool raises, or the handling of its result does.
Fail(i) ==
    /\ phase = "running" /\ plan[i].status \in {"running", "enriching"}
    /\ plan' = [plan EXCEPT ![i].status = "FAILED", ![i].raw = Nothing]
    /\ UNCHANGED <<phase, keys, calls, local, state, found>>

Gathered ==
    /\ phase = "running" /\ phase' = "interpret"
    /\ With("running") \cup With("enriching") = {}
    /\ local' = {}
    /\ UNCHANGED <<plan, keys, calls, state, found>>

-----------------------------------------------------------------------------
(* context_interpreter                                                      *)

\* The raw results of this round; those of earlier rounds are cleared.
Returned_Newest == {plan[i].raw : i \in With("DONE") \cap {Len(plan)}}
Returned == {plan[i].raw : i \in With("DONE")}

\* _hydrate_from_raw_results: what is new is PENDING.  Terms and manuals are
\* numbered on from those that are there; a search returns one or none.
Hydrated(of) ==
    [table \in Tables |-> IF of[table] = "none" /\ \E raw \in Returned : table \in raw.tables
                          THEN "PENDING" ELSE of[table]]
NewTerms == Cardinality({i \in With("DONE") : plan[i].raw.terms = 1})
HydratedTerms == terms \o [n \in 1 .. NewTerms |-> "PENDING"]
HydratedCases == cases \cup UNION {raw.cases : raw \in Returned}

\* The tables that enrichment attached to some use cases, in this round.
Attached(some) ==
    {table \in Tables : \E raw \in Returned : \E case \in some \cap raw.cases :
                          table \in TablesOf[case] \cap (raw.known \cup raw.got)}

\* _apply_table_judgments.  A status that is none of the four counts as PENDING;
\* a table that only enrichment has found is explored by its selection.
JudgedTables_Again(of, judge) ==
    [table \in Tables |->
        IF table \in DOMAIN judge /\ (of[table] = "none" => judge[table] = "SELECTED")
        THEN judge[table] ELSE of[table]]
JudgedTables(of, judge) ==
    [table \in Tables |->
        IF /\ table \in DOMAIN judge
           /\ of[table] \in {"PENDING", "REFERENCE", "none"}
           /\ of[table] = "none" => judge[table] = "SELECTED"
        THEN judge[table] ELSE of[table]]

\* _hydrate_enrichment, with the tables of the use cases that are selected now.
Referenced(of, selected) ==
    [table \in Tables |->
        IF of[table] = "none" /\ table \in Attached(selected) THEN "REFERENCE" ELSE of[table]]

\* _build_knowledge_update: an update for an item that nobody seeded is dropped.
Accepted(updates) == {item \in DOMAIN updates : items[item] # "none"}

\* _merge_updates_into_items: an item is promoted, or stays as it is.
Rank(status) == CASE status \in {"UNRESOLVED", "CONFLICTED"} -> 0
                  [] status = "CANDIDATE" -> 1
                  [] status = "PROBABLE"  -> 2
                  [] status = "CONFIRMED" -> 3
Merged_Plain(updates) ==
    [item \in Items |-> IF item \in Accepted(updates) THEN updates[item] ELSE items[item]]
Merged(updates) ==
    [item \in Items |->
        IF item \in Accepted(updates) /\ Rank(updates[item]) > Rank(items[item])
        THEN updates[item] ELSE items[item]]

\* The LLM judges; it is not asked when no step is DONE.  A thing it does not
\* mention, because it fails or is cancelled between two steps, is as one whose
\* status it repeats.
Judges(things, verdicts, now) ==
    IF With("DONE") = {} THEN {now} ELSE [things -> verdicts]

\* context_interpreter_node
Interpret ==
    /\ phase = "interpret" /\ phase' = "assess"
    /\ LET loaded == Hydrated(tables) IN
       \E onTables \in Judges({table \in Tables : loaded[table] # "none"} \cup Attached(UseCases),
                              Verdicts, <<>>) :
       \E selected \in Judges(HydratedCases, BOOLEAN, [case \in cases |-> case \in relevant]) :
          LET judged == JudgedTables(loaded, onTables)
              chosen == {case \in DOMAIN selected : selected[case]}
              rows   == UNION {raw.sampled : raw \in Returned}
          IN /\ sampled' = sampled \cup {table \in rows : judged[table] # "none"}
             /\ tables' = Referenced(judged, chosen)
             /\ relevant' = chosen
    /\ \E onTerms \in Judges({n \in DOMAIN HydratedTerms : HydratedTerms[n] = "PENDING"},
                             {"PENDING", "SELECTED", "REJECTED"}, <<>>) :
         terms' = [n \in DOMAIN HydratedTerms |->
                     IF n \in DOMAIN onTerms THEN onTerms[n] ELSE HydratedTerms[n]]
    /\ \E updates \in Judges(Items, Statuses, items) : items' = Merged(updates)
    /\ cases' = HydratedCases
    /\ plan' = [i \in DOMAIN plan |->
                 IF i \in With("DONE") THEN [plan[i] EXCEPT !.raw = Nothing] ELSE plan[i]]
    /\ UNCHANGED <<keys, calls, local, found>>

-----------------------------------------------------------------------------
(* confidence_scorer                                                        *)

Seeded == {item \in Items : items[item] # "none"}
Settled == {item \in Seeded : Rank(items[item]) >= 2}

AllCriticalConfirmed == Settled = Seeded

\* calculate_readiness against a threshold in hundredths: seven tenths of the
\* share of settled items, none without items, and a tenth for each relevant
\* use case up to three.  (The scores are rounded to thousandths, which matters
\* with hundreds of items only.)
Reaches(hundredths) ==
    LET n == Cardinality(Seeded)
        some == Cardinality(relevant)
        bonus == IF some > 3 THEN 30 ELSE 10 * some
    IN IF n = 0 THEN bonus >= hundredths
       ELSE 70 * Cardinality(Settled) + n * bonus >= n * hundredths

\* evaluate_readiness
Verdict ==
    CASE calls >= MaxToolCalls -> "conclude_failure"
      [] calls < MaxToolCalls /\ Reaches(65) /\ AllCriticalConfirmed ->
            IF Explored = {} THEN "replan" ELSE "generate_sql"
      [] OTHER -> IF With("PENDING") # {} THEN "explore" ELSE "replan"

\* recovery_agent appends steps; it also does so when the SQL that was
\* generated fails.
Replan ==
    /\ phase = "assess" /\ phase' = "retrieve"
    /\ Verdict \in {"replan", "generate_sql"}
    /\ \E more \in PossibleSteps :
         /\ Len(plan) < MaxSteps
         /\ \/ plan' = Append(plan, more)
            \/ \E another \in PossibleSteps :
                 Len(plan) + 1 < MaxSteps /\ plan' = plan \o <<more, another>>
    /\ UNCHANGED <<keys, calls, local, state, found>>

\* The loop is left with the SQL, an end or a question.  ("explore" is never the
\* verdict: steps that are left over mean that the budget is used up.)
Left == phase = "assess" /\ UNCHANGED vars

Next ==
    \/ Prepare \/ Begin \/ Gathered \/ Interpret \/ Replan \/ Left
    \/ \E i \in DOMAIN plan : Answer(i) \/ Enrich(i) \/ Fail(i)

Spec == Init /\ [][Next]_vars

-----------------------------------------------------------------------------
(* Properties                                                               *)

TypeOK ==
    /\ phase \in {"prepare", "retrieve", "running", "interpret", "assess"}
    /\ \A i \in DOMAIN plan : plan[i].status \in StepStates
    /\ calls \in 0 .. MaxToolCalls /\ Len(plan) <= MaxSteps
    /\ local \subseteq Tables /\ sampled \subseteq Explored
    /\ tables \in [Tables -> Verdicts \cup {"none"}]
    /\ relevant \subseteq cases /\ cases \subseteq UseCases
    /\ items \in [Items -> Statuses \cup {"none"}]
    /\ \A n \in DOMAIN terms : terms[n] \in Verdicts

\* Whatever a step found that is DONE is known when the turn decides how to go
\* on, however the steps and their enrichments overlapped.
FindingsReachState ==
    phase = "assess" => found.tables \subseteq Explored /\ found.cases \subseteq cases

\* What is learned stays learned, whatever the LLM says later: items are never
\* demoted, a verdict on a table or a term is final, and nothing is forgotten.
KnowledgeOnlyGrows ==
    [][phase = "interpret" =>
        /\ \A item \in Seeded : items'[item] # "none" /\ Rank(items'[item]) >= Rank(items[item])
        /\ \A table \in Tables : tables[table] \in {"SELECTED", "REJECTED"} => tables'[table] = tables[table]
        /\ Explored \subseteq Explored' /\ cases \subseteq cases' /\ sampled \subseteq sampled'
        /\ \A n \in DOMAIN terms : terms[n] # "PENDING" => n \in DOMAIN terms' /\ terms'[n] = terms[n]]_vars
=============================================================================
