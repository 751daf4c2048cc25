----------------------------- MODULE Retrieval -----------------------------
(***************************************************************************)
(* The two vector searches of a turn and what they return: search_manual   *)
(* (dense vectors) and search_use_cases (dense and sparse vectors, fused,  *)
(* then reranked by a cross-encoder), asked in parallel by the steps of a  *)
(* batch, each leaving out the points that earlier batches have loaded.    *)
(* Knowledge models the rest of what a turn learns and leaves open what a  *)
(* search returns.                                                         *)
(*                                                                         *)
(* Qdrant and the two models are external: a score for every query and     *)
(* point.  Each job of the executor is answered for itself, whatever else  *)
(* runs: the comment that forbids two workers is left aside.               *)
(***************************************************************************)
EXTENDS Naturals, Sequences, FiniteSets, SequencesExt

CONSTANTS
    Inputs,         \* inputs of a step; QueryOf leaves out their page=N
    QueryOf,
    Cases,          \* points of the SQL history
    Manuals,        \* points of the manuals; the Blank ones have no text
    Blank,
    Vector,         \* query -> point -> score of the vector search
    Judgments,      \* the functions that the reranker may be
    Length,         \* length of the text of a use case
    TopK, PrefetchLimit, MaxPrefetch,   \* qdrant_sql_history_top_k, ..., qdrant_max_prefetch
    ManualTopK, ManualMaxLimit,         \* qdrant_search_top_k, qdrant_manual_max_limit
    Thresholds, MinCandidates,          \* reranker_score_threshold, _min_candidates
    MaxCalls,       \* MAX_TOOL_CALLS
    MaxSearches     \* bound: searches of a turn

VARIABLES
    enabled,    \* reranker_enabled
    threshold,
    judge,      \* query -> point -> score of the cross-encoder
    phase,      \* "plan", or "running" while the steps of a batch are awaited
    steps,      \* the searches of execution_plan
    asked,      \* executed_tool_keys
    calls,      \* loop_guard.total_tool_calls
    batch,      \* number of the batch: ghost
    cases,      \* explored_use_cases, as points
    manuals     \* explored_biz_manuals, each with the batch that found it

vars == <<enabled, threshold, judge, phase, steps, asked, calls, batch, cases, manuals>>

RetrievalAssumption ==
    /\ QueryOf \in [Inputs -> DOMAIN Vector] /\ Blank \subseteq Manuals
    /\ \A judgment \in Judgments : DOMAIN judgment = DOMAIN Vector
    /\ Thresholds \subseteq Nat /\ MaxCalls \in Nat /\ MaxSearches \in Nat
    /\ TopK \in 1 .. MinCandidates /\ TopK <= PrefetchLimit /\ PrefetchLimit <= MaxPrefetch
    /\ ManualTopK \in 1 .. ManualMaxLimit

Tools == {"search_use_cases", "search_manual"}

ToSearch(tool, input) ==
    [tool |-> tool, input |-> input, status |-> "PENDING", raw |-> <<>>]

With(status) == {i \in DOMAIN steps : steps[i].status = status}

Take(seq, n) == SubSeq(seq, 1, Min({n, Len(seq)}))

\* The members of seq, those with the highest score first.
Ranked(seq, score) == SortSeq(seq, LAMBDA a, b : score[a] > score[b])

Init ==
    /\ enabled \in BOOLEAN /\ threshold \in Thresholds
    /\ judge \in Judgments
    /\ phase = "plan" /\ steps = <<>> /\ asked = {} /\ calls = 0 /\ batch = 0
    /\ cases = <<>> /\ manuals = <<>>

-----------------------------------------------------------------------------
(* The connector                                                            *)

\* What the server answers: it leaves out the points to exclude itself, so that
\* the limit it is given is raised for nothing.
Server(points, excluded, query, limit) ==
    Take(Ranked(SetToSeq(points \ excluded), Vector[query]), limit)

Limit(wanted, excluded, most) ==
    IF excluded = {} THEN wanted ELSE Min({wanted + Cardinality(excluded), most})

\* compute_scores: the documents are scored in the order of their lengths, and
\* the scores are put back.
\* Slip: the two indices are swapped on the way back.
Scores_Slip(query, docs) ==
    LET order == SortSeq([i \in DOMAIN docs |-> i],
                         LAMBDA i, j : Length[docs[i]] < Length[docs[j]])
        sorted == [k \in DOMAIN order |-> judge[query][docs[order[k]]]]
    IN [i \in DOMAIN docs |-> sorted[order[i]]]
Scores(query, docs) ==
    LET order == SortSeq([i \in DOMAIN docs |-> i],
                         LAMBDA i, j : Length[docs[i]] < Length[docs[j]])
        sorted == [k \in DOMAIN order |-> judge[query][docs[order[k]]]]
    IN [i \in DOMAIN docs |-> sorted[CHOOSE k \in DOMAIN order : order[k] = i]]

\* Candidates of a low vector score are dropped, but MinCandidates stay.
Prefiltered(query, candidates) ==
    LET high == SelectSeq(candidates, LAMBDA p : Vector[query][p] >= threshold)
    IN IF threshold = 0 THEN candidates
       ELSE IF Len(high) < MinCandidates THEN Take(candidates, MinCandidates)
       ELSE high

Reranked(query, candidates) ==
    LET docs == Prefiltered(query, candidates)
        order == Ranked([i \in DOMAIN docs |-> i], Scores(query, docs))
    IN IF enabled THEN Take([k \in DOMAIN order |-> docs[order[k]]], TopK)
       ELSE Take(Ranked(candidates, Vector[query]), TopK)

SearchSqlHistory(query, excluded) ==
    Reranked(query, Server(Cases, excluded, query,
                           Limit(PrefetchLimit, excluded, MaxPrefetch)))

SearchManual(query, excluded) ==
    Take(Server(Manuals, excluded, query,
                Limit(ManualTopK, excluded, ManualMaxLimit)), ManualTopK)

-----------------------------------------------------------------------------
(* The steps                                                                *)

\* recovery_agent, reasoning_preparer
Plan(tool, input) ==
    /\ phase = "plan" /\ Len(steps) < MaxSearches
    /\ steps' = Append(steps, ToSearch(tool, input))
    /\ UNCHANGED <<enabled, threshold, judge, phase, asked, calls, batch, cases, manuals>>

Skipped == {i \in With("PENDING") : <<steps[i].tool, steps[i].input>> \in asked}

Chosen ==
    LET open == With("PENDING") \ Skipped
    IN {i \in open : Cardinality({j \in open : j < i}) < MaxCalls - calls}

\* At MAX_TOOL_CALLS the loop guard sends the turn elsewhere.
Retrieve ==
    /\ phase = "plan" /\ With("PENDING") # {} /\ calls < MaxCalls /\ phase' = "running"
    /\ steps' = [i \in DOMAIN steps |->
                    IF i \in Chosen THEN [steps[i] EXCEPT !.status = "running"]
                    ELSE IF i \in Skipped THEN [steps[i] EXCEPT !.status = "SKIPPED"]
                    ELSE steps[i]]
    /\ calls' = calls + Cardinality(Chosen)
    /\ batch' = batch + 1
    /\ UNCHANGED <<enabled, threshold, judge, asked, cases, manuals>>

\* seen_ids: taken once for all steps of a batch.  What is known does not change
\* while they run.
Seen(tool) ==
    IF tool = "search_use_cases" THEN ToSet(cases)
    ELSE {manuals[i].point : i \in DOMAIN manuals}

Result(step) ==
    IF step.tool = "search_use_cases"
    THEN SearchSqlHistory(QueryOf[step.input], Seen(step.tool))
    ELSE SearchManual(QueryOf[step.input], Seen(step.tool))

\* _run_step: the search returns.
Answer(i) ==
    /\ phase = "running" /\ i \in With("running")
    /\ steps' = [steps EXCEPT ![i].status = "DONE", ![i].raw = Result(steps[i])]
    /\ asked' = asked \cup {<<steps[i].tool, steps[i].input>>}
    /\ UNCHANGED <<enabled, threshold, judge, phase, calls, batch, cases, manuals>>

\* _run_step: the embedding, the server or the reranker raises.
Fail(i) ==
    /\ phase = "running" /\ i \in With("running")
    /\ steps' = [steps EXCEPT ![i].status = "FAILED"]
    /\ UNCHANGED <<enabled, threshold, judge, phase, asked, calls, batch, cases, manuals>>

Returned(tool) ==
    FlattenSeq([i \in DOMAIN steps |->
                   IF steps[i].tool = tool THEN steps[i].raw ELSE <<>>])

\* context_interpreter: a use case is loaded once, a manual as often as it is
\* returned, unless it has no text.
Interpret ==
    /\ phase = "running" /\ With("running") = {} /\ phase' = "plan"
    /\ cases' = FoldLeft(LAMBDA known, p : IF p \in ToSet(known) THEN known ELSE Append(known, p),
                         cases, Returned("search_use_cases"))
    /\ LET texts == SelectSeq(Returned("search_manual"), LAMBDA p : p \notin Blank)
       IN manuals' = manuals \o [k \in DOMAIN texts |-> [point |-> texts[k], batch |-> batch]]
    /\ steps' = [i \in DOMAIN steps |-> [steps[i] EXCEPT !.raw = <<>>]]
    /\ UNCHANGED <<enabled, threshold, judge, asked, calls, batch>>

\* turn_reset at the start of the next turn.
EndTurn ==
    /\ phase = "plan"
    /\ steps' = <<>> /\ asked' = {} /\ calls' = 0 /\ batch' = 0
    /\ cases' = <<>> /\ manuals' = <<>>
    /\ UNCHANGED <<enabled, threshold, judge, phase>>

Next ==
    \/ EndTurn
    \/ \E tool \in Tools, input \in Inputs : Plan(tool, input)
    \/ Retrieve
    \/ \E i \in DOMAIN steps : Answer(i)
    \/ \E i \in DOMAIN steps : Fail(i)
    \/ Interpret

Spec == Init /\ [][Next]_vars

-----------------------------------------------------------------------------

TypeOK ==
    /\ enabled \in BOOLEAN /\ threshold \in Thresholds /\ judge \in Judgments
    /\ phase \in {"plan", "running"}
    /\ \A i \in DOMAIN steps :
          /\ steps[i].tool \in Tools /\ steps[i].input \in Inputs
          /\ steps[i].status \in {"PENDING", "running", "DONE", "FAILED", "SKIPPED"}
          /\ steps[i].raw \in Seq(Cases \cup Manuals)
    /\ asked \subseteq Tools \X Inputs
    /\ calls \in 0 .. MaxCalls /\ batch \in Nat
    /\ cases \in Seq(Cases) /\ manuals \in Seq([point : Manuals, batch : Nat])

-----------------------------------------------------------------------------
(* Properties                                                               *)

\* The points which the turn had not loaded when the batch began.
New(tool) ==
    IF tool = "search_use_cases" THEN Cases \ ToSet(cases)
    ELSE {p \in Manuals : \A i \in DOMAIN manuals : manuals[i].point # p}

\* Those of them with a place among the first n of the vector search.
Among(points, query, n) ==
    {p \in points : Cardinality({q \in points : Vector[query][q] > Vector[query][p]}) < n}

Best(query) == IF enabled THEN judge[query] ELSE Vector[query]

\* A search of the SQL history returns as many new use cases as it can, in the
\* order of the score that counts, and passes over none of the first candidates
\* which it should have preferred, unless the threshold drops it.
CasesAreBest ==
    \A i \in With("DONE") :
        LET query == QueryOf[steps[i].input]
            raw == steps[i].raw
            new == New("search_use_cases")
        IN steps[i].tool = "search_use_cases" /\ phase = "running" /\ raw # <<>> =>
              /\ ToSet(raw) \subseteq new
              /\ Len(raw) = Min({TopK, Cardinality(new)})
              /\ \A j, k \in DOMAIN raw :
                    j < k => Best(query)[raw[j]] > Best(query)[raw[k]]
              /\ \A p \in Among(new, query, PrefetchLimit) \ ToSet(raw) :
                    \/ \A k \in DOMAIN raw : Best(query)[raw[k]] > Best(query)[p]
                    \/ enabled /\ Vector[query][p] < threshold

\* A search of the manuals returns the best of those that are new.
ManualsAreBest ==
    \A i \in With("DONE") :
        LET new == New("search_manual")
        IN steps[i].tool = "search_manual" /\ phase = "running" /\ steps[i].raw # <<>> =>
              ToSet(steps[i].raw) = Among(new, QueryOf[steps[i].input], ManualTopK)

\* What a turn has loaded is not loaded again: a use case never, a manual only
\* by another search of the same batch.
RepeatsAreOfOneBatch ==
    /\ \A i, j \in DOMAIN cases : cases[i] = cases[j] => i = j
    /\ \A i, j \in DOMAIN manuals :
          manuals[i].point = manuals[j].point => manuals[i].batch = manuals[j].batch

\* A turn that asks again goes on where it stopped: its searches return the best
\* of what it has not seen, and nothing twice.  The reranker maps scores through
\* a sort by length, limits and filters apply one after the other, and the ids to
\* exclude pass through six calls.
SearchesGoOn == CasesAreBest /\ ManualsAreBest /\ RepeatsAreOfOneBatch
=============================================================================
