------------------------------ MODULE Insight ------------------------------
(***************************************************************************)
(* What a turn tells about itself.  Along its way the reason layer leaves  *)
(* marks (which hypothesis a step belongs to, which step found a table,    *)
(* which SQL was judged how), and at its end insight_builder and           *)
(* process_summary_builder put two accounts together from them.            *)
(* ReasoningLoop has the control of that way; here it is the marks.        *)
(*                                                                         *)
(* A statement is its number and the tables it reads.  Manuals and terms   *)
(* are matched with their steps as tables are, by the same function.       *)
(***************************************************************************)
EXTENDS Naturals, Sequences, FiniteSets

CONSTANTS
    Tables,
    MaxSteps,      \* bound: steps of the plan
    MaxStatements  \* bound: calls of sql_generator

InsightAssumption == IsFiniteSet(Tables) /\ MaxSteps \in Nat /\ MaxStatements \in Nat

VARIABLES
    pc,      \* "explore", "gate", "generate", "validate", "recover" or "ended"
    judged,  \* settings.validate_layer2b_enabled
    hyps,    \* hypotheses: their status; the number is the one of "H1", "H2", ...
    current, \* current_hypothesis, 0 for None
    plan,    \* execution_plan
    tables,  \* explored_tables: status and the step and hypothesis that found them
    dead,    \* dead_ends: their hypothesis, 0 for "no_hypothesis"
    sql,     \* generated_sql
    valid,   \* validated_sql
    checks,  \* the statement of validation_checks, 0 for none
    summary, \* the statement of validation_summary and confidence_score
    failed,  \* there is a failure_type
    asked,   \* the user answered a question of recovery_agent in this turn
    forced,  \* is_force_generated
    made     \* calls of sql_generator so far

vars == <<pc, judged, hyps, current, plan, tables, dead, sql, valid, checks, summary,
          failed, asked, forced, made>>
marks == <<hyps, current, plan, tables, dead>>
verdicts == <<valid, checks, summary>>

Statuses == {"PENDING", "SELECTED", "REJECTED"}
Unknown == [status |-> "none", step |-> 0, hyp |-> 0]
NoSql == [n |-> 0, uses |-> {}]

Explored == {t \in Tables : tables[t] # Unknown}
Rejected == {t \in Explored : tables[t].status = "REJECTED"}

TypeOK ==
    /\ pc \in {"explore", "gate", "generate", "validate", "recover", "ended"}
    /\ hyps \in Seq({"ACTIVE", "FAILED"}) /\ current \in 0..Len(hyps)
    /\ \A t \in Explored : tables[t].status \in Statuses /\ tables[t].hyp \in 0..Len(hyps)
    /\ \A i \in DOMAIN dead : dead[i] \in 0..Len(hyps)
    /\ sql.n \in 0..made /\ valid \in {NoSql, sql}
    /\ checks \in 0..made /\ summary \in 0..made

ToDo(tool, no, hyp) == [tool |-> tool, no |-> no, hyp |-> hyp, status |-> "PENDING"]

\* A new turn has one hypothesis and a plan of one step at least; a turn that is
\* to generate anew has tables and neither of them.
Init ==
    /\ judged \in BOOLEAN
    /\ \/ /\ pc = "explore" /\ hyps = <<"ACTIVE">> /\ current = 1
          /\ plan \in {<<ToDo(tool, 1, 1)>> : tool \in {"tables", "cases"}}
          /\ tables = [t \in Tables |-> Unknown]
       \/ /\ pc = "generate" /\ hyps = <<>> /\ current = 0 /\ plan = <<>>
          /\ tables = [t \in Tables |-> [Unknown EXCEPT !.status = "SELECTED"]]
    /\ dead = <<>> /\ sql = NoSql /\ valid = NoSql /\ checks = 0 /\ summary = 0
    /\ failed = FALSE /\ asked = FALSE /\ forced = FALSE /\ made = 0

Regenerates == hyps = <<>>

-----------------------------------------------------------------------------
(* The way of the turn                                                      *)

\* A step that was run has the number and the hypothesis of the step put on what
\* it found; what the enrichment of a use case found belongs to no step.
Found(tool, step, status) ==
    IF tool = "tables" THEN [status |-> status, step |-> step.no, hyp |-> step.hyp]
    ELSE [Unknown EXCEPT !.status = status]

\* context_retriever and context_interpreter: the last step is run, fails
\* (or is skipped) or is left for want of budget; what the LLM has decided it does
\* not decide again, and a table that is a mere REFERENCE counts as PENDING.
Explore ==
    /\ pc = "explore" /\ pc' = "gate"
    /\ LET step == plan[Len(plan)]
       IN \E status \in {"DONE", "FAILED", "PENDING"} :
            /\ plan' = [plan EXCEPT ![Len(plan)].status = status]
            /\ \E found \in IF status = "DONE" THEN SUBSET Tables ELSE {{}},
                  verdict \in IF status = "DONE" THEN [Tables -> Statuses]
                              ELSE {[t \in Tables |-> "PENDING"]} :
                 tables' = [t \in Tables |->
                    IF tables[t] = Unknown
                    THEN IF t \in found THEN Found(step.tool, step, verdict[t]) ELSE Unknown
                    ELSE IF tables[t].status = "PENDING" /\ status = "DONE"
                    THEN [tables[t] EXCEPT !.status = verdict[t]]
                    ELSE tables[t]]
    /\ UNCHANGED <<judged, hyps, current, dead, sql, verdicts, failed, asked, forced, made>>

MayGenerate == IF made < MaxStatements THEN {"generate"} ELSE {}

\* readiness_gate
Gate ==
    /\ pc = "gate"
    /\ pc' \in {"recover", "ended"} \cup MayGenerate
    /\ failed' = (pc' # "generate" \/ failed)
    /\ UNCHANGED <<judged, marks, sql, verdicts, asked, forced, made>>

\* sql_generator: what the LLM writes, or nothing.
Generate ==
    /\ pc = "generate" /\ made' = made + 1
    /\ \/ /\ \E uses \in SUBSET Tables : sql' = [n |-> made + 1, uses |-> uses]
          /\ failed' = FALSE /\ pc' = "validate"
       \/ /\ sql' = NoSql /\ failed' = TRUE
          /\ pc' = IF Regenerates \/ forced THEN "ended" ELSE "recover"
    /\ UNCHANGED <<judged, marks, verdicts, asked, forced>>

Active == Explored \ Rejected

\* The checks before the judgment find something, or the trial run without it.
FailEarly == failed' = TRUE /\ UNCHANGED verdicts

\* _build_layer2b_failure: the summary is of the SQL that failed, the checks stay.
JudgeFail ==
    /\ failed' = TRUE /\ summary' = sql.n /\ UNCHANGED <<valid, checks>>

JudgePass_KeepsFirst ==
    checks' = (IF checks = 0 THEN sql.n ELSE checks) /\ summary' = sql.n

JudgePass == checks' = sql.n /\ summary' = sql.n

\* sql_validator_node: what passes reads tables in use only, if there are any; an
\* error of the database overrules the judgment.
Validate ==
    /\ pc = "validate"
    /\ \/ FailEarly
       \/ judged /\ JudgeFail
       \/ /\ Active # {} => sql.uses \subseteq Active
          /\ IF judged THEN JudgePass ELSE UNCHANGED <<checks, summary>>
          /\ \/ valid' = sql /\ failed' = FALSE
             \/ failed' = TRUE /\ judged /\ UNCHANGED valid
    /\ \/ failed' /\ made < MaxStatements /\ pc' = "generate"
       \/ pc' = IF ~failed' \/ Regenerates THEN "ended" ELSE "recover"
    /\ UNCHANGED <<judged, marks, sql, asked, forced, made>>

\* _handle_hypothesis_transition: the hypothesis fails and leaves a dead end.
\* Once the user has answered in this turn there is no transition any more.
HypsAfter == IF asked \/ current = 0 THEN hyps ELSE [hyps EXCEPT ![current] = "FAILED"]
CurrentAfter == IF asked THEN current ELSE 0
DeadAfter ==
    IF asked THEN dead
    ELSE IF current # 0 THEN Append(dead, current)
    ELSE IF failed THEN Append(dead, 0) ELSE dead

StepNumber_Restarts == 1

\* The steps of all plans are numbered on.
StepNumber == IF plan = <<>> THEN 1 ELSE plan[Len(plan)].no + 1

\* _finalize_give_up: the end, or SQL with what there is.
GiveUp ==
    /\ \/ pc' = "ended" /\ UNCHANGED forced
       \/ pc' \in MayGenerate /\ forced' = TRUE
    /\ UNCHANGED asked

\* A replanning has a hypothesis of its own; its steps are appended, unless the
\* limits of LoopGuard are reached.
Replan ==
    /\ hyps' = Append(HypsAfter, "ACTIVE") /\ current' = Len(hyps) + 1
    /\ \/ /\ Len(plan) < MaxSteps
          /\ \E tool \in {"tables", "cases"} :
               plan' = Append(plan, ToDo(tool, StepNumber, Len(hyps) + 1))
          /\ pc' = "explore" /\ UNCHANGED <<asked, forced>>
       \/ GiveUp /\ UNCHANGED plan

\* recovery_agent, from its entry to the answer of the LLM; a question to the
\* user comes back to it with the answer.
Recover ==
    /\ pc = "recover"
    /\ dead' = DeadAfter /\ failed' = (asked /\ failed)
    /\ \/ Replan
       \/ hyps' = HypsAfter /\ current' = CurrentAfter /\ UNCHANGED plan /\ GiveUp
       \/ /\ ~asked /\ asked' = TRUE /\ UNCHANGED <<pc, plan, forced>>
          /\ hyps' = HypsAfter /\ current' = CurrentAfter
    /\ UNCHANGED <<judged, tables, sql, verdicts, made>>

Ended == pc = "ended" /\ UNCHANGED vars

Next == Explore \/ Gate \/ Generate \/ Validate \/ Recover \/ Ended

Spec == Init /\ [][Next]_vars

-----------------------------------------------------------------------------
(* The accounts                                                             *)

Success == valid # NoSql
Shown == IF Success THEN valid ELSE sql

\* _build_tables_used, _candidate and _rejected.
Used == Explored \cap Shown.uses
Candidate == Explored \ (Rejected \cup Shown.uses)

\* _build_context_dict of the summary marks those not rejected as used or not.
UsedInSummary == {t \in Explored \ Rejected : t \in Shown.uses}

\* _build_journey: there is one only with hypotheses and tagged steps.
HasJourney == hyps # <<>> /\ \E i \in DOMAIN plan : plan[i].hyp # 0

\* _build_tool_calls: the calls of a hypothesis, by the places of their steps.
Calls(h) == {i \in DOMAIN plan : plan[i].hyp = h /\ plan[i].status # "PENDING"}

\* _match_explored_items: what a call shows, adopted or rejected (a table that is
\* not SELECTED is shown as rejected).
Matched(i, h) ==
    IF plan[i].tool # "tables" THEN {}
    ELSE {t \in Explored : tables[t].step = plan[i].no /\ tables[t].hyp = h}

\* _build_journey_hypothesis: the SQL stands at every hypothesis that did not
\* fail, a dead end at the one it belongs to.
WithSql == {h \in DOMAIN hyps : Shown # NoSql /\ hyps[h] # "FAILED"}
WithFailure == {h \in DOMAIN hyps : \E i \in DOMAIN dead : dead[i] = h}

\* _summarize_tables of recovery_agent looks at the number of the step alone.
ToldOfStep(i) == {t \in Explored : tables[t].step = plan[i].no}

\* _build_tool_execution_history: a step that is not done, run or not, is told as
\* one that failed.
History == [i \in DOMAIN plan |-> [done |-> plan[i].status = "DONE", found |-> ToldOfStep(i)]]

\* _serialize_dead_ends: what the LLM is told of the rounds before, with the
\* hypothesis of each if it has one.
Rounds == [i \in DOMAIN dead |-> IF dead[i] \in DOMAIN hyps THEN {dead[i]} ELSE {}]

\* _build_validation_detail: the statements that its items are about, with the
\* summary as the last one.
ValidationDetail ==
    IF checks = 0 THEN <<>> ELSE IF summary = 0 THEN <<checks>> ELSE <<checks, summary>>

\* _build_journey_validation
JourneyValidation == IF checks = 0 THEN {} ELSE {[items |-> checks, summary |-> summary]}

\* _build_caveats and _build_journey_caveats: more than one table not rejected is
\* told as a SQL that joins, a dead end as a way around it.
Caveats == [joins |-> Cardinality(Active) > 1, detours |-> Len(dead)]
JourneyCaveats == [joins |-> Cardinality(Explored \ Rejected) > 1]

-----------------------------------------------------------------------------
(* Properties                                                               *)

\* What a successful turn says of its SQL was said of this SQL: the checks, the
\* summary and the score, however many statements were judged before.  Without
\* a judgment nothing is said.
JudgmentIsOfSql ==
    Success => IF judged THEN /\ ValidationDetail = <<valid.n, valid.n>>
                              /\ JourneyValidation = {[items |-> valid.n, summary |-> valid.n]}
               ELSE ValidationDetail = <<>> /\ JourneyValidation = {} /\ summary = 0

\* Every table that was explored is told in one of three groups, in two of them
\* only when all tables were rejected; the two accounts agree on the others, and
\* both warn of the join in a SQL that reads two of them.
TablesAreTold ==
    /\ Used \cup Candidate \cup Rejected = Explored
    /\ Success /\ Active # {} => Used \cap Rejected = {} /\ UsedInSummary = Used
    /\ Success /\ Active # {} /\ Cardinality(Used) > 1 => Caveats.joins /\ JourneyCaveats.joins

\* A table that a step found is shown at one call of the journey, that of the
\* step, and the recovery tells it of this step, as one that is done, and no other.
StepsTellTheirTables ==
    \A t \in Explored :
        LET here == {c \in (DOMAIN plan) \X (DOMAIN hyps) :
                        HasJourney /\ c[1] \in Calls(c[2]) /\ t \in Matched(c[1], c[2])}
            told == {i \in DOMAIN History : t \in History[i].found}
        IN  IF tables[t].step = 0 THEN here = {} /\ told = {}
            ELSE /\ Cardinality(here) = 1 /\ Cardinality(told) = 1
                 /\ \A i \in told : History[i].done

\* "SQL: only at the hypothesis that finally succeeded": a turn that was neither
\* forced nor answered by the user has exactly one; and a hypothesis shows a
\* failure if and only if it failed, which the LLM is told in one round and the
\* user counts once.
SqlHasOneHypothesis ==
    /\ WithFailure = {h \in DOMAIN hyps : hyps[h] = "FAILED"}
    /\ \A h \in WithFailure : Cardinality({i \in DOMAIN Rounds : h \in Rounds[i]}) = 1
    /\ Caveats.detours >= Cardinality(WithFailure)
    /\ Success /\ ~asked /\ ~forced /\ hyps # <<>> => WithSql = {current}

\* The accounts of a turn are true to what it did.
AccountsAreTrue ==
    pc = "ended" => /\ JudgmentIsOfSql /\ TablesAreTold
                    /\ StepsTellTheirTables /\ SqlHasOneHypothesis

=============================================================================
