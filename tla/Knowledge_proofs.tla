-------------------------- MODULE Knowledge_proofs --------------------------
(***************************************************************************)
(* Theorems of Knowledge, for any tables, use cases and items, any budget  *)
(* of tool calls and any answers of the LLM.                               *)
(***************************************************************************)
EXTENDS Knowledge, FiniteSetTheorems, SequenceTheorems, TLAPS

Raw == [tables : SUBSET Tables, cases : SUBSET UseCases, terms : 0 .. 1,
        sampled : SUBSET Tables, asked : SUBSET Tables, known : SUBSET Tables,
        got : SUBSET Tables]
Observing == {"lookup_table_meta", "get_sample_rows"}
Searching == {"search_use_cases", "search_table_meta", "search_biz_terms"}
Step == {step \in [tool : Searching \cup Observing, on : Queries \cup Tables,
                   form : {"bare", "full"}, status : StepStates, raw : Raw] :
           step.tool \in Observing => step.on \in Tables}

\* What a step that is DONE holds until it is interpreted.
Holds(i, table) == plan[i].status = "DONE" /\ table \in plan[i].raw.tables
HoldsCase(i, case) == plan[i].status = "DONE" /\ case \in plan[i].raw.cases

\* What was found is known, or a step still holds it.
NothingIsLost ==
    /\ \A table \in found.tables : tables[table] # "none" \/ \E i \in DOMAIN plan : Holds(i, table)
    /\ \A case \in found.cases : case \in cases \/ \E i \in DOMAIN plan : HoldsCase(i, case)

PlanOK == plan \in Seq(Step) /\ local \subseteq Tables
TablesOK == tables \in [Tables -> Verdicts \cup {"none"}]
FoundOK == found \in [tables : SUBSET Tables, cases : SUBSET UseCases]
StartsEmpty == phase = "prepare" => found = [tables |-> {}, cases |-> {}]

IInv == PlanOK /\ TablesOK /\ FoundOK /\ StartsEmpty /\ NothingIsLost /\ FindingsReachState

\* A turn begins without a plan and without a finding.
LEMMA InitIInv == Init => IInv
BY DEF Init, IInv, PlanOK, TablesOK, FoundOK, StartsEmpty, NothingIsLost, FindingsReachState

\* A step to run is one of the plan.
LEMMA NothingIsRaw == Nothing \in Raw
BY DEF Nothing, Raw

LEMMA ToDoIsStep ==
    ASSUME NEW tool \in Searching \cup Observing, NEW on \in Queries \cup Tables,
           NEW form \in {"bare", "full"}, tool \in Observing => on \in Tables
    PROVE  ToDo(tool, on, form) \in Step /\ ToDo(tool, on, form).status = "PENDING"
BY NothingIsRaw DEF ToDo, Step, StepStates

LEMMA PrepareKeeps == ASSUME KnowledgeAssumption, IInv, Prepare PROVE IInv'
<1>1. QueryOfTurn \in Queries
  BY DEF KnowledgeAssumption
<1>2. FirstPlan \in Seq(Step)
  BY <1>1, ToDoIsStep DEF FirstPlan, Searching, Observing
<1>3. plan' \in Seq(Step) /\ UNCHANGED <<local, tables, cases, found>> /\ phase' = "retrieve"
      /\ found = [tables |-> {}, cases |-> {}]
  BY <1>2 DEF Prepare, IInv, StartsEmpty
<1> QED BY <1>3 DEF IInv, PlanOK, TablesOK, FoundOK, StartsEmpty, NothingIsLost, FindingsReachState

\* Beginning a batch changes no step that is DONE.
LEMMA BeginKeeps == ASSUME IInv, Begin PROVE IInv'
<1>1. plan \in Seq(Step)
  BY DEF IInv, PlanOK
<1>2. ASSUME NEW i \in DOMAIN plan
      PROVE  Begun(i) \in Step /\ (plan[i].status = "DONE" => Begun(i) = plan[i])
             /\ (Begun(i).status = "DONE" => Begun(i) = plan[i])
  <2>1. plan[i] \in Step
    BY <1>1, <1>2
  <2>2. Chosen \subseteq With("PENDING")
    BY DEF Chosen
  <2>3. i \in Chosen => plan[i].status = "PENDING"
    BY <2>2 DEF With
  <2> QED BY <2>1, <2>3 DEF Begun, Qualified, With, Step, StepStates
<1>3. plan' \in Seq(Step) /\ DOMAIN plan' = DOMAIN plan /\ \A i \in DOMAIN plan : plan'[i] = Begun(i)
  BY <1>1, <1>2 DEF Begin
<1>4. UNCHANGED <<tables, cases, found>> /\ phase' = "running" /\ local' \subseteq Tables
  BY DEF Begin, state, Explored
<1>5. \A i \in DOMAIN plan : \A x : Holds(i, x) => Holds(i, x)'
  BY <1>2, <1>3 DEF Holds
<1>6. \A i \in DOMAIN plan : \A x : HoldsCase(i, x) => HoldsCase(i, x)'
  BY <1>2, <1>3 DEF HoldsCase
<1>7. NothingIsLost'
  BY <1>3, <1>4, <1>5, <1>6 DEF IInv, NothingIsLost
<1> QED BY <1>3, <1>4, <1>7 DEF IInv, PlanOK, TablesOK, FoundOK, StartsEmpty, FindingsReachState

\* What one step of a running batch does to its own entry: it may end, and then
\* what it found is what it holds.
OneStep(i) ==
    /\ plan[i].status # "DONE" /\ phase = "running"
    /\ plan' \in Seq(Step) /\ DOMAIN plan' = DOMAIN plan
    /\ \A j \in DOMAIN plan : j # i => plan'[j] = plan[j]
    /\ UNCHANGED <<phase, tables, cases>> /\ local' \subseteq Tables
    /\ \/ UNCHANGED found
       \/ plan'[i].status = "DONE"
          /\ found' = [tables |-> found.tables \cup plan'[i].raw.tables,
                       cases |-> found.cases \cup plan'[i].raw.cases]

\* Such a step leaves what the other steps hold.
LEMMA OneStepKeeps == ASSUME IInv, NEW i \in DOMAIN plan, OneStep(i) PROVE IInv'
<1>1. plan' \in Seq(Step) /\ DOMAIN plan' = DOMAIN plan /\ i \in DOMAIN plan' /\ plan'[i] \in Step
  BY DEF OneStep
<1>2. plan'[i].raw.tables \subseteq Tables /\ plan'[i].raw.cases \subseteq UseCases
  BY <1>1 DEF Step, Raw
<1>3. FoundOK'
  BY <1>2 DEF OneStep, IInv, FoundOK
<1>4. \A j \in DOMAIN plan : \A x : Holds(j, x) => Holds(j, x)'
  BY DEF OneStep, Holds
<1>5. \A j \in DOMAIN plan : \A x : HoldsCase(j, x) => HoldsCase(j, x)'
  BY DEF OneStep, HoldsCase
<1>6. ASSUME NEW x \in found'.tables
      PROVE  tables'[x] # "none" \/ \E j \in DOMAIN plan' : Holds(j, x)'
  <2>1. CASE x \in found.tables
    BY <2>1, <1>1, <1>4 DEF OneStep, IInv, NothingIsLost
  <2>2. CASE x \notin found.tables
    <3>1. Holds(i, x)'
      BY <2>2, <1>6 DEF OneStep, Holds
    <3> QED BY <3>1, <1>1
  <2> QED BY <2>1, <2>2
<1>7. ASSUME NEW x \in found'.cases
      PROVE  x \in cases' \/ \E j \in DOMAIN plan' : HoldsCase(j, x)'
  <2>1. CASE x \in found.cases
    BY <2>1, <1>1, <1>5 DEF OneStep, IInv, NothingIsLost
  <2>2. CASE x \notin found.cases
    <3>1. HoldsCase(i, x)'
      BY <2>2, <1>7 DEF OneStep, HoldsCase
    <3> QED BY <3>1, <1>1
  <2> QED BY <2>1, <2>2
<1>8. NothingIsLost'
  BY <1>6, <1>7 DEF NothingIsLost
<1> QED BY <1>3, <1>8 DEF IInv, OneStep, PlanOK, TablesOK, StartsEmpty, FindingsReachState

\* Replacing one entry of a sequence.
LEMMA Replacing ==
    ASSUME NEW S, NEW seq \in Seq(S), NEW i \in DOMAIN seq, NEW x \in S,
           NEW new, new = [seq EXCEPT ![i] = x]
    PROVE  new \in Seq(S) /\ DOMAIN new = DOMAIN seq /\ new[i] = x
           /\ \A j \in DOMAIN seq : j # i => new[j] = seq[j]
OBVIOUS

\* What a tool returns is of the turn's tables and use cases.
LEMMA ResultsAreRaw == ASSUME NEW step \in Step, NEW raw \in Results(step) PROVE raw \in Raw
BY NothingIsRaw DEF Results, Step, Raw, Nothing, Searching, Observing

LEMMA AskingIsRaw == ASSUME NEW raw \in Raw, local \subseteq Tables, KnowledgeAssumption
                     PROVE  Asking(raw) \in Raw /\ Asking(raw).tables = raw.tables
                            /\ Asking(raw).cases = raw.cases
<1>1. Hinted(raw) \subseteq Tables
  BY DEF Hinted, Raw, KnowledgeAssumption
<1> QED BY <1>1 DEF Asking, Raw

\* The tool of a step answers.
LEMMA AnswerKeeps ==
    ASSUME KnowledgeAssumption, IInv, NEW i \in DOMAIN plan, Answer(i) PROVE IInv'
<1>1. plan \in Seq(Step) /\ plan[i] \in Step /\ local \subseteq Tables
  BY DEF IInv, PlanOK
<1>2. PICK raw \in Results(plan[i]) :
        /\ local' = local \cup raw.tables
        /\ \/ plan' = [plan EXCEPT ![i].status = "enriching", ![i].raw = Asking(raw)] /\ UNCHANGED found
           \/ plan' = [plan EXCEPT ![i].status = "DONE", ![i].raw = raw] /\ Finds(raw)
  BY DEF Answer
<1>3. raw \in Raw
  BY <1>1, <1>2, ResultsAreRaw
<1>4. Asking(raw) \in Raw
  BY <1>1, <1>3, AskingIsRaw
<1>5. [plan[i] EXCEPT !.status = "enriching", !.raw = Asking(raw)] \in Step
  BY <1>1, <1>4 DEF Step, StepStates
<1>6. [plan[i] EXCEPT !.status = "DONE", !.raw = raw] \in Step
  BY <1>1, <1>3 DEF Step, StepStates
<1>7. plan[i].status # "DONE" /\ phase = "running" /\ UNCHANGED <<phase, tables, cases>>
  BY DEF Answer, state
<1>8. local' \subseteq Tables
  BY <1>1, <1>2, <1>3 DEF Raw
<1>9. CASE plan' = [plan EXCEPT ![i].status = "enriching", ![i].raw = Asking(raw)] /\ UNCHANGED found
  <2>1. plan' = [plan EXCEPT ![i] = [plan[i] EXCEPT !.status = "enriching", !.raw = Asking(raw)]]
    BY <1>1, <1>9
  <2>2. plan' \in Seq(Step) /\ DOMAIN plan' = DOMAIN plan
        /\ \A j \in DOMAIN plan : j # i => plan'[j] = plan[j]
    BY <1>1, <1>5, <2>1, Replacing
  <2>3. OneStep(i)
    BY <1>7, <1>8, <1>9, <2>2 DEF OneStep
  <2> QED BY <2>3, OneStepKeeps
<1>10. CASE plan' = [plan EXCEPT ![i].status = "DONE", ![i].raw = raw] /\ Finds(raw)
  <2>1. plan' = [plan EXCEPT ![i] = [plan[i] EXCEPT !.status = "DONE", !.raw = raw]]
    BY <1>1, <1>10
  <2>2. plan'[i].status = "DONE" /\ plan'[i].raw = raw
    BY <1>1, <2>1 DEF Step
  <2>3. found' = [tables |-> found.tables \cup plan'[i].raw.tables,
                  cases |-> found.cases \cup plan'[i].raw.cases]
    BY <1>10, <2>2 DEF Finds
  <2>4. plan' \in Seq(Step) /\ DOMAIN plan' = DOMAIN plan
      /\ \A j \in DOMAIN plan : j # i => plan'[j] = plan[j]
    BY <1>1, <1>6, <2>1, Replacing
  <2>5. OneStep(i)
    BY <1>7, <1>8, <2>2, <2>3, <2>4 DEF OneStep
  <2> QED BY <2>5, OneStepKeeps
<1> QED BY <1>2, <1>9, <1>10

\* The lookups of its enrichment return.
LEMMA EnrichKeeps ==
    ASSUME IInv, NEW i \in DOMAIN plan, Enrich(i) PROVE IInv'
<1>1. plan \in Seq(Step) /\ plan[i] \in Step /\ local \subseteq Tables
  BY DEF IInv, PlanOK
<1>2. PICK got \in SUBSET plan[i].raw.asked :
        /\ local' = local \cup got
        /\ plan' = [plan EXCEPT ![i].status = "DONE", ![i].raw.got = got]
  BY DEF Enrich
<1>3. local' \subseteq Tables /\ got \subseteq Tables
  BY <1>1, <1>2 DEF Step, Raw
<1>4. [plan[i] EXCEPT !.status = "DONE", !.raw.got = got] \in Step
  BY <1>1, <1>3 DEF Step, StepStates, Raw
<1>5. plan' = [plan EXCEPT ![i] = [plan[i] EXCEPT !.status = "DONE", !.raw.got = got]]
  BY <1>1, <1>2
<1>6. plan'[i].status = "DONE" /\ plan'[i].raw.tables = plan[i].raw.tables
      /\ plan'[i].raw.cases = plan[i].raw.cases
  BY <1>1, <1>5 DEF Step, Raw
<1>7. found' = [tables |-> found.tables \cup plan'[i].raw.tables,
                cases |-> found.cases \cup plan'[i].raw.cases]
  BY <1>6 DEF Finds, Enrich
<1>8. plan[i].status # "DONE" /\ phase = "running" /\ UNCHANGED <<phase, tables, cases>>
  BY DEF Enrich, state
<1>9. plan' \in Seq(Step) /\ DOMAIN plan' = DOMAIN plan
      /\ \A j \in DOMAIN plan : j # i => plan'[j] = plan[j]
  BY <1>1, <1>4, <1>5, Replacing
<1>10. OneStep(i)
  BY <1>3, <1>6, <1>7, <1>8, <1>9 DEF OneStep
<1> QED BY <1>10, OneStepKeeps

\* A step fails, and has found nothing.
LEMMA FailKeeps ==
    ASSUME IInv, NEW i \in DOMAIN plan, Fail(i) PROVE IInv'
<1>1. plan \in Seq(Step) /\ plan[i] \in Step /\ local \subseteq Tables
  BY DEF IInv, PlanOK
<1>2. [plan[i] EXCEPT !.status = "FAILED", !.raw = Nothing] \in Step
  BY <1>1, NothingIsRaw DEF Step, StepStates
<1>3. plan' = [plan EXCEPT ![i] = [plan[i] EXCEPT !.status = "FAILED", !.raw = Nothing]]
  BY <1>1 DEF Fail
<1>4. plan' \in Seq(Step) /\ DOMAIN plan' = DOMAIN plan
      /\ \A j \in DOMAIN plan : j # i => plan'[j] = plan[j]
  BY <1>1, <1>2, <1>3, Replacing
<1>5. OneStep(i)
  BY <1>1, <1>4 DEF OneStep, Fail, state
<1> QED BY <1>5, OneStepKeeps

LEMMA GatheredKeeps == ASSUME IInv, Gathered PROVE IInv'
BY DEF IInv, Gathered, state, PlanOK, TablesOK, FoundOK, StartsEmpty, NothingIsLost, Holds,
       HoldsCase, FindingsReachState

\* Loading what the steps returned: a table that is known stays so, and so is now
\* one that a step holds.
LEMMA HydratedKnows ==
    ASSUME IInv
    PROVE  /\ Hydrated(tables) \in [Tables -> Verdicts \cup {"none"}]
           /\ \A x \in found.tables : Hydrated(tables)[x] # "none"
           /\ found.cases \subseteq HydratedCases
<1>1. Hydrated(tables) \in [Tables -> Verdicts \cup {"none"}]
  BY DEF IInv, TablesOK, Hydrated, Verdicts
<1>2. ASSUME NEW i \in DOMAIN plan, plan[i].status = "DONE" PROVE plan[i].raw \in Returned
  BY <1>2 DEF Returned, With
<1>3. ASSUME NEW x \in found.tables PROVE Hydrated(tables)[x] # "none"
  <2>1. x \in Tables
    BY DEF IInv, FoundOK
  <2>2. CASE tables[x] # "none"
    BY <2>1, <2>2 DEF Hydrated
  <2>3. CASE \E i \in DOMAIN plan : Holds(i, x)
    <3>1. PICK i \in DOMAIN plan : Holds(i, x)
      BY <2>3
    <3>2. \E raw \in Returned : x \in raw.tables
      BY <3>1, <1>2 DEF Holds
    <3> QED BY <2>1, <3>2 DEF Hydrated
  <2> QED BY <2>2, <2>3 DEF IInv, NothingIsLost
<1>4. ASSUME NEW x \in found.cases PROVE x \in HydratedCases
  <2>1. CASE x \in cases
    BY <2>1 DEF HydratedCases
  <2>2. CASE \E i \in DOMAIN plan : HoldsCase(i, x)
    <3>1. PICK i \in DOMAIN plan : HoldsCase(i, x)
      BY <2>2
    <3> QED BY <3>1, <1>2 DEF HoldsCase, HydratedCases
  <2> QED BY <2>1, <2>2 DEF IInv, NothingIsLost
<1> QED BY <1>1, <1>3, <1>4

\* Judging tables, and hanging on those of the chosen use cases, forgets none.
LEMMA JudgingKeeps ==
    ASSUME NEW of \in [Tables -> Verdicts \cup {"none"}], NEW judge,
           \A x \in DOMAIN judge : judge[x] \in Verdicts, NEW selected
    PROVE  LET now == Referenced(JudgedTables(of, judge), selected)
           IN now \in [Tables -> Verdicts \cup {"none"}]
              /\ \A x \in Tables : of[x] # "none" => now[x] # "none"
<1> DEFINE judged == JudgedTables(of, judge)
<1>1. judged \in [Tables -> Verdicts \cup {"none"}]
  BY DEF JudgedTables
<1>2. \A x \in Tables : of[x] # "none" => judged[x] # "none"
  BY DEF JudgedTables, Verdicts
<1>3. Referenced(judged, selected) \in [Tables -> Verdicts \cup {"none"}]
  BY <1>1 DEF Referenced, Verdicts
<1>4. \A x \in Tables : judged[x] # "none" => Referenced(judged, selected)[x] # "none"
  BY DEF Referenced
<1> QED BY <1>2, <1>3, <1>4

\* The verdicts of the LLM, which may not be asked, are verdicts.
LEMMA JudgesAreVerdicts ==
    ASSUME NEW things, NEW judge \in Judges(things, Verdicts, <<>>)
    PROVE  \A x \in DOMAIN judge : judge[x] \in Verdicts
BY DEF Judges

\* context_interpreter takes in all that the steps hold before it clears them.
LEMMA InterpretKeeps == ASSUME IInv, Interpret PROVE IInv'
<1>1. PICK onTables \in Judges({table \in Tables : Hydrated(tables)[table] # "none"}
                                  \cup Attached(UseCases), Verdicts, <<>>) :
        \E chosen : tables' = Referenced(JudgedTables(Hydrated(tables), onTables), chosen)
  BY DEF Interpret
<1>2. PICK chosen : tables' = Referenced(JudgedTables(Hydrated(tables), onTables), chosen)
  BY <1>1
<1>3. \A x \in DOMAIN onTables : onTables[x] \in Verdicts
  BY <1>1, JudgesAreVerdicts
<1>4. /\ tables' \in [Tables -> Verdicts \cup {"none"}]
      /\ \A x \in Tables : Hydrated(tables)[x] # "none" => tables'[x] # "none"
  BY <1>2, <1>3, HydratedKnows, JudgingKeeps
<1>5. cases' = HydratedCases /\ UNCHANGED <<local, found>> /\ phase = "interpret" /\ phase' = "assess"
  BY DEF Interpret
<1>6. found.tables \subseteq Tables
  BY DEF IInv, FoundOK
<1>7. (\A x \in found'.tables : tables'[x] # "none") /\ found'.cases \subseteq cases'
  BY <1>4, <1>5, <1>6, HydratedKnows
<1>8. NothingIsLost' /\ FindingsReachState'
  BY <1>5, <1>6, <1>7 DEF NothingIsLost, FindingsReachState, Explored
<1>9. plan \in Seq(Step) /\ plan' = [i \in DOMAIN plan |->
        IF i \in With("DONE") THEN [plan[i] EXCEPT !.raw = Nothing] ELSE plan[i]]
  BY DEF Interpret, IInv, PlanOK
<1>10. ASSUME NEW i \in DOMAIN plan
       PROVE  [plan[i] EXCEPT !.raw = Nothing] \in Step /\ plan[i] \in Step
  <2>1. plan[i] \in Step
    BY <1>9
  <2> QED BY <2>1, NothingIsRaw DEF Step
<1>11. plan' \in Seq(Step)
  BY <1>9, <1>10
<1> QED BY <1>4, <1>5, <1>8, <1>11 DEF IInv, PlanOK, TablesOK, FoundOK, StartsEmpty

\* recovery_agent appends to the plan, and touches no step of it.
LEMMA ReplanKeeps == ASSUME KnowledgeAssumption, IInv, Replan PROVE IInv'
<1>1. plan \in Seq(Step)
  BY DEF IInv, PlanOK
<1>2. PossibleSteps \subseteq Step
  BY ToDoIsStep DEF PossibleSteps, Searching, Observing
<1>3. plan' \in Seq(Step) /\ DOMAIN plan \subseteq DOMAIN plan'
      /\ \A i \in DOMAIN plan : plan'[i] = plan[i]
  <2>1. PICK more \in PossibleSteps :
          plan' = Append(plan, more) \/ \E another \in PossibleSteps : plan' = plan \o <<more, another>>
    BY DEF Replan
  <2>2. CASE plan' = Append(plan, more)
    BY <1>1, <1>2, <2>1, <2>2
  <2>3. CASE \E another \in PossibleSteps : plan' = plan \o <<more, another>>
    <3>1. PICK another \in PossibleSteps : plan' = plan \o <<more, another>>
      BY <2>3
    <3>2. <<more, another>> \in Seq(Step)
      BY <1>2, <2>1, <3>1
    <3> QED BY <1>1, <3>1, <3>2
  <2> QED BY <2>1, <2>2, <2>3
<1>4. UNCHANGED <<local, tables, cases, found>> /\ phase' = "retrieve" /\ phase = "assess"
  BY DEF Replan, state
<1>5. \A i \in DOMAIN plan : \A x : Holds(i, x) => Holds(i, x)'
  BY <1>3 DEF Holds
<1>6. \A i \in DOMAIN plan : \A x : HoldsCase(i, x) => HoldsCase(i, x)'
  BY <1>3 DEF HoldsCase
<1>7. NothingIsLost'
  BY <1>3, <1>4, <1>5, <1>6 DEF IInv, NothingIsLost
<1> QED BY <1>3, <1>4, <1>7 DEF IInv, PlanOK, TablesOK, FoundOK, StartsEmpty, FindingsReachState

LEMMA StutterKeeps == ASSUME IInv, UNCHANGED vars PROVE IInv'
BY DEF IInv, vars, PlanOK, TablesOK, FoundOK, StartsEmpty, NothingIsLost, Holds, HoldsCase,
       FindingsReachState, Explored

\* Every step keeps what has been found, in the plan or in what is known.
LEMMA NextIInv == ASSUME KnowledgeAssumption, IInv, [Next]_vars PROVE IInv'
<1>1. CASE Prepare
  BY <1>1, PrepareKeeps
<1>2. CASE Begin
  BY <1>2, BeginKeeps
<1>3. CASE Gathered
  BY <1>3, GatheredKeeps
<1>4. CASE Interpret
  BY <1>4, InterpretKeeps
<1>5. CASE Replan
  BY <1>5, ReplanKeeps
<1>6. CASE Left \/ UNCHANGED vars
  BY <1>6, StutterKeeps DEF Left
<1>7. ASSUME NEW i \in DOMAIN plan, Answer(i) PROVE IInv'
  BY <1>7, AnswerKeeps
<1>8. ASSUME NEW i \in DOMAIN plan, Enrich(i) PROVE IInv'
  BY <1>8, EnrichKeeps
<1>9. ASSUME NEW i \in DOMAIN plan, Fail(i) PROVE IInv'
  BY <1>9, FailKeeps
<1> QED BY <1>1, <1>2, <1>3, <1>4, <1>5, <1>6, <1>7, <1>8, <1>9 DEF Next

\* What was found is never lost between its step and the state of the turn.
THEOREM Invariance == ASSUME KnowledgeAssumption PROVE Spec => []IInv
<1>1. Init => IInv
  BY InitIInv
<1>2. IInv /\ [Next]_vars => IInv'
  BY NextIInv
<1> QED BY <1>1, <1>2, PTL DEF Spec

\* The turn decides how to go on knowing every table and use case that a finished
\* step found, for any number of steps that overlap in any way.
THEOREM FindingsAreKept == ASSUME KnowledgeAssumption PROVE Spec => []FindingsReachState
<1>1. IInv => FindingsReachState
  BY DEF IInv
<1> QED BY <1>1, Invariance, PTL
-----------------------------------------------------------------------------
(* What is learned stays learned                                            *)

ItemsOK == items \in [Items -> Statuses \cup {"none"}]
TermsOK == terms \in Seq(Verdicts)
GrowInv == IInv /\ ItemsOK /\ TermsOK

\* The terms of a round are counted.
LEMMA NewTermsCounted == ASSUME IInv PROVE NewTerms \in Nat
<1>1. DOMAIN plan = 1 .. Len(plan) /\ Len(plan) \in Nat
  BY DEF IInv, PlanOK
<1>2. IsFiniteSet(DOMAIN plan)
  <2>1. 1 \in Int /\ Len(plan) \in Int
    BY <1>1
  <2> QED BY <1>1, <2>1, FS_Interval
<1>3. {i \in With("DONE") : plan[i].raw.terms = 1} \subseteq DOMAIN plan
  BY DEF With
<1> QED BY <1>2, <1>3, FS_Subset, FS_CardinalityType DEF NewTerms

\* The new terms follow those that are there.
LEMMA HydratedTermsFollow ==
    ASSUME GrowInv
    PROVE  /\ HydratedTerms \in Seq(Verdicts) /\ DOMAIN terms \subseteq DOMAIN HydratedTerms
           /\ \A n \in DOMAIN terms : HydratedTerms[n] = terms[n]
<1> DEFINE new == [n \in 1 .. NewTerms |-> "PENDING"]
<1>1. NewTerms \in Nat
  BY NewTermsCounted DEF GrowInv
<1>2. new \in Seq(Verdicts)
  BY <1>1 DEF Verdicts
<1>3. terms \in Seq(Verdicts)
  BY DEF GrowInv, TermsOK
<1> HIDE DEF new
<1>4. /\ terms \o new \in Seq(Verdicts)
      /\ Len(terms \o new) = Len(terms) + Len(new)
      /\ \A n \in 1 .. Len(terms) + Len(new) :
            (terms \o new)[n] = IF n <= Len(terms) THEN terms[n] ELSE new[n - Len(terms)]
  BY <1>2, <1>3, ConcatProperties
<1>5. /\ Len(terms) \in Nat /\ Len(new) \in Nat /\ DOMAIN terms = 1 .. Len(terms)
      /\ DOMAIN (terms \o new) = 1 .. Len(terms \o new)
  BY <1>2, <1>3, <1>4, LenProperties
<1>6. DOMAIN terms \subseteq DOMAIN (terms \o new)
  BY <1>4, <1>5
<1>7. \A n \in DOMAIN terms : (terms \o new)[n] = terms[n]
  BY <1>4, <1>5
<1>8. HydratedTerms = terms \o new
  BY DEF HydratedTerms, new
<1> QED BY <1>4, <1>6, <1>7, <1>8

\* A round of the interpreter settles terms and never takes a verdict back.
LEMMA InterpretTerms ==
    ASSUME GrowInv, Interpret
    PROVE  /\ TermsOK'
           /\ \A n \in DOMAIN terms :
                 terms[n] # "PENDING" => n \in DOMAIN terms' /\ terms'[n] = terms[n]
<1>1. PICK onTerms \in Judges({n \in DOMAIN HydratedTerms : HydratedTerms[n] = "PENDING"},
                              {"PENDING", "SELECTED", "REJECTED"}, <<>>) :
         terms' = [n \in DOMAIN HydratedTerms |->
                     IF n \in DOMAIN onTerms THEN onTerms[n] ELSE HydratedTerms[n]]
  BY DEF Interpret
<1>2. /\ HydratedTerms \in Seq(Verdicts) /\ DOMAIN terms \subseteq DOMAIN HydratedTerms
      /\ \A n \in DOMAIN terms : HydratedTerms[n] = terms[n]
  BY HydratedTermsFollow
<1>3. \A n \in DOMAIN onTerms :
         /\ onTerms[n] \in Verdicts
         /\ n \in DOMAIN HydratedTerms => HydratedTerms[n] = "PENDING"
  <2>1. CASE onTerms = <<>>
    BY <2>1
  <2>2. CASE onTerms \in [{n \in DOMAIN HydratedTerms : HydratedTerms[n] = "PENDING"}
                             -> {"PENDING", "SELECTED", "REJECTED"}]
    BY <2>2 DEF Verdicts
  <2> QED BY <1>1, <2>1, <2>2 DEF Judges
<1> DEFINE loaded == HydratedTerms
<1> HIDE DEF loaded
<1>4. loaded \in Seq(Verdicts) /\ DOMAIN loaded = 1 .. Len(loaded) /\ Len(loaded) \in Nat
  BY <1>2 DEF loaded
<1>5. terms' = [n \in 1 .. Len(loaded) |->
                  IF n \in DOMAIN onTerms THEN onTerms[n] ELSE loaded[n]]
  BY <1>1, <1>4 DEF loaded
<1>6. ASSUME NEW n \in 1 .. Len(loaded)
      PROVE  (IF n \in DOMAIN onTerms THEN onTerms[n] ELSE loaded[n]) \in Verdicts
  <2>1. loaded[n] \in Verdicts
    BY <1>4
  <2>2. n \in DOMAIN onTerms => onTerms[n] \in Verdicts
    BY <1>3
  <2> QED BY <2>1, <2>2
<1>7. terms' \in [1 .. Len(loaded) -> Verdicts]
  BY <1>5, <1>6
<1>8. terms' \in Seq(Verdicts)
  BY <1>4, <1>7
<1>9. ASSUME NEW n \in DOMAIN terms, terms[n] # "PENDING"
      PROVE  n \in DOMAIN terms' /\ terms'[n] = terms[n]
  <2>1. n \in DOMAIN HydratedTerms /\ HydratedTerms[n] = terms[n]
    BY <1>2
  <2>2. n \notin DOMAIN onTerms
    BY <1>3, <1>9, <2>1
  <2> QED BY <1>1, <2>1, <2>2
<1> QED BY <1>8, <1>9 DEF TermsOK

\* It promotes items.
LEMMA InterpretItems ==
    ASSUME GrowInv, Interpret
    PROVE  /\ ItemsOK'
           /\ \A item \in Seeded : /\ items'[item] # "none"
                                   /\ Rank(items'[item]) >= Rank(items[item])
<1>1. PICK updates \in Judges(Items, Statuses, items) : items' = Merged(updates)
  BY DEF Interpret
<1>2. items \in [Items -> Statuses \cup {"none"}]
  BY DEF GrowInv, ItemsOK
<1>3. updates \in [Items -> Statuses \cup {"none"}]
  BY <1>1, <1>2 DEF Judges
<1>4. ItemsOK'
  BY <1>1, <1>2, <1>3 DEF ItemsOK, Merged
<1>5. ASSUME NEW item \in Items
      PROVE  items'[item] = items[item] \/ Rank(items'[item]) > Rank(items[item])
  BY <1>1, <1>2 DEF Merged
<1>6. \A status \in Statuses : Rank(status) \in 0 .. 3
  BY DEF Statuses, Rank
<1>7. ASSUME NEW item \in Seeded PROVE items'[item] # "none"
  <2>1. item \in Items /\ items[item] # "none"
    BY DEF Seeded
  <2>2. CASE With("DONE") = {}
    BY <1>1, <1>2, <2>1, <2>2 DEF Judges, Merged
  <2>3. CASE With("DONE") # {}
    <3>1. updates \in [Items -> Statuses]
      BY <1>1, <2>3 DEF Judges
    <3> QED BY <1>1, <1>2, <2>1, <3>1 DEF Merged, Statuses
  <2> QED BY <2>2, <2>3
<1>8. ASSUME NEW item \in Seeded PROVE Rank(items'[item]) >= Rank(items[item])
  <2>1. item \in Items /\ items[item] \in Statuses /\ items'[item] \in Statuses
    BY <1>2, <1>4, <1>7 DEF Seeded, ItemsOK
  <2>2. Rank(items[item]) \in 0 .. 3 /\ Rank(items'[item]) \in 0 .. 3
    BY <1>6, <2>1
  <2> QED BY <1>5, <2>1, <2>2
<1> QED BY <1>4, <1>7, <1>8

\* It leaves the verdicts on tables, and forgets none that was explored.
LEMMA InterpretTables ==
    ASSUME IInv, Interpret
    PROVE  /\ \A table \in Tables :
                 tables[table] \in {"SELECTED", "REJECTED"} => tables'[table] = tables[table]
           /\ Explored \subseteq Explored' /\ cases \subseteq cases' /\ sampled \subseteq sampled'
<1>1. PICK onTables \in Judges({table \in Tables : Hydrated(tables)[table] # "none"}
                                  \cup Attached(UseCases), Verdicts, <<>>) :
        \E chosen : tables' = Referenced(JudgedTables(Hydrated(tables), onTables), chosen)
  BY DEF Interpret
<1>2. PICK chosen : tables' = Referenced(JudgedTables(Hydrated(tables), onTables), chosen)
  BY <1>1
<1>3. \A table \in Tables : tables[table] # "none" => Hydrated(tables)[table] = tables[table]
  BY DEF Hydrated
<1>4. \A table \in Tables :
         tables[table] \in {"SELECTED", "REJECTED"} => tables'[table] = tables[table]
  BY <1>2, <1>3 DEF JudgedTables, Referenced
<1>5. \A x \in DOMAIN onTables : onTables[x] \in Verdicts
  BY <1>1, JudgesAreVerdicts
<1>6. \A x \in Tables : Hydrated(tables)[x] # "none" => tables'[x] # "none"
  BY <1>2, <1>5, HydratedKnows, JudgingKeeps
<1>7. Explored \subseteq Explored'
  BY <1>3, <1>6 DEF Explored
<1>8. cases \subseteq cases' /\ sampled \subseteq sampled'
  BY DEF Interpret, HydratedCases
<1> QED BY <1>4, <1>7, <1>8

LEMMA NextGrowInv == ASSUME KnowledgeAssumption, GrowInv, [Next]_vars PROVE ItemsOK' /\ TermsOK'
<1>1. CASE Prepare
  BY <1>1 DEF Prepare, Seeds, Statuses, GrowInv, ItemsOK, TermsOK
<1>2. CASE Interpret
  BY <1>2, InterpretTerms, InterpretItems
<1>3. CASE Begin \/ Gathered \/ Replan \/ Left \/ UNCHANGED vars
  BY <1>3 DEF Begin, Gathered, Replan, Left, vars, state, GrowInv, ItemsOK, TermsOK
<1>4. CASE \E i \in DOMAIN plan : Answer(i) \/ Enrich(i) \/ Fail(i)
  BY <1>4 DEF Answer, Enrich, Fail, state, GrowInv, ItemsOK, TermsOK
<1> QED BY <1>1, <1>2, <1>3, <1>4 DEF Next

\* Whatever the LLM says later, and whatever the steps return, items are never
\* demoted, a verdict on a table or a term is final, and nothing is forgotten.
THEOREM LearnedStays == ASSUME KnowledgeAssumption PROVE Spec => KnowledgeOnlyGrows
<1> DEFINE Grows ==
       phase = "interpret" =>
        /\ \A item \in Seeded : items'[item] # "none" /\ Rank(items'[item]) >= Rank(items[item])
        /\ \A table \in Tables : tables[table] \in {"SELECTED", "REJECTED"} => tables'[table] = tables[table]
        /\ Explored \subseteq Explored' /\ cases \subseteq cases' /\ sampled \subseteq sampled'
        /\ \A n \in DOMAIN terms : terms[n] # "PENDING" => n \in DOMAIN terms' /\ terms'[n] = terms[n]
<1>1. Init => ItemsOK /\ TermsOK
  BY DEF Init, ItemsOK, TermsOK
<1>2. IInv /\ ItemsOK /\ TermsOK /\ [Next]_vars => ItemsOK' /\ TermsOK'
  BY NextGrowInv DEF GrowInv
<1>3. IInv /\ ItemsOK /\ TermsOK /\ [Next]_vars => [Grows]_vars
  <2>1. ASSUME GrowInv, Next, phase = "interpret" PROVE Interpret
    BY <2>1 DEF Next, Prepare, Begin, Gathered, Replan, Left, Answer, Enrich, Fail
  <2>2. ASSUME GrowInv, Interpret PROVE Grows
    BY <2>2, InterpretItems, InterpretTables, InterpretTerms DEF GrowInv
  <2>3. ASSUME GrowInv, Next PROVE Grows
    BY <2>1, <2>2, <2>3
  <2> QED BY <2>3 DEF GrowInv
<1>4. IInv /\ ItemsOK /\ TermsOK /\ [Next]_vars => (ItemsOK /\ TermsOK)'
  BY <1>2
<1>5. Spec => [][Grows]_vars
  BY <1>1, <1>3, <1>4, Invariance, PTL DEF Spec
<1> QED BY <1>5 DEF KnowledgeOnlyGrows

=============================================================================
