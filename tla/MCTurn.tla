------------------------------- MODULE MCTurn -------------------------------
(***************************************************************************)
(* The modules of TurnLayers, the tools of the reason layer that search    *)
(* and the filter of the streamed text, on small instances, side by side:  *)
(* in a behaviour one of the modules moves, the others stay in an initial  *)
(* state.  They share no variable, so that interleaving them would show    *)
(* nothing more.                                                           *)
(***************************************************************************)
EXTENDS TurnLayers, TLC

CONSTANTS
    Letters, MaxText, MaxChunk,
    Cases, Manuals, Blank, TopK, PrefetchLimit, MaxPrefetch, ManualTopK,
    ManualMaxLimit, Thresholds, MinCandidates, MaxCalls, MaxSearches,
    Words, Short, MaxDocs, MaxValue, Hits, MaxRows, Size, MaxPage, DateLimit, Recent

\* The shape of the tags <think> and </think>.
OpenTag  == <<"<", ">">>
CloseTag == <<"<", "/", ">">>

\* One query, a further page of which is an input of its own, and every way the
\* reranker may order the use cases, which the vector search orders 4, 3, 2, 1.
QueryOfInput == "x" :> "x" @@ "x, page=2" :> "x"
VectorScores == "x" :> [p \in Cases \cup Manuals |-> p]
RerankerScores == {"x" :> rank : rank \in Permutations(Cases)}
\* A table or term with one keyword, one with two, and one with neither.
DocumentKinds ==
    {[words |-> {"k"}, name |-> "k", joined |-> 1], [words |-> {"k", "l"}, name |-> "l", joined |-> 2],
     [words |-> {"s"}, name |-> "k", joined |-> 0]}
LengthOfCase == 1 :> 30 @@ 2 :> 20 @@ 3 :> 10 @@ 4 :> 40

VARIABLES
    part,  \* the module that moves
    fed, filter, ended,
    enabled, threshold, judge, phase, steps, asked, calls, batch, cases, manuals,
    search, store, column, pages, facts, kept

F == INSTANCE ThinkFilter WITH Open <- OpenTag, Close <- CloseTag
S == INSTANCE Retrieval WITH
        Inputs <- DOMAIN QueryOfInput, QueryOf <- QueryOfInput, Vector <- VectorScores,
        Judgments <- RerankerScores, Length <- LengthOfCase
U == INSTANCE Tools WITH Kinds <- DocumentKinds

ASSUME RetrievalAssumed == S!RetrievalAssumption

filterVars == <<fed, filter, ended>>
retrievalVars == <<enabled, threshold, judge, phase, steps, asked, calls, batch, cases, manuals>>
toolVars == <<search, store, column, pages, facts, kept>>
allVars == <<part, vars, presentVars, filterVars, deliveryVars, retrievalVars, toolVars>>

AllInit ==
    /\ part \in {"Interpret", "Present", "ThinkFilter", "Delivery", "Retrieval", "Tools"}
    /\ Init /\ P!Init /\ F!Init /\ D!Init /\ S!Init
    /\ (part = "Retrieval" /\ enabled) \/ judge = CHOOSE j \in RerankerScores : TRUE
    /\ (part = "Retrieval" /\ enabled) \/ threshold = CHOOSE t \in Thresholds : TRUE
    /\ part # "Retrieval" => enabled
    /\ IF part = "Tools" THEN U!Init ELSE search = 0 /\ store = 0 /\ column = 0 /\ pages = 0 /\ facts = 0 /\ kept = 0
    /\ part # "Interpret" => reference = "none"
    /\ part # "Present" => stage = "simple_responder" /\ ~analyze /\ ~streams

Interpreting(A) ==
    /\ part = "Interpret" /\ A
    /\ UNCHANGED <<part, presentVars, filterVars, deliveryVars, retrievalVars, toolVars>>
Presenting(A) ==
    /\ part = "Present" /\ A
    /\ UNCHANGED <<part, vars, filterVars, deliveryVars, retrievalVars, toolVars>>
Filtering(A) ==
    /\ part = "ThinkFilter" /\ A
    /\ UNCHANGED <<part, vars, presentVars, deliveryVars, retrievalVars, toolVars>>
Delivering(A) ==
    /\ part = "Delivery" /\ A
    /\ UNCHANGED <<part, vars, presentVars, filterVars, retrievalVars, toolVars>>
Searching(A) ==
    /\ part = "Retrieval" /\ A
    /\ UNCHANGED <<part, vars, presentVars, filterVars, deliveryVars, toolVars>>
Using(A) ==
    /\ part = "Tools" /\ A
    /\ UNCHANGED <<part, vars, presentVars, filterVars, deliveryVars, retrievalVars>>

AllNext ==
    \/ Interpreting(Next) \/ Presenting(P!Next)
    \/ Filtering(F!Next) \/ Delivering(D!Next) \/ Searching(S!Next) \/ Using(U!Next)

\* The fairness of Interpret!FairSpec, Present!Spec and Delivery!Spec.
Fairness ==
    /\ WF_allVars(Interpreting(Step))
    /\ WF_allVars(Presenting(P!Step))
    /\ WF_allVars(Delivering(D!Serve))

AllSpec == AllInit /\ [][AllNext]_allVars /\ Fairness

-----------------------------------------------------------------------------
(* The properties of the other modules, under their names there               *)

\* Text and thoughts are told apart in the same way however the answer of the
\* model is cut.
CutsDoNotMatter == F!CutsDoNotMatter

\* The vector searches of a turn return the best of what it has not seen, and
\* nothing twice; the pages of the others are parts of one list, and what is told
\* of a column is of the column.
SearchesGoOn ==
    /\ S!TypeOK /\ S!SearchesGoOn
    /\ part = "Tools" => U!TypeOK /\ U!ToolsHold

\* "Looks up the code values of a column, whose name is given."
CodesAreOfColumn == part = "Tools" => U!CodesAreOfColumn

\* A turn leaves the interpret layer unless query_normalizer asks for ever or
\* the user does not answer, and the present layer always; a client that stays
\* connected is released after every stream.start.
EveryPartMovesOn ==
    /\ part = "Interpret" => LeavesUnlessNormalizerAsks
    /\ part = "Present" => P!ChainEnds
    /\ D!BusyIsReleased
=============================================================================
