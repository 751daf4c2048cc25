----------------------------- MODULE MCServices -----------------------------
(***************************************************************************)
(* The modules of Services, and the formatting of the SQL that is stored,  *)
(* on small instances.  In a behaviour one of the modules moves.  They     *)
(* share no variable with each other, so that those of the others need no  *)
(* values.                                                                 *)
(***************************************************************************)
EXTENDS Services, MCStatements, TLC

CONSTANTS
    Written, MaxDepth, SeekDepth,
    Parts  \* the modules that are tried

VARIABLES
    formatting, statement, stored

\* An answer in order, and what else the LLM may write in one or two slots.
GoodAnswer ==
    [primary |-> "EXTRACT", secondary |-> {}, aggs |-> <<"NONE">>, roles |-> {},
     mods |-> {}, columns |-> {}, keywords |-> TRUE, words |-> {"k"},
     ambiguities |-> {}, broken |-> ""]
Answers ==
    {[GoodAnswer EXCEPT !.primary = p, !.aggs = a, !.roles = r, !.ambiguities = m] :
        p \in {"AGGREGATE", "aggregate", "odd", ""},
        a \in {<<>>, <<"NONE">>, <<"none", "NONE">>, <<"SUM">>, <<"odd">>},
        r \in {{}, {"GROUP"}, {"group"}, {"odd"}}, m \in {{}, {"ASK", "refused"}}}
    \cup {[GoodAnswer EXCEPT !.keywords = k, !.words = w, !.columns = c, !.ambiguities = a] :
        k \in BOOLEAN, w \in {{}, {"k"}}, c \in {{}, {"c"}, {"the", ""}},
        a \in {{}, {"ASK"}, {"INFER"}, {"ASK", "INFER"}, {"refused"}}}
    \cup {[GoodAnswer EXCEPT !.mods = {[type |-> t, dir |-> d, by |-> b]}, !.broken = x] :
        t \in {"RANK", "rank", "odd", ""}, d \in {"", "asc", "odd"}, b \in {"", "x"},
        x \in {"", "null", "shape"}}
TextsOfSlots ==
    {"", "odd", "EXTRACT", "AGGREGATE", "aggregate", "RANK", "rank", "SORT",
     "SUM", "COUNT", "NONE", "none", "UNKNOWN", "GROUP", "group", "DISPLAY",
     "ASC", "asc", "DESC", "measure", "x", "k", "c", "the"}

\* A query in order, and what else a statement may have in one respect.
Query ==
    [start |-> "SELECT", forbidden |-> FALSE, parses |-> TRUE, pii |-> FALSE,
     limit |-> TRUE, functions |-> FALSE, grouped |-> FALSE, partitions |-> FALSE,
     onlyAggregates |-> FALSE, tables |-> {1}, named |-> {1}, columns |-> {"a"},
     aliases |-> {}]
Queries ==
    {[Query EXCEPT !.start = s, !.forbidden = f, !.parses = p, !.pii = i] :
        s \in {"SELECT", "other"}, f \in BOOLEAN, p \in BOOLEAN, i \in BOOLEAN}
    \cup {[Query EXCEPT !.limit = l, !.functions = f, !.grouped = g, !.onlyAggregates = o] :
        l \in BOOLEAN, f \in BOOLEAN, g \in BOOLEAN, o \in BOOLEAN}
    \cup {[Query EXCEPT !.tables = t, !.named = n, !.columns = c, !.aliases = a] :
        t \in {{1}, {2}, {1, 2}}, n \in {{}, {1}, {2}}, c \in {{"a"}, {"b"}, {"a", "b"}},
        a \in {{}, {"b"}}}
ColumnsOfTable == 1 :> {"a"} @@ 2 :> {"b"}

F == INSTANCE Formatter WITH Parsed <- Written, pc <- formatting

\* The tables of Insight are interchangeable.
SeenSymmetry == Permutations(Seen)

formatterVars == <<formatting, statement, stored>>
allVars == <<part, vars, normalizerVars, validationVars, insightVars, connectionVars,
             formatterVars, llmVars>>

\* A module that does not move has no values.
NoNormalizer == phase = 0 /\ text = 0 /\ kept = 0 /\ data = 0 /\ source = 0 /\ normalized = 0
NoValidation ==
    /\ checking = 0 /\ sql = 0 /\ explored = 0 /\ setting = 0 /\ guard = 0 /\ layer3 = 0
    /\ judgment = 0 /\ outcome = 0
NoInsight ==
    /\ way = 0 /\ judged = 0 /\ hyps = 0 /\ current = 0 /\ plan = 0 /\ tables = 0
    /\ dead = 0 /\ written = 0 /\ valid = 0 /\ checks = 0 /\ summary = 0 /\ missing = 0
    /\ asked = 0 /\ forced = 0 /\ made = 0
NoConnections ==
    /\ stage = 0 /\ order = 0 /\ todo = 0 /\ open = 0 /\ offered = 0 /\ failed = 0
    /\ file = 0 /\ died = 0 /\ state = 0 /\ lost = 0 /\ check = 0 /\ unwell = 0
    /\ changes = 0 /\ starts = 0
NoFormatter == formatting = 0 /\ statement = 0 /\ stored = 0
NoLlmClient ==
    /\ calling = 0 /\ asking = 0 /\ request = 0 /\ reply = 0 /\ got = 0 /\ accounts = 0
    /\ node = 0 /\ ending = 0

AllInit ==
    /\ Init /\ part \in Parts
    /\ IF part = "Normalizer" THEN N!Init ELSE NoNormalizer
    /\ IF part = "Validation" THEN V!Init ELSE NoValidation
    /\ IF part = "Insight" THEN I!Init ELSE NoInsight
    /\ IF part = "Connections" THEN K!Init ELSE NoConnections
    /\ IF part = "Formatter" THEN F!Init ELSE NoFormatter
    /\ IF part = "LlmClient" THEN L!Init ELSE NoLlmClient

AllNext ==
    \/ /\ part = "MessageStore" /\ Next
       /\ UNCHANGED <<part, normalizerVars, validationVars, insightVars, connectionVars,
                      formatterVars, llmVars>>
    \/ /\ part = "Normalizer" /\ N!Next
       /\ UNCHANGED <<part, vars, validationVars, insightVars, connectionVars,
                      formatterVars, llmVars>>
    \/ /\ part = "Validation" /\ V!Next
       /\ UNCHANGED <<part, vars, normalizerVars, insightVars, connectionVars,
                      formatterVars, llmVars>>
    \/ /\ part = "Insight" /\ I!Next
       /\ UNCHANGED <<part, vars, normalizerVars, validationVars, connectionVars,
                      formatterVars, llmVars>>
    \/ /\ part = "Connections" /\ K!Next
       /\ UNCHANGED <<part, vars, normalizerVars, validationVars, insightVars,
                      formatterVars, llmVars>>
    \/ /\ part = "Formatter" /\ F!Next
       /\ UNCHANGED <<part, vars, normalizerVars, validationVars, insightVars,
                      connectionVars, llmVars>>
    \/ /\ part = "LlmClient" /\ L!Next
       /\ UNCHANGED <<part, vars, normalizerVars, validationVars, insightVars,
                      connectionVars, formatterVars>>

AllSpec == AllInit /\ [][AllNext]_allVars

-----------------------------------------------------------------------------
(* The properties of the formatting, under their names there                  *)

\* The stored SQL says what was run, but for what Plain leaves out.
PlainIsKept == part = "Formatter" => F!TypeOK /\ F!PlainIsKept

\* "SQL tokens are 100 % the same before and after formatting."
FormatKeepsTokens == part = "Formatter" => F!FormatKeepsTokens
=============================================================================
