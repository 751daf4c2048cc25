-------------------------------- MODULE Tools --------------------------------
(***************************************************************************)
(* The tools of the reason layer that read the catalogue in MongoDB and    *)
(* the columns of a business database (agents/nodes/reason/tools.py and    *)
(* connectors/impl/mongo_connector.py): what a page of a search holds, and *)
(* what the LLM is told of a column.  Pages are asked for by the LLM, in   *)
(* any order and again; each is a query of its own.                        *)
(*                                                                         *)
(* Documents and values are numbers in the order of their _id and their    *)
(* SQL order.  The vector searches are Retrieval; which tool is called,    *)
(* and what is made of its result, is Knowledge.                           *)
(***************************************************************************)
EXTENDS Naturals, Sequences, SequencesExt

CONSTANTS
    Words, Short,      \* keywords; the short ones have a single letter
    Kinds,             \* what a document may be: [words, name, joined]
    MaxDocs,           \* bound: documents of a collection
    MaxValue, Hits,    \* the values of a column, and those that contain the keyword
    MaxRows,           \* bound: rows of a table
    Size,              \* mongo_table_meta_size and its like; limit of get_column_values
    MaxPage,           \* _MAX_PAGE
    DateLimit,         \* limit of get_date_distribution
    Recent             \* how many recent values _run_step takes

VARIABLES
    search,  \* [tool, words] of the searches that are made
    store,   \* the documents of the collection
    column,  \* [dialect, rows] of the table; 0 stands for NULL
    pages,   \* page -> the rows that were returned for it, the last time it was read
    facts,   \* what the other tools said of the column
    kept     \* what the table keeps of it, or what a restored turn has under a name:
             \* [values, dates, recent, profile, restored]

vars == <<search, store, column, pages, facts, kept>>

MongoTools == {"lookup_table_meta", "search_table_meta", "lookup_code_meta", "search_biz_terms"}
Searches ==
    [tool : {"search_table_meta", "search_biz_terms"},
     words : {w \in SUBSET Words : w # {} /\ (w \subseteq Short => \E s \in w : w = {s})}]
    \cup [tool : {"lookup_table_meta", "lookup_code_meta"}, words : {{w} : w \in Words}]
    \cup [tool : {"get_column_values"}, words : {{}}]

SeqsUpTo(S, n) == UNION {[1 .. m -> S] : m \in 0 .. n}

NoFacts == [dates |-> <<>>, recent |-> <<>>, profile |-> <<>>]

Init ==
    /\ search \in Searches
    /\ IF search.tool \in MongoTools
       THEN store \in SeqsUpTo(Kinds, MaxDocs) /\ column = [dialect |-> "hive", rows |-> <<>>]
       ELSE /\ store = <<>>
            /\ column \in [dialect : {"tsql", "hive", "postgres"}, rows : SeqsUpTo(0 .. MaxValue, MaxRows)]
    /\ pages = <<>> /\ facts = NoFacts
    /\ kept = [dates |-> <<>>, recent |-> <<>>, profile |-> <<>>, values |-> <<>>, restored |-> 0]

-----------------------------------------------------------------------------
(* The catalogue                                                            *)

\* _extract_page: 0 stands for no page, or one that is no number.
PageOf(arg) == IF arg = 0 THEN 1 ELSE Min({arg, MaxPage})

\* _split_keywords: words of one letter are left out, unless there is no other.
Keywords == IF search.words \ Short = {} THEN search.words ELSE search.words \ Short

\* _build_keyword_score_stages: one point for each keyword, if there are several.
Score(doc) == IF Cardinality(Keywords) > 1 THEN Cardinality(doc.words \cap Keywords) ELSE 0

\* The $match of each search; the one of the codes is empty, for no caller gives
\* the names of codes.
Matches(doc) ==
    CASE search.tool = "lookup_table_meta" -> doc.name \in search.words
      [] search.tool = "lookup_code_meta" -> TRUE
      [] OTHER -> doc.words \cap Keywords # {}
Matching == {i \in DOMAIN store : Matches(store[i])}

\* $sort: by score and _id, or by _id.
Before(i, j) ==
    IF search.tool = "search_table_meta" /\ Score(store[i]) # Score(store[j])
    THEN Score(store[i]) > Score(store[j]) ELSE i < j
Ranked == SetToSortSeq(Matching, Before)

\* $lookup and $unwind: a term comes once for every table that it is joined with,
\* or once without; nothing orders the rows of one term.
RowsOf(i, reversed) ==
    IF search.tool # "search_biz_terms" \/ store[i].joined < 2 THEN <<<<i, 1>>>>
    ELSE LET rows == [k \in 1 .. store[i].joined |-> <<i, k>>]
         IN IF reversed THEN Reverse(rows) ELSE rows
AllRows(reversed) == FlattenSeq([n \in DOMAIN Ranked |-> RowsOf(Ranked[n], reversed)])

-----------------------------------------------------------------------------
(* The columns                                                              *)

Distinct == ToSet(column.rows)
NotNull == Distinct \ {0}
Ascending(S) == SetToSortSeq(S, <)

\* ORDER BY: Hive and SQL Anywhere put NULL first, PostgreSQL last.
SqlOrder ==
    LET null == IF 0 \in Distinct THEN <<0>> ELSE <<>>
    IN IF column.dialect = "postgres" THEN Ascending(NotNull) \o null ELSE null \o Ascending(NotNull)

Slice(s, from, n) == SubSeq(s, from, Min({from + n - 1, Len(s)}))

\* get_column_values: DISTINCT TOP n START AT m, or LIMIT n OFFSET m.
ValuesPage(page) ==
    LET values == Ascending(NotNull \cap Hits)
        offset == (page - 1) * Size
    IN IF column.dialect = "tsql" THEN Slice(values, offset + 1, Size)
       ELSE SubSeq(values, offset + 1, Min({offset + Size, Len(values)}))

\* get_date_distribution returns the first dates; _run_step takes the most recent
\* of those.  A NULL has become "None", which is greater than any date.
AsText(v) == IF v = 0 THEN MaxValue + 1 ELSE v
Dates == Slice(SqlOrder, 1, DateLimit)
Latest(dates) == Slice(SetToSortSeq(ToSet(dates), LAMBDA v, w : AsText(v) > AsText(w)), 1, Recent)

\* get_column_profile
Profile ==
    LET nonNull == Len(SelectSeq(column.rows, LAMBDA v : v # 0))
    IN [total |-> Len(column.rows), nulls |-> Len(column.rows) - nonNull,
        distinct |-> Cardinality(NotNull),
        min |-> IF NotNull = {} THEN 0 ELSE Min(NotNull),
        max |-> IF NotNull = {} THEN 0 ELSE Max(NotNull)]

-----------------------------------------------------------------------------
(* execute_tool                                                             *)

\* search_table_meta, search_code_meta, search_biz_terms
SearchPage(arg) ==
    /\ search.tool \in MongoTools
    /\ LET page == IF search.tool = "lookup_table_meta" THEN 1 ELSE PageOf(arg)
           from == (page - 1) * Size + 1
       IN \E reversed \in BOOLEAN :
            pages' = [p \in DOMAIN pages \cup {page} |->
                        IF p = page THEN Slice(AllRows(reversed), from, Size) ELSE pages[p]]
    /\ UNCHANGED <<search, store, column, facts, kept>>

GetColumnValues(arg) ==
    /\ search.tool = "get_column_values"
    /\ LET page == PageOf(arg)
           rows == [n \in DOMAIN ValuesPage(page) |-> <<ValuesPage(page)[n], 1>>]
       IN pages' = [p \in DOMAIN pages \cup {page} |-> IF p = page THEN rows ELSE pages[p]]
    /\ UNCHANGED <<search, store, column, facts, kept>>

GetDateDistribution ==
    /\ search.tool = "get_column_values"
    /\ facts' = [facts EXCEPT !.dates = Dates, !.recent = Latest(Dates)]
    /\ UNCHANGED <<search, store, column, pages, kept>>

GetColumnProfile ==
    /\ search.tool = "get_column_values"
    /\ facts' = [facts EXCEPT !.profile = Profile]
    /\ UNCHANGED <<search, store, column, pages, kept>>

-----------------------------------------------------------------------------
(* _apply_observation_data                                                  *)

\* After every batch all steps that are done are applied again, those of earlier
\* batches too: values are added, a profile is replaced, and of the dates of a
\* column the first ones stay.
AddedAll(values, rows) ==
    LET new == SelectSeq(rows, LAMBDA row : row[1] \notin ToSet(values))
    IN values \o [n \in DOMAIN new |-> new[n][1]]
Observe ==
    /\ search.tool = "get_column_values"
    /\ \E order \in SetToSeqs(DOMAIN pages) :
        LET read == FlattenSeq([n \in DOMAIN order |-> pages[order[n]]])
            first == kept.dates = <<>>
        IN kept' = [values  |-> AddedAll(kept.values, read),
                    dates   |-> IF first THEN facts.dates ELSE kept.dates,
                    recent  |-> IF first THEN facts.recent ELSE kept.recent,
                    profile |-> IF facts.profile # <<>> THEN facts.profile ELSE kept.profile,
                    restored |-> 0]
    /\ UNCHANGED <<search, store, column, pages, facts>>

\* _fanout_mongo_lookups restores a table or the codes of a column from the first
\* document that its lookup returns; without one, or when it fails, it has none.
Restore ==
    /\ search.tool \in {"lookup_table_meta", "lookup_code_meta"} /\ Matching # {}
    /\ kept' = [kept EXCEPT !.restored = AllRows(FALSE)[1][1]]
    /\ UNCHANGED <<search, store, column, pages, facts>>

Next ==
    \/ Observe \/ Restore
    \/ \E arg \in 0 .. MaxPage + 1 : SearchPage(arg) \/ GetColumnValues(arg)
    \/ GetDateDistribution \/ GetColumnProfile

Spec == Init /\ [][Next]_vars

-----------------------------------------------------------------------------
(* Properties                                                               *)

\* What a search is to find, each with the score that it is to be found by.
Wanted == IF search.tool = "get_column_values" THEN NotNull \cap Hits ELSE Matching
FoundOn(p) == {row[1] : row \in ToSet(pages[p])}
Found == UNION {FoundOn(p) : p \in DOMAIN pages}
Better(i, j) == search.tool \in MongoTools /\ Score(store[i]) > Score(store[j])

\* In whatever order they are read, the pages of a search are parts of one list,
\* the best first: nothing that fits less comes on an earlier page, and nothing
\* twice but the rows of one term; who reads until a page is not full has seen all.
PagesAreParts ==
    /\ Found \subseteq Wanted
    /\ \A p \in DOMAIN pages, q \in DOMAIN pages : p < q =>
        /\ search.tool = "search_table_meta" =>
                \A i \in FoundOn(p), j \in FoundOn(q) : ~Better(j, i)
        /\ search.tool # "search_biz_terms" => FoundOn(p) \cap FoundOn(q) = {}
        /\ \A i \in FoundOn(p) \cap FoundOn(q) : store[i].joined > 1
    /\ \A n \in DOMAIN pages :
        1 .. n \subseteq DOMAIN pages /\ Len(pages[n]) < Size => Found = Wanted

\* The dates that the LLM is told are dates of the column, the first of them its
\* first one; where they are all of them, the recent ones are the latest.
DatesAreOfColumn ==
    LET told == ToSet(facts.dates) IN
    /\ told \subseteq Distinct /\ ToSet(facts.recent) \subseteq told
    /\ told # {} /\ told # {0} => Min(told \ {0}) = Min(NotNull)
    /\ Len(facts.dates) \in 1 .. DateLimit - 1 => told = Distinct
    /\ told # {} /\ told = NotNull => Max(NotNull) \in ToSet(facts.recent)

\* The table keeps every value once, and only what the column has, and a table is
\* restored under its own name: the SQL is written from what is kept.
KeptIsOfColumn ==
    /\ search.tool = "lookup_table_meta" /\ kept.restored # 0 => store[kept.restored].name \in search.words
    /\ IsInjective(kept.values) /\ ToSet(kept.values) \subseteq Wanted
    /\ ToSet(kept.recent) \subseteq ToSet(kept.dates)

ToolsHold == PagesAreParts /\ DatesAreOfColumn /\ KeptIsOfColumn

\* lookup_code_meta is to look up the codes of a column by its name: those that are
\* found, and those that a restored turn has for the column, are of this column.
CodesAreOfColumn ==
    search.tool = "lookup_code_meta" =>
        /\ \A i \in Found : store[i].name \in search.words
        /\ kept.restored # 0 => store[kept.restored].name \in search.words

TypeOK ==
    /\ search \in Searches /\ DOMAIN pages \subseteq 1 .. MaxPage
    /\ \A p \in DOMAIN pages : Len(pages[p]) <= Size
    /\ Len(facts.dates) <= DateLimit /\ Len(facts.recent) <= Recent
=============================================================================
