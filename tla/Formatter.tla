----------------------------- MODULE Formatter -----------------------------
(***************************************************************************)
(* format_sql_tabular, as far as it decides which tokens of a statement    *)
(* are put out, in which order and what stands between them.  It is more   *)
(* than display: the runner stores the formatted text as the SQL that was  *)
(* run, and snapshots are restored from what is stored.                    *)
(*                                                                         *)
(* A statement is the sequence of nodes that sqlparse makes of it.  A node *)
(* is a leaf with a text, or a group with the nodes `of' it; white space   *)
(* is no node.  Widths and indentation are left out.                       *)
(***************************************************************************)
EXTENDS Naturals, Sequences, SequencesExt

CONSTANTS
    Parsed,    \* the statements
    MaxDepth,  \* _MAX_DEPTH: subqueries deeper than this are not formatted
    SeekDepth  \* how deep _parenthesis_has_select looks

VARIABLES
    pc,         \* "executed" or "stored"
    statement,  \* validated_sql, as it was run
    stored      \* the column executed_sql: tokens, each with the gap in front of it

vars == <<pc, statement, stored>>

Leaves == {"keyword", "word", "literal", "comma", "semicolon", "line", "block"}
Groups == {"paren", "list", "ident", "comparison", "function", "operation", "case", "group"}
Comments == {"line", "block"}  \* "-- ..." and "/* ... */"
Gaps == {"", "space", "line"}

TypeOK ==
    /\ pc \in {"executed", "stored"} /\ statement \in Parsed
    /\ \A i \in DOMAIN stored : stored[i].gap \in Gaps

Leaf(kind, text) == [kind |-> kind, text |-> text, of |-> <<>>]
Group(kind, of) == [kind |-> kind, text |-> "", of |-> of]

Open == Leaf("word", "(")
Close == Leaf("word", ")")

RECURSIVE Flat(_)
\* The leaves of a node.
Flat(n) ==
    IF n.kind \in Leaves THEN <<n>>
    ELSE LET inner == FoldLeft(LAMBDA s, m : s \o Flat(m), <<>>, n.of)
         IN  IF n.kind = "paren" THEN <<Open>> \o inner \o <<Close>> ELSE inner

FlatAll(nodes) == FoldLeft(LAMBDA s, m : s \o Flat(m), <<>>, nodes)

-----------------------------------------------------------------------------
(* Keywords                                                                 *)

Clauses == {"SELECT", "FROM", "WHERE", "GROUP BY", "ORDER BY", "HAVING", "WITH",
            "START WITH", "INSERT INTO"}
Joins == {"JOIN"}
SetOps == {"UNION", "MINUS"}
Logical == {"AND", "OR"}
Heads == {"START", "INSERT"}

\* _classify_keyword; a clause, JOIN, ON, AND or OR begins a line of its own.
Classify(text) ==
    CASE text \in Clauses -> "clause"
      [] text \in Joins \cup Logical \cup {"ON"} -> "line"
      [] text \in SetOps -> "setop"
      [] text = "BEGIN" -> "begin"
      [] text = "CASE" -> "case"
      [] text = "END" -> "end"
      [] OTHER -> "other"

IsKeyword(n) == n.kind = "keyword"

\* _find_between_and: the AND of BETWEEN is the first one after it, unless a
\* clause, JOIN or set operator comes between.
BetweenAnds(nodes) ==
    {j \in DOMAIN nodes :
        /\ IsKeyword(nodes[j]) /\ nodes[j].text = "AND"
        /\ \E i \in 1..j - 1 :
             /\ IsKeyword(nodes[i]) /\ nodes[i].text = "BETWEEN"
             /\ \A k \in i + 1..j - 1 :
                  IsKeyword(nodes[k]) =>
                      nodes[k].text \notin Clauses \cup Joins \cup SetOps \cup {"AND"}}

\* _resolve_dml_compound: sqlparse splits INSERT INTO and START WITH in two.
IsCompound(nodes, i) ==
    /\ nodes[i].text \in Heads /\ i < Len(nodes) /\ IsKeyword(nodes[i + 1])
    /\ nodes[i].text \o " " \o nodes[i + 1].text \in Clauses

-----------------------------------------------------------------------------
(* The output: what is put out, the gap after it, a blank or a line that is *)
(* due, blocks that are open, the clause we are in                          *)

Start == [out |-> <<>>, gap |-> "", space |-> FALSE, comma |-> FALSE,
          origins |-> <<>>, clause |-> "", depth |-> 0, skip |-> FALSE]

\* emit
Emit(c, n) ==
    [c EXCEPT !.out = Append(@, [kind |-> n.kind, text |-> n.text, gap |-> c.gap]),
              !.gap = "", !.space = FALSE]
EmitSpace(c) == [c EXCEPT !.space = TRUE]
FlushSpace(c) ==
    IF c.space THEN [c EXCEPT !.gap = IF @ = "" THEN "space" ELSE @, !.space = FALSE] ELSE c
NewLine(c) == [c EXCEPT !.gap = "line", !.space = FALSE]
Blank(c) == [c EXCEPT !.gap = IF @ = "" THEN "space" ELSE @]

\* _flush_comma_newline
FlushComma(c) == IF c.comma THEN [NewLine(c) EXCEPT !.comma = FALSE] ELSE c

Inline(c, n) == EmitSpace(Emit(FlushSpace(c), n))

\* Leaves with a blank between them, or the line break that ends a comment.
Joined(c, leaves, breaks) ==
    LET gap(i) == IF i = 1 THEN c.gap
                  ELSE IF breaks /\ leaves[i - 1].kind = "line" THEN "line" ELSE "space"
    IN  IF leaves = <<>> THEN c
        ELSE [c EXCEPT !.out = @ \o [i \in DOMAIN leaves |->
                            [kind |-> leaves[i].kind, text |-> leaves[i].text, gap |-> gap(i)]],
                       !.gap = "", !.space = FALSE]

\* _render_identifier_value: the text as it was written, every run of white space
\* made one blank, also the one that ends a comment.
Verbatim(c, nodes) == EmitSpace(Joined(FlushSpace(c), FlatAll(nodes), FALSE))

\* The text of a parenthesis that is no subquery, with its line breaks.
Raw(c, n) == EmitSpace(Joined(FlushSpace(c), Flat(n), TRUE))

-----------------------------------------------------------------------------
(* Questions about a node                                                   *)

RECURSIVE HasSelectWithin(_, _)
HasSelectWithin(nodes, depth) ==
    depth > 0 /\ \E i \in DOMAIN nodes :
        \/ IsKeyword(nodes[i]) /\ nodes[i].text \in {"SELECT", "WITH"}
        \/ HasSelectWithin(nodes[i].of, depth - 1)

IsSubquery(n) == n.kind = "paren" /\ HasSelectWithin(n.of, SeekDepth)

\* _identifier_needs_recursion and _comparison_has_subquery
Subqueries(n) == {i \in DOMAIN n.of : IsSubquery(n.of[i])}
NeedsRecursion(n) ==
    n.kind = "ident" /\ (Subqueries(n) # {} \/ \E i \in DOMAIN n.of : n.of[i].kind = "case")
ComparesSubquery(n) == n.kind = "comparison" /\ Subqueries(n) # {}

\* _is_simple_list: names only; a comment has a sign that an expression may have.
IsSimpleList(n) ==
    \A i \in DOMAIN FlatAll(n.of) : FlatAll(n.of)[i].kind \in {"keyword", "word", "comma"}
                                   /\ FlatAll(n.of)[i] \notin {Open, Close}

\* _is_simple_subquery: neither JOIN nor more clauses than SELECT, FROM and WHERE,
\* and no AND or OR but that of BETWEEN (keywords between blanks).
IsSimpleSubquery(n) ==
    LET words == FlatAll(n.of)
        count(S) == Len(SelectSeq(words, LAMBDA m : IsKeyword(m) /\ m.text \in S))
    IN  /\ count(Joins \cup SetOps \cup {"GROUP BY", "ORDER BY", "HAVING"}) = 0
        /\ count({"AND"}) + count({"OR"}) <= count({"BETWEEN"})

-----------------------------------------------------------------------------
(* Rendering                                                                *)

\* _emit_clause and _emit_join_like; a keyword that was split is two leaves.
LineKeyword(c, leaves) == Blank(Joined(NewLine([c EXCEPT !.comma = FALSE]), leaves, FALSE))

\* _dispatch_keyword
DispatchKeyword(c, kind, text, leaves) ==
    LET n == leaves[1] IN
    CASE kind = "clause" -> [LineKeyword(c, leaves) EXCEPT !.clause = text]
      [] kind = "line" -> LineKeyword(c, leaves)
      [] kind = "setop" -> Emit(NewLine([c EXCEPT !.comma = FALSE]), n)
      [] kind = "begin" -> [Emit(NewLine(c), n) EXCEPT !.comma = TRUE]
      [] kind = "block end" -> EmitSpace(Emit(NewLine([c EXCEPT !.comma = FALSE]), n))
      [] OTHER -> Inline(FlushComma(c), n)

\* _handle_keyword: an END belongs to the BEGIN or CASE that was opened last.
HandleKeyword(c, nodes, i) ==
    LET compound == IsCompound(nodes, i)
        leaves == SubSeq(nodes, i, IF compound THEN i + 1 ELSE i)
        text == IF compound THEN nodes[i].text \o " " \o nodes[i + 1].text ELSE nodes[i].text
        kind == Classify(text)
        endsBlock == kind = "end" /\ c.origins # <<>> /\ Last(c.origins) = "BEGIN"
        opened == IF kind \in {"begin", "case"} THEN Append(c.origins, text)
                  ELSE IF kind = "end" /\ c.origins # <<>> THEN Front(c.origins)
                  ELSE c.origins
    IN  DispatchKeyword([c EXCEPT !.origins = opened, !.skip = compound],
            IF endsBlock THEN "block end"
            ELSE IF i \in BetweenAnds(nodes) THEN "other" ELSE kind, text, leaves)

\* A comment stays on its line; a line that is due after a comma stays due.
HandleComment(c, n) ==
    IF c.comma THEN Emit(Blank(c), n) ELSE Inline(c, n)

\* _handle_punctuation
HandlePunctuation(c, n) == [Emit([c EXCEPT !.space = FALSE], n) EXCEPT !.comma = TRUE]

\* _render_inline_list: the names on one line, the commas put back between them.
InlineList(c, n) == Verbatim(c, n.of)

ComparisonLeft_NamesOnly(c, nodes) ==
    FoldLeft(LAMBDA d, m :
        IF m.kind \in {"ident", "function", "word"} /\ m.text # "="
        THEN Verbatim(d, <<m>>) ELSE d, c, nodes)

\* _emit_comparison_left: names, functions and leaves; any other group has no type
\* that it looks for.
ComparisonLeft(c, nodes) ==
    FoldLeft(LAMBDA d, m :
        IF m.kind \in {"ident", "function"} \cup (Leaves \ {"line"})
        THEN Verbatim(d, <<m>>) ELSE d, c, nodes)

RECURSIVE RenderTokenList(_, _), RenderGroup(_, _)

\* _render_comparison_subquery: what stands before the first subquery, then the
\* subquery, formatted by itself and closed on its last line.
RenderComparison(c, n) ==
    LET i == CHOOSE k \in Subqueries(n) : \A l \in Subqueries(n) : k <= l
        inner == RenderTokenList(Start, n.of[i].of).out
        opened == Emit(FlushSpace(ComparisonLeft(c, SubSeq(n.of, 1, i - 1))), Open)
    IN  IF IsSimpleSubquery(n.of[i]) THEN Verbatim(c, n.of)
        ELSE EmitSpace(Emit([opened EXCEPT
                 !.out = @ \o [k \in DOMAIN inner |->
                                 IF k = 1 THEN [inner[k] EXCEPT !.gap = ""] ELSE inner[k]]],
                 Close))

\* _render_parenthesis
RenderParenthesis(c, n) ==
    IF ~IsSubquery(n) \/ c.depth >= MaxDepth THEN Raw(c, n)
    ELSE LET opened == Emit(FlushSpace(c), Open)
             inner == RenderTokenList([opened EXCEPT !.depth = @ + 1], n.of)
         IN  EmitSpace(Emit(NewLine([inner EXCEPT !.depth = c.depth]), Close))

\* _render_case_node
CaseToken(c, n, first) ==
    CASE n.text = "CASE" -> Blank(Emit(FlushSpace(c), n))
      [] n.text = "WHEN" /\ first -> Blank(Emit(c, n))
      [] n.text \in {"WHEN", "ELSE"} /\ ~first -> Blank(Emit(NewLine(c), n))
      [] n.text = "THEN" -> Blank(Emit(Blank(c), n))
      [] n.text = "END" -> EmitSpace(Emit(NewLine(c), n))
      [] OTHER -> Inline(c, n)
RenderCase(c, n) ==
    FoldLeftDomain(LAMBDA d, i :
        LET m == n.of[i]
        IN  IF IsKeyword(m)
            THEN CaseToken(d, m, m.text = "WHEN" /\ \A k \in 1..i - 1 : n.of[k].text # "WHEN")
            ELSE IF ComparesSubquery(m) THEN RenderComparison(d, m)
            ELSE IF m.kind \in {"ident", "comparison"} THEN Verbatim(d, m.of)
            ELSE IF m.kind \in Groups THEN RenderGroup(FlushSpace(d), m)
            ELSE Inline(d, m), c, n.of)

RenderGroup(c, n) ==
    CASE n.kind = "case" -> RenderCase(c, n)
      [] n.kind = "paren" -> RenderParenthesis(c, n)
      [] n.kind = "list" /\ c.clause \in {"GROUP BY", "ORDER BY"} /\ IsSimpleList(n) ->
            InlineList(c, n)
      [] ComparesSubquery(n) -> RenderComparison(c, n)
      [] n.kind \in {"ident", "comparison", "function"} /\ ~NeedsRecursion(n)
         /\ ~ComparesSubquery(n) ->
            Verbatim(c, n.of)
      [] OTHER -> RenderTokenList(c, n.of)

RenderToken(c, nodes, i) ==
    LET n == nodes[i]
    IN  IF c.skip THEN [c EXCEPT !.skip = FALSE]
        ELSE CASE n.kind \in Comments -> HandleComment(c, n)
               [] n.kind \in {"comma", "semicolon"} -> HandlePunctuation(c, n)
               [] IsKeyword(n) -> HandleKeyword(c, nodes, i)
               [] n.kind \in Groups -> RenderGroup(FlushComma(c), n)
               [] OTHER -> Inline(FlushComma(c), n)

RenderTokenList(c, nodes) ==
    FoldLeftDomain(LAMBDA d, i : RenderToken(d, nodes, i), c, nodes)

\* _post_process makes every run of blanks one blank, within literals too.
PostProcess(out) ==
    [i \in DOMAIN out |->
        IF out[i].kind = "literal" THEN [out[i] EXCEPT !.text = "'a b'"] ELSE out[i]]

Format(nodes) == PostProcess(RenderTokenList(Start, nodes).out)

-----------------------------------------------------------------------------
(* What a database reads, and the way of a statement                        *)

IsWord(n) == n.kind \in {"keyword", "word", "literal"} /\ n.text \notin {"(", ")"}

\* The tokens that are read: what follows "--" on its line is not, and two words
\* without a gap are one that nobody wrote.
Reads(out) ==
    LET hidden(i) == \E j \in 1..i - 1 :
                        out[j].kind = "line" /\ \A k \in j + 1..i : out[k].gap # "line"
        glued(i) == i > 1 /\ out[i].gap = "" /\ IsWord(out[i - 1]) /\ IsWord(out[i])
        read == SelectSeq([i \in DOMAIN out |-> i],
                          LAMBDA i : out[i].kind \notin Comments /\ ~hidden(i))
    IN  [k \in DOMAIN read |-> IF glued(read[k]) THEN "glued" ELSE out[read[k]].text]

\* What the statement said: its leaves without comments.
Meaning(nodes) ==
    LET leaves == SelectSeq(FlatAll(nodes), LAMBDA m : m.kind \notin Comments)
    IN  [i \in DOMAIN leaves |-> leaves[i].text]

Init == pc = "executed" /\ statement \in Parsed /\ stored = <<>>

\* run_pipeline stores the formatted text; formatting that raises gives the text
\* as it was.
Store ==
    /\ pc = "executed" /\ pc' = "stored"
    /\ stored' \in {Format(statement), Joined(Start, FlatAll(statement), TRUE).out}
    /\ UNCHANGED statement

Over == pc = "stored" /\ UNCHANGED vars

Next == Store \/ Over

Spec == Init /\ [][Next]_vars

-----------------------------------------------------------------------------
(* Properties                                                               *)

\* "SQL tokens are 100 % the same before and after formatting", as the tests of the
\* formatter say of the statements they try, and so the column executed_sql is "the
\* SQL that was validated and run", as its comment says.
FormatKeepsTokens == pc # "executed" => Reads(stored) = Meaning(statement)

RECURSIVE Plain(_)
\* Statements without what the formatter does not keep: comments that end with
\* their line, blanks in a literal, a comparison that goes on after its subquery or
\* has an expression before it, and ALL or DISTINCT apart from its set operator.
Plain(nodes) ==
    \A i \in DOMAIN nodes :
        LET n == nodes[i]
        IN  /\ n.kind # "line" /\ n.text # "'a  b'"
            /\ IsKeyword(n) /\ n.text \in SetOps =>
                   i < Len(nodes) /\ (nodes[i + 1].kind = "paren" \/
                                      Classify(nodes[i + 1].text) = "clause")
            /\ ComparesSubquery(n) =>
                   /\ Subqueries(n) = {Len(n.of)}
                   /\ \A k \in 1..Len(n.of) - 1 : n.of[k].kind \in {"ident", "function"} \cup Leaves
            /\ Plain(n.of)

\* Of every other statement each token is kept, in its order, however subqueries,
\* cases, lists and blocks stand in each other.
PlainIsKept == pc # "executed" /\ Plain(statement) => Reads(stored) = Meaning(statement)

=============================================================================
