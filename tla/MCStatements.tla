---------------------------- MODULE MCStatements ----------------------------
(***************************************************************************)
(* The statements that Formatter is tried on: what may stand in a select   *)
(* list, in a condition and at the end, each with each, with subqueries of *)
(* both kinds and comments in every place.                                 *)
(***************************************************************************)
EXTENDS Sequences

LOCAL Lf(kind, text) == [kind |-> kind, text |-> text, of |-> <<>>]
LOCAL Kw(t) == Lf("keyword", t)
LOCAL Wd(t) == Lf("word", t)
LOCAL Gp(kind, of) == [kind |-> kind, text |-> "", of |-> of]
LOCAL Comma == Lf("comma", ",")
LOCAL Remark == Lf("line", "--")

\* A subquery that is kept on a line, and one that is formatted.
LOCAL Simple == Gp("paren", <<Kw("SELECT"), Wd("m")>>)
LOCAL Complex == Gp("paren", <<Kw("SELECT"), Wd("m"), Kw("FROM"), Wd("u"), Kw("JOIN"), Wd("v")>>)
LOCAL Cases ==
    Gp("case", <<Kw("CASE"), Kw("WHEN"), Gp("comparison", <<Wd("x"), Wd(">"), Simple>>),
                 Kw("THEN"), Wd("1"), Kw("WHEN"), Wd("y"), Kw("THEN"), Complex,
                 Kw("ELSE"), Wd("2"), Kw("END")>>)

LOCAL Items ==
    {<<Gp("list", <<Wd("a"), Comma, Wd("b")>>)>>,
     <<Gp("ident", <<Cases, Kw("AS"), Wd("c")>>)>>,
     <<Gp("list", <<Wd("a"), Comma, Cases, Comma, Gp("ident", <<Simple, Kw("AS"), Wd("c")>>)>>)>>,
     <<Gp("function", <<Wd("max"), Gp("paren", <<Wd("a")>>)>>)>>,
     <<Lf("block", "/*"), Lf("literal", "'a  b'")>>,
     <<Lf("literal", "'a b'")>>}
LOCAL Remarked ==
    {i \o <<Remark>> : i \in Items} \cup
    {<<Gp("list", <<Wd("a"), Comma, Remark, Wd("b")>>)>>,
     <<Gp("ident", <<Wd("a"), Remark>>)>>, <<Remark, Wd("a")>>}

LOCAL Sides ==
    {Wd("a"), Gp("operation", <<Wd("a"), Wd("+"), Wd("b")>>), Simple, Complex}
LOCAL Comparison(l, r) == Gp("comparison", <<l, Wd("="), r>>)
LOCAL Conditions ==
    {<<Comparison(l, r)>> : l \in Sides, r \in Sides} \cup
    {<<Wd("a"), Kw("BETWEEN"), Wd("1"), Kw("AND"), Wd("2"), Kw("AND"), Wd("b")>>,
     <<Gp("paren", <<Wd("a"), Kw("OR"), Comparison(Wd("b"), Wd("c"))>>)>>}
LOCAL Ends ==
    {<<>>, <<Kw("UNION"), Kw("SELECT"), Wd("z")>>, <<Kw("UNION"), Complex>>,
     <<Kw("UNION"), Kw("DISTINCT"), Kw("SELECT"), Wd("z")>>,
     <<Kw("ORDER BY"), Gp("list", <<Wd("a"), Comma, Gp("ident", <<Wd("b"), Kw("DESC")>>)>>)>>,
     <<Kw("START"), Kw("WITH"), Wd("z"), Lf("semicolon", ";"), Wd("y")>>}

LOCAL Select(i, c, e) ==
    <<Kw("SELECT")>> \o i \o <<Kw("FROM"), Wd("t"), Gp("group", <<Kw("WHERE")>> \o c)>> \o e
LOCAL Around ==
    {<<Kw("WITH"), Gp("ident", <<Wd("w"), Kw("AS"), Gp("paren", <<Kw("SELECT")>> \o i)>>),
       Kw("SELECT"), Wd("a")>> : i \in Items} \cup
    {<<Gp("group", <<Kw("BEGIN"), Kw("SELECT")>> \o i \o <<Kw("END")>>), Kw("END")>> : i \in Items}

AllStatements ==
    {Select(i, c, e) : i \in Items \cup Remarked, c \in Conditions, e \in Ends} \cup Around

\* The ones with a formatted subquery on the left of a comparison with a name.
SubqueryFirst ==
    {Select(<<Wd("a")>>, <<Comparison(Complex, Wd("b"))>>, <<>>)}
=============================================================================
