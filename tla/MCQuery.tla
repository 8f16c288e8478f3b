------------------------------ MODULE MCQuery ------------------------------
(***************************************************************************)
(* Query on a small schema.                                                *)
(***************************************************************************)
EXTENDS Query, FiniteSetsExt

CONSTANTS Tokens, MaxLength     \* the formulas: all sequences of tokens so long

-----------------------------------------------------------------------------
(* Worlds.                                                                  *)

Dimension(column, lookup, reserved, asked) ==
    [druid |-> column, lookup |-> lookup, reserved |-> reserved, accessQuery |-> asked]

Metric(column, formula) == [druid |-> column, formula |-> formula, reserved |-> FALSE]

\* "lang" shows the values of column c through a lookup that merges two values.
Merged == [v \in {"v1", "v2"} |-> "w"]

SumOf(field) == <<"sum", "(", field, ")">>
SumOfA == SumOf("a")

\* A second datasource has an access query for a dimension the first one has,
\* and for one that it does not have.
SchemaWith(formula) ==
    [report |->
        [dimensions |-> [country |-> Dimension("c", NoField, FALSE, TRUE),
                         lang |-> Dimension("c", Merged, FALSE, FALSE),
                         browser |-> Dimension("b", NoField, TRUE, TRUE)],
         metrics |-> [a |-> Metric("a", NoField), b |-> Metric("b", NoField),
                      m |-> Metric(NoField, formula),
                      sum_a |-> Metric("s", NoField), n |-> Metric(NoField, SumOfA)]],
     other |->
        [dimensions |-> [country |-> Dimension("c", NoField, FALSE, TRUE),
                         site |-> Dimension("s", NoField, FALSE, TRUE)],
         metrics |-> [a |-> Metric("a", NoField)]]]

Call0 == [user |-> "alice", admin |-> FALSE, datasource |-> "report", dims |-> <<"time">>,
          metrics |-> <<"a">>, filters |-> {}, filtersAreArray |-> TRUE]

World(b, formulas, p) == [backend |-> b, formulas |-> formulas, payload |-> p]

McWords == Tokens \cup Punctuation \cup {"a", "b", "x", "1", "sum", BadToken}

\* All short formulas, and longer ones with every choice of operators.
Formulas ==
    UNION {[1 .. n -> Tokens] : n \in 1 .. MaxLength}
      \cup [1 .. 3 -> {"a", "+", BadToken}]
      \cup {<<"sum", "(", f, "(", "a", ")", ")">> : f \in {"x", "+"}}
      \cup {<<"a", o[1], "1", o[2], "b", o[3], "1">> : o \in [1 .. 3 -> Operators]}
      \cup {<<"(", "a", o[1], "b", ")", o[2], "a">> : o \in [1 .. 2 -> Operators]}
      \cup {<<"a", o[1], "(", "1", o[2], "b", ")", o[3], "1">> : o \in [1 .. 3 -> Operators]}
      \cup {SumOf("a") \o <<o[1]>> \o SumOf("b") \o <<o[2], "1">> : o \in [1 .. 2 -> Operators]}

\* Every formula, asked for alone and with a metric whose name its sum has.
FormulaWorlds ==
    {World("file", Formulas, [Call0 EXCEPT !.admin = TRUE, !.metrics = ms]) :
        ms \in {<<"m">>, <<"n", "a", "m", "n">>, <<"sum_a", "m">>}}

UserFilters ==
    {Filter(d, vs) : d \in {"country", "lang", "nowhere"}, vs \in {{"v1"}, {"v2", "w"}}}

\* Every call with up to two filters, some with a formula.
CallWorlds ==
    {World(b, {SumOfA},
           [Call0 EXCEPT !.admin = adm, !.datasource = ds, !.dims = dims,
                         !.filters = fs, !.filtersAreArray = arr]) :
        b \in {"file", "db"}, adm \in BOOLEAN, ds \in {"report", "none"},
        dims \in {<<"time">>, <<"lang", "country">>, <<"browser">>, <<"nowhere">>},
        fs \in {{}} \cup kSubset(1, UserFilters) \cup kSubset(2, UserFilters),
        arr \in BOOLEAN}

McWorlds == FormulaWorlds \cup CallWorlds

\* Rights of alice: any of two values of country and browser, w of lang, site.
McAccesses ==
    {[alice |-> [report |-> [country |-> c, lang |-> l, browser |-> {}],
                 other |-> [country |-> oc, site |-> s]]] :
        c \in SUBSET {"v1", "v2"}, l \in {{}, {"w"}}, oc \in {{}, {"v1"}}, s \in {{}, {"v1"}}}

McRows == [{"c", "b", "s"} -> {"v1", "v2"}]
=============================================================================
