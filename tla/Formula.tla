------------------------------ MODULE Formula ------------------------------
(***************************************************************************)
(* The formula compiler (src/druid/formula.go): the recursive descent      *)
(* parser of custom metrics, the fields a formula needs and the Druid      *)
(* post-aggregation it becomes.                                            *)
(*                                                                         *)
(* A formula is a sequence of tokens: the characters of names and numbers  *)
(* play no part.  A token the lexer cannot form stands for itself as       *)
(* BadToken.  A node is a record as in FormulaNode: op "" for a leaf,      *)
(* "func" for a call, else one of the four operators.                      *)
(***************************************************************************)
EXTENDS Integers, Sequences, SequencesExt

CONSTANTS
    Words,          \* the tokens of formulas
    Numbers,        \* the tokens strconv.ParseFloat accepts
    BadToken,       \* a character no token may hold
    MaxTokens       \* bound: the tokens of the longest formula

Additive == {"+", "-"}
Multiplicative == {"*", "/"}
Operators == Additive \cup Multiplicative
Punctuation == Operators \cup {"(", ")"}

ASSUME TokensAssumption ==
    /\ MaxTokens \in Nat
    /\ Numbers \cap Punctuation = {}
    /\ BadToken \notin Punctuation

Leaf(tok) == [op |-> "", value |-> tok]
Call(fn, arg) == [op |-> "func", value |-> fn, left |-> arg]
Node(o, l, r) == [op |-> o, left |-> l, right |-> r]

\* The leaves, and the calls and operations over some nodes.
NodesOver(below) ==
    [op : {""}, value : Words]
      \cup [op : {"func"}, value : Words, left : below]
      \cup [op : Operators, left : below, right : below]

\* The nodes of height h and less: no formula is deeper than it is long.
Trees[h \in 0 .. MaxTokens] == IF h = 0 THEN {} ELSE NodesOver(Trees[h - 1])

Nodes == Trees[MaxTokens]

-----------------------------------------------------------------------------
(* The parser.  What is left of the tokens is known by where it begins: a   *)
(* parse is a node and the position of the next token.                      *)

Failure == [ok |-> FALSE]
Parsed(node, next) == [ok |-> TRUE, node |-> node, next |-> next]

At(ts, i, toks) == i <= Len(ts) /\ ts[i] \in toks

\* One turn of the loop of parseFormulaExpr or parseTerm, where operand[i] is
\* the parse of a term or factor that begins at i.
Turn(ts, ops, acc, operand) ==
    LET right == operand[acc.next + 1]
    IN IF ~acc.ok \/ ~At(ts, acc.next, ops) THEN acc
       ELSE IF ~right.ok THEN Failure
       ELSE Parsed(Node(ts[acc.next], acc.node, right.node), right.next)

\* The loop, from the parse of its first operand.  There are fewer turns than
\* tokens; a turn after the last one changes nothing.
Turns(ts, ops, first, operand) ==
    LET turn[k \in 0 .. Len(ts)] ==
            IF k = 0 THEN first ELSE Turn(ts, ops, turn[k - 1], operand)
    IN turn

Loop(ts, ops, first, operand) == Turns(ts, ops, first, operand)[Len(ts)]

\* A formula that was read inside parentheses needs the closing one.
Closed(ts, inner) == inner.ok /\ At(ts, inner.next, {")"})

\* parseFactor.  Any token that is neither "(" nor followed by "(" and one more
\* token is a leaf, operators and ")" included.
ParseFactor(ts, i, expr) ==
    LET call == ~At(ts, i, {"("}) /\ i + 2 <= Len(ts) /\ At(ts, i + 1, {"("})
        inner == expr[IF call THEN i + 2 ELSE i + 1]
    IN IF i > Len(ts) THEN Failure
       ELSE IF ~At(ts, i, {"("}) /\ ~call THEN Parsed(Leaf(ts[i]), i + 1)
       ELSE IF ~Closed(ts, inner) THEN Failure
       ELSE Parsed(IF call THEN Call(ts[i], inner.node) ELSE inner.node, inner.next + 1)

\* Seeded fault: the right operand of a sum is a whole expression.
ParseOnTheRight(ts, i, rule, parse) ==
    LET After(r) == [j \in i + 1 .. Len(ts) + 1 |-> parse[<<j, r>>]]
    IN IF rule = "factor" THEN ParseFactor(ts, i, After("expr"))
       ELSE IF rule = "term" THEN Loop(ts, Multiplicative, parse[<<i, "factor">>], After("factor"))
       ELSE Loop(ts, Additive, parse[<<i, "term">>], After("expr"))

\* parseFactor, parseTerm and parseFormulaExpr on the tokens from position i on.
ParseRule(ts, i, rule, parse) ==
    LET After(r) == [j \in i + 1 .. Len(ts) + 1 |-> parse[<<j, r>>]]
    IN IF rule = "factor" THEN ParseFactor(ts, i, After("expr"))
       ELSE IF rule = "term" THEN Loop(ts, Multiplicative, parse[<<i, "factor">>], After("factor"))
       ELSE Loop(ts, Additive, parse[<<i, "term">>], After("term"))

Parses(ts) ==
    LET parse[s \in (1 .. Len(ts) + 1) \X {"factor", "term", "expr"}] ==
            ParseRule(ts, s[1], s[2], parse)
    IN parse

\* Seeded fault: tokens after the expression are ignored.
Prefix(ts, p) == IF BadToken \notin ToSet(ts) /\ p.ok THEN p ELSE Failure

Whole(ts, p) ==
    IF BadToken \notin ToSet(ts) /\ p.ok /\ p.next = Len(ts) + 1 THEN p ELSE Failure

\* tokenizeFormula, then parseFormulaExpr up to the last token.
ParseFormula(ts) == Whole(ts, Parses(ts)[<<1, "expr">>])

-----------------------------------------------------------------------------
(* From the tree to Druid.                                                  *)

\* Seeded fault: the right operand is forgotten.
CollectLeftFields(tree) ==
    LET leaves[node \in Nodes] ==
            IF node.op = "" THEN (IF node.value \in Numbers THEN <<>> ELSE <<node.value>>)
            ELSE leaves[node.left]
    IN leaves[tree]

CollectLeafFields(tree) ==
    LET leaves[node \in Nodes] ==
            IF node.op = "" THEN (IF node.value \in Numbers THEN <<>> ELSE <<node.value>>)
            ELSE IF node.op = "func" THEN leaves[node.left]
            ELSE leaves[node.left] \o leaves[node.right]
    IN leaves[tree]

\* A call of anything but sum falls through to the arithmetic case, whose
\* right operand is a nil pointer.
Panics(tree) ==
    LET panics[node \in Nodes] ==
            IF node.op = "" THEN FALSE
            ELSE IF node.op = "func" THEN node.value # "sum"
            ELSE panics[node.left] \/ panics[node.right]
    IN panics[tree]

\* node.Left.Value: only a leaf and a call have one.
Value(node) == IF node.op \in {"", "func"} THEN node.value ELSE ""

SumName(f) == "sum_" \o f

\* Defined on the trees that do not panic.
NodeToDruidPostAgg(tree) ==
    LET agg[node \in Nodes] ==
            IF node.op = "" /\ node.value \in Numbers THEN [type |-> "constant"]
            ELSE IF node.op = "" THEN [type |-> "fieldAccess", fieldName |-> node.value]
            ELSE IF node.op = "func"
            THEN [type |-> "fieldAccess", fieldName |-> SumName(Value(node.left))]
            ELSE [type |-> "arithmetic", fn |-> node.op,
                  fields |-> <<agg[node.left], agg[node.right]>>]
    IN agg[tree]

Compiled(p) ==
    IF ~p.ok THEN [ok |-> FALSE]
    ELSE [ok |-> TRUE, leaves |-> CollectLeafFields(p.node), panics |-> Panics(p.node),
          postAgg |-> IF Panics(p.node) THEN <<>> ELSE <<NodeToDruidPostAgg(p.node)>>]

\* What BuildAggsAndPostAggs learns of a formula before it looks at the schema.
CompileFormula(ts) == Compiled(ParseFormula(ts))

-----------------------------------------------------------------------------
(* Reference: what a formula means, by where its last operator stands.      *)

IllFormed == [op |-> "ill-formed"]

\* The parentheses that are open after each token.
Depth(ts) ==
    LET depth[k \in 0 .. Len(ts)] ==
            IF k = 0 THEN 0
            ELSE IF ts[k] = "(" THEN depth[k - 1] + 1
            ELSE IF ts[k] = ")" THEN depth[k - 1] - 1
            ELSE depth[k - 1]
    IN depth

\* Where operators of ops stand outside of the parentheses of tokens i to j.
Outside(ts, i, j, ops) ==
    {k \in i .. j : ts[k] \in ops /\ Depth(ts)[k] = Depth(ts)[i - 1]}

Last1(S) == CHOOSE k \in S : \A j \in S : j <= k

Join(o, l, r) == IF IllFormed \in {l, r} THEN IllFormed ELSE Node(o, l, r)

\* Tokens i to j: the last additive operator outside of parentheses is the root;
\* without one, the last multiplicative operator; without one, it is a name, a
\* number, a formula in parentheses or a call.
Segment(ts, i, j, tree) ==
    LET sums == Outside(ts, i, j, Additive)
        products == Outside(ts, i, j, Multiplicative)
        Split(k) == Join(ts[k], tree[<<i, k - 1>>], tree[<<k + 1, j>>])
        name == ts[i] \notin Punctuation \cup {BadToken}
    IN IF j < i THEN IllFormed
       ELSE IF sums # {} THEN Split(Last1(sums))
       ELSE IF products # {} THEN Split(Last1(products))
       ELSE IF i = j THEN (IF name THEN Leaf(ts[i]) ELSE IllFormed)
       ELSE IF ts[j] # ")" THEN IllFormed
       ELSE IF ts[i] = "(" THEN tree[<<i + 1, j - 1>>]
       ELSE IF name /\ ts[i + 1] = "(" /\ tree[<<i + 2, j - 1>>] # IllFormed
       THEN Call(ts[i], tree[<<i + 2, j - 1>>])
       ELSE IllFormed

Segments(ts) ==
    LET tree[s \in (1 .. Len(ts) + 1) \X (0 .. Len(ts))] == Segment(ts, s[1], s[2], tree)
    IN tree

Tree(ts) == Segments(ts)[<<1, Len(ts)>>]

\* No operator or parenthesis is the name of a call.  The parser takes "+(a)" for
\* a call; outside of a sum such a call panics, inside of one nobody looks at it.
NamesCalls(tree) ==
    LET names[node \in Nodes] ==
            IF node.op = "" THEN TRUE
            ELSE IF node.op = "func" THEN node.value \notin Punctuation /\ names[node.left]
            ELSE names[node.left] /\ names[node.right]
    IN names[tree]

-----------------------------------------------------------------------------
(* Reference: what a post-aggregation reads.                                *)

FieldNames == Words \cup {SumName(f) : f \in Words \cup {""}}

PostAggsOver(below) ==
    [type : {"constant"}]
      \cup [type : {"fieldAccess"}, fieldName : FieldNames]
      \cup [type : {"arithmetic"}, fn : Operators, fields : below \X below]

PostAggs[h \in 0 .. MaxTokens] == IF h = 0 THEN {} ELSE PostAggsOver(PostAggs[h - 1])

\* The aggregations a post-aggregation reads.
References(postAgg) ==
    LET reads[agg \in PostAggs[MaxTokens]] ==
            IF agg.type = "constant" THEN {}
            ELSE IF agg.type = "fieldAccess" THEN {agg.fieldName}
            ELSE reads[agg.fields[1]] \cup reads[agg.fields[2]]
    IN reads[postAgg]

\* A field, and nothing else.
Alone(node) == node.op = "" /\ node.value \notin Numbers

\* Every field of the formula stands alone between the parentheses of a sum.
SumsOnly(tree) ==
    LET sums[node \in Nodes] ==
            IF node.op = "" THEN node.value \in Numbers
            ELSE IF node.op = "func" THEN Alone(node.left)
            ELSE sums[node.left] /\ sums[node.right]
    IN sums[tree]
=============================================================================
