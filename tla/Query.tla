------------------------------- MODULE Query -------------------------------
(***************************************************************************)
(* From the payload of an execute call to the groupBy query of Druid:      *)
(* SchemaHandler (src/api/schema.go), which tells the page what it may     *)
(* offer, CheckRights (src/auth/rights.go) when the call comes in, and     *)
(* later, in a worker, GetAccessFilters (src/auth/access.go) and           *)
(* BuildDruidQuery (src/druid/query.go).  The users file may be edited or  *)
(* be unreadable between the two.                                          *)
(*                                                                         *)
(* A lookup is the function it computes, a row of Druid a function from    *)
(* columns to values, and a dimFilter the set of the "in" filters that are *)
(* and-ed.  Formulas are compiled by module Formula.                       *)
(***************************************************************************)
EXTENDS Formula

CONSTANTS
    Worlds,         \* a server and a call it is sent:
                    \*   backend: "file" or "db"
                    \*   formulas: those its druid.yaml may hold
                    \*   payload: [user, admin, datasource, dims, metrics,
                    \*     filters (a set), filtersAreArray]
    Schemas(_),     \* formula -> the datasources of a druid.yaml that holds it:
                    \*   name -> [dimensions, metrics]
                    \*     dimension -> [druid, lookup, reserved, accessQuery]
                    \*     metric -> [druid, formula, reserved]
    Accesses,       \* what the access rights may be: user -> datasource ->
                    \*   dimension -> the values allowed, {} when not limited
    Unreadable,     \* the users file, or the database, cannot be read
    Rows,           \* rows of Druid: column -> value
    NoField         \* the column, lookup or formula an entry does not have

ASSUME UnreadableAssumption == Unreadable \notin Accesses
ASSUME CallAssumption ==
    \A w \in Worlds :
        LET p == w.payload
        IN /\ p = [user |-> p.user, admin |-> p.admin, datasource |-> p.datasource,
                   dims |-> p.dims, metrics |-> p.metrics,
                   filters |-> p.filters, filtersAreArray |-> p.filtersAreArray]
           /\ p.metrics \in Seq(STRING)

VARIABLES
    backend, datasources,   \* what the server booted with
    req,                    \* the call
    verdict,                \* what has become of it
    access,                 \* the access rights as they are stored now
    query                   \* the query that was built

confVars == <<backend, datasources, req>>
quVars == <<confVars, verdict, access, query>>

NoQuery == [dimensions |-> <<>>, aggregations |-> <<>>,
            postAggregations |-> <<>>, filter |-> {}]

\* The rights of an admin are never read: one state of them is enough.
Rights(p) == IF p.admin THEN {Unreadable} ELSE Accesses \cup {Unreadable}

Init ==
    /\ \E w \in Worlds :
        /\ backend = w.backend
        /\ \E f \in w.formulas : datasources = Schemas(f)
        /\ req = w.payload
        /\ access \in Rights(w.payload)
    /\ verdict = "new"
    /\ query = NoQuery

Schema(p) == datasources[p.datasource]
Dims(p) == Schema(p).dimensions
Mets(p) == Schema(p).metrics

-----------------------------------------------------------------------------
(* The execute handler.                                                     *)

Allowed(entries, name, admin) ==
    name \in DOMAIN entries /\ (entries[name].reserved => admin)

\* Seeded fault: a dimension the schema does not know is let through.
KnownOnly(p) ==
    /\ p.datasource \in DOMAIN datasources
    /\ \A d \in ToSet(p.dims) : d \in DOMAIN Dims(p) => Allowed(Dims(p), d, p.admin)
    /\ \A m \in ToSet(p.metrics) : Allowed(Mets(p), m, p.admin)

\* CheckRights finds no problem.  "time" is always allowed, and the dimensions
\* of the filters are not looked at.
CheckRights(p) ==
    /\ p.datasource \in DOMAIN datasources
    /\ \A d \in ToSet(p.dims) : d = "time" \/ Allowed(Dims(p), d, p.admin)
    /\ \A m \in ToSet(p.metrics) : Allowed(Mets(p), m, p.admin)

\* Seeded fault: the page is offered reserved entries as well.
SchemaWhole(admin) ==
    [s \in DOMAIN datasources |->
        [dimensions |-> DOMAIN datasources[s].dimensions,
         metrics |-> DOMAIN datasources[s].metrics]]

\* SchemaHandler: what the page may offer to a user, by datasource.
SchemaHandler(admin) ==
    [s \in DOMAIN datasources |->
        [dimensions |-> {d \in DOMAIN datasources[s].dimensions :
                            Allowed(datasources[s].dimensions, d, admin)},
         metrics |-> {m \in DOMAIN datasources[s].metrics :
                            Allowed(datasources[s].metrics, m, admin)}]]

Execute ==
    /\ verdict = "new"
    /\ verdict' = IF CheckRights(req) THEN "accepted" ELSE "rejected"
    /\ UNCHANGED <<confVars, access, query>>

\* Somebody edits the rights, or the file is being replaced.
EditAccess ==
    /\ verdict \in {"new", "accepted"}
    /\ access' \in Rights(req)
    /\ UNCHANGED <<confVars, verdict, query>>

-----------------------------------------------------------------------------
(* Access filters.                                                          *)

Filter(d, vs) == [dimension |-> d, values |-> vs]

\* getFiltersFromFile: the dimensions of this datasource.
FromFile(p) ==
    {Filter(d, access[p.user][p.datasource][d]) :
        d \in {e \in DOMAIN Dims(p) : access[p.user][p.datasource][e] # {}}}

\* getFiltersFromDB runs the access queries of every datasource, whichever the
\* report is about, into one map from dimension to values: where two
\* datasources have an access query for a dimension of the same name, the
\* iteration order of a Go map decides whose values stay.
Asked == UNION {{<<s, d>> : d \in {e \in DOMAIN datasources[s].dimensions :
                                     datasources[s].dimensions[e].accessQuery}}
                : s \in DOMAIN datasources}

AskedDims == {a[2] : a \in Asked}
Order == {last \in [AskedDims -> DOMAIN datasources] :
            \A d \in AskedDims : <<last[d], d>> \in Asked}

\* MergeWithAccessFilters skips a dimension without values.
FromDB(p, last) ==
    {Filter(d, access[p.user][last[d]][d]) :
        d \in {e \in AskedDims : access[p.user][last[e]][e] # {}}}

\* GetAccessFilters: what may be added to the filters of the user.  With the
\* file backend a LoadUsers that fails leaves usersFile nil, which is taken for
\* the database backend, which has nothing to say about a file.
GetAccessFilters(p) ==
    IF p.admin \/ access = Unreadable THEN {{}}
    ELSE IF backend = "file" THEN {FromFile(p)}
    ELSE {FromDB(p, last) : last \in Order}

-----------------------------------------------------------------------------
(* BuildDruidQuery.                                                         *)

\* Seeded fault: filters of the user replace the access filters.
UserFiltersFirst(p, limits) == IF p.filters # {} THEN p.filters ELSE limits

\* ProcessRequest takes the filters of a payload when they are an array and
\* ignores them otherwise; MergeWithAccessFilters puts both in one list.
Merge(p, limits) == (IF p.filtersAreArray THEN p.filters ELSE {}) \cup limits

\* The columns that are grouped by, with the name they are shown under.
Column(p, d) ==
    IF d = "time" THEN [column |-> "__time", as |-> "time"]
    ELSE [column |-> Dims(p)[d].druid,
          as |-> IF Dims(p)[d].lookup = NoField THEN Dims(p)[d].druid ELSE d]

UnknownDims(p) == {d \in ToSet(p.dims) : d # "time" /\ d \notin DOMAIN Dims(p)}

\* aggsSet: an aggregation is added once per name.
AddAgg(aggs, name, column) ==
    IF \E k \in 1 .. Len(aggs) : aggs[k].name = name THEN aggs
    ELSE Append(aggs, [name |-> name, column |-> column])

\* The formulas are made of tokens, no operator or parenthesis names a metric
\* with a column, and the names of the sums of metrics tell them apart.
ASSUME FormulasAssumption ==
    \A written \in UNION {w.formulas : w \in Worlds} :
        \A s \in DOMAIN Schemas(written) :
            LET mets == Schemas(written)[s].metrics
            IN \A m \in DOMAIN mets :
                /\ mets[m].formula # NoField =>
                       mets[m].formula \in Seq(Words) /\ Len(mets[m].formula) <= MaxTokens
                /\ mets[m].druid # NoField => m \notin Punctuation
                /\ \A n \in DOMAIN mets : SumName(m) = SumName(n) => m = n

\* Every leaf of a formula must be a metric with a column of its own.
HasColumn(p, f) == f \in DOMAIN Mets(p) /\ Mets(p)[f].druid # NoField

AddLeaves(p, aggs, leaves) ==
    LET after[k \in 0 .. Len(leaves)] ==
            IF k = 0 THEN aggs
            ELSE AddAgg(after[k - 1], SumName(leaves[k]), Mets(p)[leaves[k]].druid)
    IN after[Len(leaves)]

\* One turn of the loop of BuildAggsAndPostAggs.
AddMetric(p, acc, m) ==
    LET formula == Mets(p)[m].formula
        c == CompileFormula(formula)
    IN IF acc.outcome # "built" \/ (formula = NoField /\ Mets(p)[m].druid = NoField)
       THEN acc
       ELSE IF formula = NoField
       THEN [acc EXCEPT !.aggs = AddAgg(@, m, Mets(p)[m].druid)]
       ELSE IF ~c.ok \/ \E f \in ToSet(c.leaves) : ~HasColumn(p, f)
       THEN [acc EXCEPT !.outcome = "failed"]
       ELSE IF c.panics
       THEN [acc EXCEPT !.outcome = "panicked"]
       ELSE [acc EXCEPT !.aggs = AddLeaves(p, @, c.leaves),
                        !.posts = Append(@, [metric |-> m, postAgg |-> c.postAgg])]

NoAggs == [outcome |-> "built", aggs |-> <<>>, posts |-> <<>>]

BuildAggsAndPostAggs(p) ==
    LET after[k \in 0 .. Len(p.metrics)] ==
            IF k = 0 THEN NoAggs ELSE AddMetric(p, after[k - 1], p.metrics[k])
    IN after[Len(p.metrics)]

BuildDruidQuery(p, limits) ==
    LET built == BuildAggsAndPostAggs(p)
    IN IF UnknownDims(p) # {} THEN [outcome |-> "failed", query |-> NoQuery]
       ELSE IF built.outcome # "built" THEN [outcome |-> built.outcome, query |-> NoQuery]
       ELSE [outcome |-> "built",
             query |-> [dimensions |-> [k \in 1 .. Len(p.dims) |-> Column(p, p.dims[k])],
                        aggregations |-> built.aggs,
                        postAggregations |-> built.posts,
                        filter |-> Merge(p, limits)]]

\* ProcessRequest in a worker; a panic ends the process.
Build ==
    /\ verdict = "accepted"
    /\ \E limits \in GetAccessFilters(req) :
        LET done == BuildDruidQuery(req, limits)
        IN verdict' = done.outcome /\ query' = done.query
    /\ UNCHANGED <<confVars, access>>

Next == Execute \/ EditAccess \/ Build

Spec == Init /\ [][Next]_quVars

-----------------------------------------------------------------------------
(* Properties.                                                              *)

\* What Druid compares a filter on dimension d with.
Shown(p, d, row) ==
    LET value == row[Dims(p)[d].druid]
    IN IF Dims(p)[d].lookup = NoField THEN value ELSE Dims(p)[d].lookup[value]

\* A filter on a dimension the schema does not know is a filter on the column
\* "", which no row has.
Passes(p, row, f) ==
    f.dimension \in DOMAIN Dims(p) /\ Shown(p, f.dimension, row) \in f.values

Selected(p, filter) == {row \in Rows : \A f \in filter : Passes(p, row, f)}

\* Nothing but the datasource of the report says how d is limited.
LimitedHere(p, d) ==
    backend = "file" \/ {s \in DOMAIN datasources : <<s, d>> \in Asked} = {p.datasource}

\* docs/security.md: "the user only sees data matching these values, regardless
\* of the filters they select in the UI".  Whatever filters a call comes with,
\* lookups and filters on unknown dimensions included, the query selects rows
\* within the access rights as they are when a worker builds it.
RowsWithinAccess ==
    verdict = "built" /\ ~req.admin /\ access # Unreadable =>
        \A row \in Selected(req, query.filter), d \in DOMAIN Dims(req) :
            LET limit == access[req.user][req.datasource][d]
            IN LimitedHere(req, d) /\ limit # {} => Shown(req, d, row) \in limit

\* The schema endpoint and the check of the execute handler agree, for users and
\* admins and every datasource: what the page offers, and "time" which it adds
\* itself, is accepted, and nothing else is.
OfferedIsAccepted ==
    verdict = "new" =>
        \A s \in DOMAIN datasources :
            LET offered == SchemaHandler(req.admin)[s]
                Of(dims, mets) == [req EXCEPT !.datasource = s, !.dims = dims, !.metrics = mets]
                names(part) == UNION {DOMAIN datasources[o][part] : o \in DOMAIN datasources}
            IN /\ \A d \in names("dimensions") \cup {"time"} :
                    CheckRights(Of(<<d>>, <<>>)) <=> d \in offered.dimensions \cup {"time"}
               /\ \A m \in names("metrics") :
                    CheckRights(Of(<<>>, <<m>>)) <=> m \in offered.metrics

\* The two places that know dimensions agree: a call that CheckRights let
\* through is never refused by the worker for its datasource or its
\* dimensions, only for a formula.
AcceptedIsBuildable ==
    verdict = "failed" =>
        \E m \in ToSet(req.metrics) :
            LET c == CompileFormula(Mets(req)[m].formula)
            IN /\ Mets(req)[m].formula # NoField
               /\ ~c.ok \/ \E f \in ToSet(c.leaves) : ~HasColumn(req, f)

\* The one aggregation of a field: sum_<field> over its own column, or the
\* requested metric that happens to have that name.
AggregatedOnce(f) ==
    \E k \in 1 .. Len(query.aggregations) :
        /\ {j \in 1 .. Len(query.aggregations) :
              query.aggregations[j].name = query.aggregations[k].name} = {k}
        /\ query.aggregations[k].name = SumName(f)
        /\ SumName(f) \in ToSet(req.metrics) \/ query.aggregations[k].column = Mets(req)[f].druid

\* Every field of a formula that a query computes is aggregated by that query,
\* once, whichever metrics and formulas share the field: Druid refuses a name
\* that is there twice.
FieldsAggregated ==
    \A k \in 1 .. Len(query.postAggregations) :
        \A f \in ToSet(CompileFormula(Mets(req)[query.postAggregations[k].metric].formula).leaves) :
            AggregatedOnce(f)

-----------------------------------------------------------------------------
(* Properties of formulas.                                                  *)

Asks(m) == m \in ToSet(req.metrics) /\ Mets(req)[m].formula # NoField

\* The tree of a well-formed formula is the one arithmetic gives it: products
\* before sums, operators of a level from left to right, parentheses first.
FormulaTree ==
    verdict = "new" =>
        \A s \in DOMAIN datasources : \A m \in DOMAIN datasources[s].metrics :
            LET formula == datasources[s].metrics[m].formula
            IN formula # NoField /\ Tree(formula) # IllFormed =>
                   ParseFormula(formula).ok /\ ParseFormula(formula).node = Tree(formula)

\* A query is only ever built from well-formed formulas, although the parser
\* takes any token, operators and parentheses included, for a leaf.  The one
\* exception is a formula that calls an operator inside of a sum, as sum(+(a)).
AcceptedIsWellFormed ==
    verdict = "built" =>
        \A m \in ToSet(req.metrics) :
            LET formula == Mets(req)[m].formula
            IN Asks(m) /\ NamesCalls(ParseFormula(formula).node) => Tree(formula) # IllFormed

Defined == {query.aggregations[k].name : k \in 1 .. Len(query.aggregations)}

Resolves(post) == References(post.postAgg[1]) \subseteq Defined

\* A post-aggregation of a formula over sums of fields reads aggregations that
\* are part of the same query, once each (Druid refuses a name that is there
\* twice), whichever metrics and formulas share the field.
SumReferencesResolve ==
    /\ FieldsAggregated
    /\ \A k \in 1 .. Len(query.postAggregations) :
        LET formula == Mets(req)[query.postAggregations[k].metric].formula
        IN Tree(formula) # IllFormed /\ SumsOnly(Tree(formula)) =>
               Resolves(query.postAggregations[k])

\* README.md: formulas such as "1000 * revenue / impressions" are translated
\* into Druid post-aggregations: those read what the query aggregates.
ReferencesResolve ==
    \A k \in 1 .. Len(query.postAggregations) : Resolves(query.postAggregations[k])
=============================================================================
