------------------------------ MODULE Dashboard ------------------------------
(***************************************************************************)
(* What the user picks on the page: datasource, dimensions and metrics     *)
(* (src/static/js/lists.js), the popup in which the values of a filter are *)
(* picked (filters.js), the payload of a report (execute.js) and its way   *)
(* back into the lists, by the Modify button or a shared link              *)
(* (reports.js).                                                           *)
(*                                                                         *)
(* openFilterPopup asks for the values of a dimension and goes on when the *)
(* answer comes; meanwhile the popup may be closed and opened for another. *)
(* The schema is asked for after every login, and a session may end and    *)
(* begin again at any time, for another user (module Session).  The page   *)
(* underneath an open popup cannot be clicked.  Dates, the comparison and  *)
(* the chart are left out, and so are the search box, which hides boxes    *)
(* and draws them anew, and what markup in a value does to the boxes after *)
(* it.                                                                     *)
(***************************************************************************)
EXTENDS FiniteSets, Sequences, Naturals

CONSTANTS
    Datasources, Dims, Mets, Values,
    Schemas,        \* what /api/schema may answer, see below
    Offered,        \* datasource -> dimension -> the values Druid has
    Boxed,          \* value -> what the box drawn for it holds, see ClickValue
    Pieces,         \* value -> what commas in it make of it in a link
    Links,          \* payloads that may come in a shared link
    Time,           \* the dimension that is always there
    MaxPopups, MaxLoads, MaxReports,
    NoSchema, NoDatasource, NoDim, NoReport

\* An answer of /api/schema: reserved fields are for administrators only, and a
\* restarted server may have read another file.  A list without entries comes as
\* null, at which renderLists stops: such schemas are left out.
Schema == [names : SUBSET Datasources, first : Datasources,
           dims : [Datasources -> SUBSET Dims], mets : [Datasources -> SUBSET Mets]]

ASSUME SchemaAssumption ==
    /\ Schemas \subseteq Schema
    /\ \A s \in Schemas : /\ s.first \in s.names
                         /\ \A ds \in s.names : s.dims[ds] # {} /\ s.mets[ds] # {}
    /\ Time \in Dims
    /\ Offered \in [Datasources -> [Dims -> SUBSET Values]]
    /\ Boxed \in [Values -> Values]
    /\ Pieces \in [Values -> SUBSET Values]
ASSUME DashboardBounds == MaxPopups \in Nat /\ MaxLoads \in Nat /\ MaxReports \in Nat
ASSUME DashboardNames ==
    NoSchema \notin Schemas /\ NoDatasource \notin Datasources /\ NoDim \notin Dims

Filters == [Dims -> SUBSET Values]
\* What is asked for, and of its history the schema it was picked from and the marks.
Payloads == [datasource : Datasources \cup {NoDatasource}, dimensions : SUBSET Dims,
             metrics : SUBSET Mets, filters : Filters, schema : Schemas \cup {NoSchema},
             foreign : BOOLEAN, strays : SUBSET Dims]

ASSUME ReportAssumption == Links \subseteq Payloads /\ NoReport \notin Payloads

VARIABLES
    loads,                  \* answers to fetchSchema so far
    schema,                 \* currentSchema
    selectedDatasource, selectedDimensions, selectedMetrics,
    filters,                \* {} for a dimension without a filter
    \* the popup
    shown, currentFilterDim, tempSelectedValues, currentValues,
    popups,                 \* popups opened so far
    asked,                  \* the fetches of values that are out
    \* reports
    running,                \* the payload execute waits for
    allResults,
    \* history
    hasty,      \* the popup was opened before the answer of an earlier one
    doubt,      \* dimensions whose filter was picked in such a popup, or torn
    foreign,    \* dimensions or metrics may be another datasource's or schema's
    strays      \* dimensions whose filter may be another datasource's or schema's

lists == <<selectedDatasource, selectedDimensions, selectedMetrics>>
popup == <<shown, currentFilterDim, tempSelectedValues, currentValues, popups, asked, hasty>>
reports == <<running, allResults>>
dashboardVars == <<loads, schema, lists, filters, popup, reports, doubt, foreign, strays>>

NoFilters == [d \in Dims |-> {}]

Filtered(fs) == {d \in Dims : fs[d] # {}}

\* renderLists: "time" heads the dimensions of every datasource.
Listed == schema.dims[selectedDatasource] \cup {Time}

\* The values that Druid may list for a dimension, and what their boxes hand back.
OfferedFor(d) == UNION {Offered[ds][d] : ds \in Datasources}
Picks(d) == {Boxed[v] : v \in OfferedFor(d)}

-----------------------------------------------------------------------------
(* A shared link.  share-btn writes the payload of a report into a URL, and *)
(* the page that is opened with it reads it before it has a schema.          *)

\* A report somebody made of what the schema and the popups offered.
Shareable(p) ==
    /\ p.schema \in Schemas
    /\ p.datasource \in p.schema.names
    /\ p.dimensions \subseteq p.schema.dims[p.datasource] \cup {Time}
    /\ p.metrics \subseteq p.schema.mets[p.datasource]
    /\ \A d \in Dims : p.filters[d] \subseteq Picks(d)

\* Seeded fault: the pieces of each value are kept together.
TornApart(fs) == [d \in Dims |-> {Pieces[v] : v \in fs[d]}]

\* Values are joined with commas and split at commas.
Torn(fs) == [d \in Dims |-> UNION {Pieces[v] : v \in fs[d]}]

FromLink(p) ==
    /\ selectedDatasource = p.datasource
    /\ selectedDimensions = p.dimensions
    /\ selectedMetrics = p.metrics
    /\ filters = Torn(p.filters)
    /\ doubt = {d \in Dims : filters[d] # p.filters[d]}
    /\ foreign = TRUE
    /\ strays = Filtered(filters)

WithoutLink ==
    /\ selectedDatasource = NoDatasource
    /\ selectedDimensions = {}
    /\ selectedMetrics = {}
    /\ filters = NoFilters
    /\ doubt = {}
    /\ foreign = FALSE
    /\ strays = {}

Init ==
    /\ WithoutLink \/ \E p \in Links : Shareable(p) /\ FromLink(p)
    /\ loads = 0
    /\ schema = NoSchema
    /\ shown = FALSE
    /\ currentFilterDim = NoDim
    /\ tempSelectedValues = {}
    /\ currentValues = {}
    /\ popups = 0
    /\ asked = {}
    /\ hasty = FALSE
    /\ running = NoReport
    /\ allResults = <<>>

-----------------------------------------------------------------------------
(* The lists.                                                               *)

Clickable == loads > 0 /\ ~shown

\* initDashboardSchema, after a login of anybody: the schema this user is given
\* replaces the one there was, its first datasource is selected whatever was
\* before, and what was picked stays.
SchemaLoaded ==
    /\ loads < MaxLoads
    /\ loads' = loads + 1
    /\ \E s \in Schemas :
          /\ schema' = s
          /\ selectedDatasource' = s.first
          /\ IF s = schema /\ s.first = selectedDatasource
             THEN UNCHANGED <<foreign, strays>>
             ELSE /\ foreign' = (foreign \/ selectedDimensions \cup selectedMetrics # {})
                  /\ strays' = strays \cup Filtered(filters)
                                     \cup {d \in Dims : shown /\ d = currentFilterDim}
    /\ UNCHANGED <<selectedDimensions, selectedMetrics, filters, popup, reports,
                   doubt>>

\* Seeded fault: the dimensions stay.
ChangeDatasourceOnly(ds) ==
    /\ Clickable
    /\ ds \in schema.names \ {selectedDatasource}
    /\ selectedDatasource' = ds
    /\ selectedMetrics' = {}
    /\ foreign' = FALSE
    /\ strays' = strays \cup Filtered(filters)
    /\ UNCHANGED <<loads, schema, selectedDimensions, filters, popup, reports,
                   doubt>>

\* The change listener of datasource-select: the filters stay.
ChangeDatasource(ds) ==
    /\ Clickable
    /\ ds \in schema.names \ {selectedDatasource}
    /\ selectedDatasource' = ds
    /\ selectedDimensions' = {}
    /\ selectedMetrics' = {}
    /\ foreign' = FALSE
    /\ strays' = strays \cup Filtered(filters)
    /\ UNCHANGED <<loads, schema, filters, popup, reports, doubt>>

Flip(x, S) == IF x \in S THEN S \ {x} ELSE S \cup {x}

ClickDimension(d) ==
    /\ Clickable
    /\ d \in Listed
    /\ selectedDimensions' = Flip(d, selectedDimensions)
    /\ UNCHANGED <<loads, schema, selectedDatasource, selectedMetrics, filters,
                   popup, reports, doubt, foreign, strays>>

ClickMetric(m) ==
    /\ Clickable
    /\ m \in schema.mets[selectedDatasource]
    /\ selectedMetrics' = Flip(m, selectedMetrics)
    /\ UNCHANGED <<loads, schema, selectedDatasource, selectedDimensions,
                   filters, popup, reports, doubt, foreign, strays>>

-----------------------------------------------------------------------------
(* The popup.                                                               *)

\* The state shared by all popups is taken over; values are asked for, except
\* those of "time".
Opened(d) ==
    /\ Clickable
    /\ popups < MaxPopups
    /\ d \in Listed
    /\ popups' = popups + 1
    /\ shown' = TRUE
    /\ currentFilterDim' = d
    /\ hasty' = (asked # {})
    /\ asked' = IF d = Time THEN asked
                ELSE asked \cup {[popup |-> popups', datasource |-> selectedDatasource, dimension |-> d]}
    /\ UNCHANGED <<loads, schema, lists, filters, reports, doubt, foreign,
                   strays>>

\* Seeded fault: the list of the popup before stays until the answer comes.
OpenOverOldList(d) ==
    /\ Opened(d)
    /\ tempSelectedValues' = filters[d]
    /\ UNCHANGED currentValues

OpenFilterPopup(d) ==
    /\ Opened(d)
    /\ tempSelectedValues' = filters[d]
    /\ currentValues' = {}

\* The answer to any popup, opened now or earlier, or its failure: it fills the
\* list of the popup that is there.
ValuesAnswered(f) ==
    /\ asked' = asked \ {f}
    /\ \/ currentValues' = Offered[f.datasource][f.dimension]
       \/ currentValues' = {}
    /\ UNCHANGED <<loads, schema, lists, filters, shown, currentFilterDim,
                   tempSelectedValues, popups, hasty, reports, doubt, foreign,
                   strays>>

\* A box of renderPopupValues is clicked; "time" has none.  The box hands back what
\* its value="..." attribute holds: the value up to a double quote, its HTML entities
\* decoded.  It is ticked when the list holds the value itself; where the tick and
\* the list disagree, the box takes one click more to get to the same lists.
ClickValue(v) ==
    /\ shown
    /\ currentFilterDim # Time
    /\ v \in currentValues
    /\ tempSelectedValues' = Flip(Boxed[v], tempSelectedValues)
    /\ UNCHANGED <<loads, schema, lists, filters, shown, currentFilterDim,
                   currentValues, popups, asked, hasty, reports, doubt, foreign,
                   strays>>

\* popup-ok.
Ok ==
    /\ shown
    /\ shown' = FALSE
    /\ filters' = [filters EXCEPT ![currentFilterDim] = tempSelectedValues]
    /\ doubt' = IF hasty THEN doubt \cup {currentFilterDim} ELSE doubt
    /\ UNCHANGED <<loads, schema, lists, currentFilterDim, tempSelectedValues,
                   currentValues, popups, asked, hasty, reports, foreign,
                   strays>>

\* popup-cancel, or Escape.
Cancel ==
    /\ shown
    /\ shown' = FALSE
    /\ UNCHANGED <<loads, schema, lists, filters, currentFilterDim,
                   tempSelectedValues, currentValues, popups, asked, hasty,
                   reports, doubt, foreign, strays>>

-----------------------------------------------------------------------------
(* Reports.                                                                 *)

\* What a link brought may be asked for before the schema is there.
Execute ==
    /\ ~shown
    /\ running = NoReport
    /\ Len(allResults) < MaxReports
    /\ selectedDimensions # {}
    /\ selectedMetrics # {}
    /\ running' = [datasource |-> selectedDatasource, dimensions |-> selectedDimensions,
                   metrics |-> selectedMetrics, filters |-> filters, schema |-> schema,
                   foreign |-> foreign, strays |-> strays]
    /\ UNCHANGED <<loads, schema, lists, filters, popup, allResults, doubt,
                   foreign, strays>>

\* The report is complete or has failed (module ReportApi).
Executed ==
    /\ running # NoReport
    /\ running' = NoReport
    /\ \/ allResults' = <<running>> \o allResults
       \/ UNCHANGED allResults
    /\ UNCHANGED <<loads, schema, lists, filters, popup, doubt, foreign,
                   strays>>

\* modify-btn: all but the datasource comes back, and reports outlive a login.
Modify(i) ==
    /\ Clickable
    /\ LET p == allResults[i] IN
          /\ selectedDimensions' = p.dimensions
          /\ selectedMetrics' = p.metrics
          /\ filters' = p.filters
          /\ IF p.datasource = selectedDatasource /\ p.schema = schema
             THEN foreign' = p.foreign /\ strays' = p.strays
             ELSE foreign' = TRUE /\ strays' = Filtered(p.filters)
    /\ UNCHANGED <<loads, schema, selectedDatasource, popup, reports, doubt>>

-----------------------------------------------------------------------------
Next ==
    \/ SchemaLoaded
    \/ \E ds \in Datasources : ChangeDatasource(ds)
    \/ \E d \in Dims : ClickDimension(d) \/ OpenFilterPopup(d)
    \/ \E m \in Mets : ClickMetric(m)
    \/ \E f \in asked : ValuesAnswered(f)
    \/ \E v \in Values : ClickValue(v)
    \/ Ok \/ Cancel \/ Execute \/ Executed
    \/ \E i \in DOMAIN allResults : Modify(i)

Spec == Init /\ [][Next]_dashboardVars

-----------------------------------------------------------------------------
(* Properties.                                                              *)

\* Type invariant: what the page's variables hold, its lists in the page's schema.
TypeOK ==
    /\ loads \in 0 .. MaxLoads
    /\ schema \in Schemas \cup {NoSchema}
    /\ selectedDatasource \in Datasources \cup {NoDatasource}
    /\ selectedDimensions \subseteq Dims
    /\ selectedMetrics \subseteq Mets
    /\ filters \in Filters
    /\ shown \in BOOLEAN
    /\ currentFilterDim \in Dims \cup {NoDim}
    /\ tempSelectedValues \subseteq Values
    /\ currentValues \subseteq Values
    /\ popups \in 0 .. MaxPopups
    /\ asked \subseteq [popup : 1 .. MaxPopups, datasource : Datasources, dimension : Dims]
    /\ hasty \in BOOLEAN
    /\ running \in Payloads \cup {NoReport}
    /\ allResults \in Seq(Payloads)
    /\ doubt \subseteq Dims
    /\ foreign \in BOOLEAN
    /\ strays \subseteq Dims

\* A filter holds values of its dimension, whatever popups were opened, left and
\* answered late, unless one of them was opened for it while an earlier answer
\* was still out: that answer may fill its list (filters.js, openFilterPopup).
\* They are the values as the boxes hand them back: one with a double quote or an
\* HTML entity in it is sent changed, and may be none that Druid has.
FiltersWereOffered == \A d \in Dims \ doubt : filters[d] \subseteq Picks(d)

\* A payload within its datasource, in the schema the page had when it was asked for.
PayloadFits(p) ==
    /\ ~p.foreign => /\ p.dimensions \subseteq p.schema.dims[p.datasource] \cup {Time}
                     /\ p.metrics \subseteq p.schema.mets[p.datasource]
    /\ \A d \in Filtered(p.filters) \ p.strays : d \in p.schema.dims[p.datasource] \cup {Time}

\* What a report asks for is in the schema the page has, under its datasource
\* (execute.js).  It may not be so when the selection came from a link, or from the
\* report of another datasource or an earlier schema, or when a login has changed
\* the schema or the datasource under it: a user who is no administrator then asks
\* for the reserved fields that an administrator left picked.  A filter outlives any
\* change of the datasource.
ReportFits == running # NoReport => PayloadFits(running)
=============================================================================
