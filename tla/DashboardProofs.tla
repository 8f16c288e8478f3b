--------------------------- MODULE DashboardProofs ---------------------------
(***************************************************************************)
(* Proofs about the page, for any schemas, values, links, popups and logins *)
(* (Dashboard).  A filter holds what the popup's list held; the list is    *)
(* that of its dimension unless the popup was opened in haste.  The        *)
(* selection fits the datasource unless it is marked as foreign, a filter  *)
(* unless its dimension is marked as a stray; payloads carry the marks on. *)
(***************************************************************************)
EXTENDS Dashboard, TLAPS

USE DEF dashboardVars, lists, popup, reports

-----------------------------------------------------------------------------
(* Types.                                                                   *)

TypeInv ==
    /\ TypeOK
    /\ loads > 0 => schema \in Schemas /\ selectedDatasource \in Datasources
    /\ shown => currentFilterDim \in Dims

\* The reports there are: the one that runs and those that are shown.
InPlay(p) == p = running \/ \E i \in DOMAIN allResults : p = allResults[i]

LEMMA InitTypes == Init => TypeInv
<1> SUFFICES ASSUME Init PROVE TypeInv
  OBVIOUS
<1> USE SchemaAssumption, DashboardBounds, DashboardNames, ReportAssumption
<1>1. /\ selectedDatasource \in Datasources \cup {NoDatasource}
      /\ selectedDimensions \subseteq Dims
      /\ selectedMetrics \subseteq Mets
      /\ filters \in Filters
      /\ doubt \subseteq Dims
      /\ foreign \in BOOLEAN
      /\ strays \subseteq Dims
  <2>1. CASE WithoutLink
    BY <2>1 DEF WithoutLink, NoFilters, Filters
  <2>2. CASE \E p \in Links : Shareable(p) /\ FromLink(p)
    <3> PICK p \in Links : FromLink(p)
      BY <2>2
    <3>1. p \in Payloads
      OBVIOUS
    <3>2. \A d \in Dims : UNION {Pieces[v] : v \in p.filters[d]} \subseteq Values
      BY <3>1 DEF Payloads, Filters
    <3>3. filters \in Filters
      BY <3>2 DEF FromLink, Torn, Filters
    <3> QED
      BY <3>1, <3>3 DEF FromLink, Payloads, Filtered
  <2> QED
    BY <2>1, <2>2 DEF Init
<1>2. loads = 0 /\ loads \in 0 .. MaxLoads /\ schema = NoSchema /\ popups \in 0 .. MaxPopups
  BY DEF Init
<1>3. allResults \in Seq(Payloads)
  BY DEF Init
<1>4. /\ ~shown /\ shown \in BOOLEAN
      /\ hasty \in BOOLEAN
      /\ currentFilterDim \in Dims \cup {NoDim}
      /\ tempSelectedValues \subseteq Values
      /\ currentValues \subseteq Values
      /\ running \in Payloads \cup {NoReport}
  BY DEF Init
<1>5. asked \subseteq [popup : 1 .. MaxPopups, datasource : Datasources, dimension : Dims]
  BY DEF Init
<1> QED
  BY <1>1, <1>2, <1>3, <1>4, <1>5 DEF TypeInv, TypeOK

LEMMA StepTypes == TypeInv /\ [Next]_dashboardVars => TypeInv'
<1> SUFFICES ASSUME TypeInv, [Next]_dashboardVars PROVE TypeInv'
  OBVIOUS
<1> USE SchemaAssumption, DashboardBounds, DashboardNames, ReportAssumption
<1> USE DEF TypeInv, TypeOK
<1>1. CASE SchemaLoaded
  <2> PICK s \in Schemas : schema' = s /\ selectedDatasource' = s.first
    BY <1>1 DEF SchemaLoaded
  <2>1. s.first \in Datasources
    BY DEF Schema
  <2>2. foreign' \in BOOLEAN /\ strays' \subseteq Dims
    BY <1>1 DEF SchemaLoaded, Filtered
  <2> QED
    BY <1>1, <2>1, <2>2 DEF SchemaLoaded
<1>2. ASSUME NEW ds \in Datasources, ChangeDatasource(ds) PROVE TypeInv'
  BY <1>2 DEF ChangeDatasource, Clickable, Filtered
<1>3. ASSUME NEW d \in Dims, ClickDimension(d) PROVE TypeInv'
  BY <1>3 DEF ClickDimension, Clickable, Flip
<1>4. ASSUME NEW d \in Dims, OpenFilterPopup(d) PROVE TypeInv'
  <2>1. popups' \in 1 .. MaxPopups
    BY <1>4 DEF OpenFilterPopup, Opened
  <2>2. filters[d] \subseteq Values
    BY DEF Filters
  <2>3. asked' \subseteq [popup : 1 .. MaxPopups, datasource : Datasources, dimension : Dims]
    BY <1>4, <2>1 DEF OpenFilterPopup, Opened, Clickable
  <2> QED
    BY <1>4, <2>1, <2>2, <2>3 DEF OpenFilterPopup, Opened, Clickable
<1>5. ASSUME NEW m \in Mets, ClickMetric(m) PROVE TypeInv'
  BY <1>5 DEF ClickMetric, Clickable, Flip
<1>6. ASSUME NEW f \in asked, ValuesAnswered(f) PROVE TypeInv'
  <2>1. Offered[f.datasource][f.dimension] \subseteq Values
    OBVIOUS
  <2> QED
    BY <1>6, <2>1 DEF ValuesAnswered
<1>7. ASSUME NEW v \in Values, ClickValue(v) PROVE TypeInv'
  BY <1>7 DEF ClickValue, Flip
<1>8. CASE Ok
  BY <1>8 DEF Ok, Filters
<1>9. CASE Cancel
  BY <1>9 DEF Cancel
<1>10. CASE Execute
  <2>1. running' \in Payloads
    BY <1>10 DEF Execute, Payloads
  <2> QED
    BY <1>10, <2>1 DEF Execute
<1>11. CASE Executed
  <2>1. running \in Payloads
    BY <1>11 DEF Executed
  <2>2. <<running>> \o allResults \in Seq(Payloads)
    BY <2>1
  <2> QED
    BY <1>11, <2>2 DEF Executed
<1>12. ASSUME NEW i \in DOMAIN allResults, Modify(i) PROVE TypeInv'
  <2>1. allResults[i] \in Payloads
    OBVIOUS
  <2> QED
    BY <1>12, <2>1 DEF Modify, Clickable, Payloads, Filtered
<1>13. CASE UNCHANGED dashboardVars
  BY <1>13
<1> QED
  BY <1>1, <1>2, <1>3, <1>4, <1>5, <1>6, <1>7, <1>8, <1>9, <1>10, <1>11, <1>12, <1>13 DEF Next

\* The page keeps its types (lists.js, filters.js, execute.js, reports.js).
THEOREM DashboardTypes == Spec => []TypeOK
<1>1. TypeInv => TypeOK
  BY DEF TypeInv
<1> QED
  BY <1>1, InitTypes, StepTypes, PTL DEF Spec

LEMMA TypesAlways == Spec => []TypeInv
  BY InitTypes, StepTypes, PTL DEF Spec

\* A report that is made is the one that ran.
LEMMA ReportsMove ==
  ASSUME TypeInv, Executed
  PROVE  \A p \in Payloads : InPlay(p)' => InPlay(p)
<1> SUFFICES ASSUME NEW p \in Payloads, InPlay(p)' PROVE InPlay(p)
  OBVIOUS
<1> USE DEF TypeInv, TypeOK, InPlay
<1>1. running \in Payloads /\ p # NoReport /\ running' = NoReport
  BY ReportAssumption DEF Executed
<1>2. CASE UNCHANGED allResults
  BY <1>1, <1>2
<1>3. CASE allResults' = <<running>> \o allResults
  <2>1. PICK i \in DOMAIN allResults' : p = allResults'[i]
    BY <1>1
  <2>2. i = 1 \/ (i - 1 \in DOMAIN allResults /\ allResults'[i] = allResults[i - 1])
    BY <1>1, <1>3
  <2>3. CASE i = 1
    BY <1>1, <1>3, <2>1, <2>3
  <2>4. CASE i - 1 \in DOMAIN allResults /\ allResults'[i] = allResults[i - 1]
    BY <2>1, <2>4
  <2> QED
    BY <2>2, <2>3, <2>4
<1> QED
  BY <1>2, <1>3 DEF Executed

-----------------------------------------------------------------------------
(* What filters hold.                                                       *)

\* The list of a popup that was not opened in haste.
ListInv ==
    ~hasty /\ currentFilterDim \in Dims =>
        /\ currentValues \subseteq OfferedFor(currentFilterDim)
        /\ \A f \in asked : f.dimension = currentFilterDim

\* What is ticked in it.
TickInv ==
    ~hasty /\ currentFilterDim \in Dims \ doubt =>
        tempSelectedValues \subseteq Picks(currentFilterDim)

\* What reports took over.
TakenInv ==
    \A p \in Payloads : InPlay(p) =>
        \A d \in Dims \ doubt : p.filters[d] \subseteq Picks(d)

OfferInv == ListInv /\ TickInv /\ FiltersWereOffered /\ TakenInv

LEMMA InitOffers == Init => OfferInv
<1> SUFFICES ASSUME Init PROVE OfferInv
  OBVIOUS
<1>1. ListInv /\ TickInv
  BY DashboardNames DEF Init, ListInv, TickInv
<1>2. FiltersWereOffered
  <2>1. CASE WithoutLink
    BY <2>1 DEF WithoutLink, NoFilters, FiltersWereOffered
  <2>2. CASE \E p \in Links : Shareable(p) /\ FromLink(p)
    <3> PICK p \in Links : Shareable(p) /\ FromLink(p)
      BY <2>2
    <3> SUFFICES ASSUME NEW d \in Dims \ doubt PROVE filters[d] \subseteq Picks(d)
      BY DEF FiltersWereOffered
    <3>1. filters[d] = p.filters[d]
      BY DEF FromLink
    <3> QED
      BY <3>1 DEF Shareable
  <2> QED
    BY <2>1, <2>2 DEF Init
<1>3. TakenInv
  BY ReportAssumption DEF Init, TakenInv, InPlay
<1> QED
  BY <1>1, <1>2, <1>3 DEF OfferInv

LEMMA StepOffers == TypeInv /\ OfferInv /\ [Next]_dashboardVars => OfferInv'
<1> SUFFICES ASSUME TypeInv, OfferInv, [Next]_dashboardVars PROVE OfferInv'
  OBVIOUS
<1> USE DEF OfferInv
\* The steps that touch neither filters nor popup nor reports.
<1>1. ASSUME UNCHANGED <<filters, popup, reports, doubt>> PROVE OfferInv'
  BY <1>1 DEF ListInv, TickInv, FiltersWereOffered, TakenInv, InPlay
<1>2. CASE SchemaLoaded
  BY <1>1, <1>2 DEF SchemaLoaded
<1>3. ASSUME NEW ds \in Datasources, ChangeDatasource(ds) PROVE OfferInv'
  BY <1>1, <1>3 DEF ChangeDatasource
<1>4. ASSUME NEW d \in Dims, ClickDimension(d) PROVE OfferInv'
  BY <1>1, <1>4 DEF ClickDimension
<1>5. ASSUME NEW m \in Mets, ClickMetric(m) PROVE OfferInv'
  BY <1>1, <1>5 DEF ClickMetric
<1>6. ASSUME NEW d \in Dims, OpenFilterPopup(d) PROVE OfferInv'
  <2> USE <1>6 DEF OpenFilterPopup, Opened
  <2>1. ListInv'
    <3>1. ~hasty' => asked = {}
      OBVIOUS
    <3>2. asked = {} => \A f \in asked' : f.dimension = d
      OBVIOUS
    <3> QED
      BY <3>1, <3>2 DEF ListInv
  <2>2. TickInv'
    BY DEF TickInv, FiltersWereOffered
  <2>3. FiltersWereOffered' /\ TakenInv'
    BY DEF FiltersWereOffered, TakenInv, InPlay
  <2> QED
    BY <2>1, <2>2, <2>3
<1>7. ASSUME NEW f \in asked, ValuesAnswered(f) PROVE OfferInv'
  <2> USE <1>7 DEF ValuesAnswered
  <2>1. ListInv'
    <3>1. f.datasource \in Datasources
      BY DEF TypeInv, TypeOK
    <3> QED
      BY <3>1 DEF ListInv, OfferedFor
  <2>2. TickInv' /\ FiltersWereOffered' /\ TakenInv'
    BY DEF TickInv, FiltersWereOffered, TakenInv, InPlay
  <2> QED
    BY <2>1, <2>2
<1>8. ASSUME NEW v \in Values, ClickValue(v) PROVE OfferInv'
  <2> USE <1>8 DEF ClickValue
  <2>1. ListInv' /\ FiltersWereOffered' /\ TakenInv'
    BY DEF ListInv, FiltersWereOffered, TakenInv, InPlay
  <2>2. TickInv'
    BY DEF TickInv, ListInv, Flip, Picks
  <2> QED
    BY <2>1, <2>2
<1>9. CASE Ok
  <2> USE <1>9 DEF Ok
  <2>1. doubt \subseteq doubt'
    OBVIOUS
  <2>2. FiltersWereOffered'
    <3> SUFFICES ASSUME NEW d \in Dims \ doubt' PROVE filters'[d] \subseteq Picks(d)
      BY DEF FiltersWereOffered
    <3>1. CASE d = currentFilterDim
      BY <3>1 DEF TickInv, TypeInv, TypeOK, Filters
    <3>2. CASE d # currentFilterDim
      BY <2>1, <3>2 DEF FiltersWereOffered, TypeInv, TypeOK, Filters
    <3> QED
      BY <3>1, <3>2
  <2>3. ListInv' /\ TickInv'
    BY <2>1 DEF ListInv, TickInv
  <2>4. TakenInv'
    BY <2>1 DEF TakenInv, InPlay
  <2> QED
    BY <2>2, <2>3, <2>4
<1>10. CASE Cancel
  BY <1>10 DEF Cancel, ListInv, TickInv, FiltersWereOffered, TakenInv, InPlay
<1>11. CASE Execute
  <2> USE <1>11 DEF Execute
  <2>1. ListInv' /\ TickInv' /\ FiltersWereOffered'
    BY DEF ListInv, TickInv, FiltersWereOffered
  <2>2. TakenInv'
    BY DEF TakenInv, InPlay, FiltersWereOffered
  <2> QED
    BY <2>1, <2>2
<1>12. CASE Executed
  <2>1. ListInv' /\ TickInv' /\ FiltersWereOffered'
    BY <1>12 DEF Executed, ListInv, TickInv, FiltersWereOffered
  <2>2. TakenInv'
    BY <1>12, ReportsMove DEF Executed, TakenInv
  <2> QED
    BY <2>1, <2>2
<1>13. ASSUME NEW i \in DOMAIN allResults, Modify(i) PROVE OfferInv'
  <2> USE <1>13 DEF Modify
  <2>1. ListInv' /\ TickInv' /\ TakenInv'
    BY DEF ListInv, TickInv, TakenInv, InPlay
  <2>2. allResults[i] \in Payloads
    BY DEF TypeInv, TypeOK
  <2>3. FiltersWereOffered'
    BY <2>2 DEF FiltersWereOffered, TakenInv, InPlay
  <2> QED
    BY <2>1, <2>3
<1>14. CASE UNCHANGED dashboardVars
  BY <1>1, <1>14
<1> QED
  BY <1>2, <1>3, <1>4, <1>5, <1>6, <1>7, <1>8, <1>9, <1>10, <1>11, <1>12, <1>13, <1>14 DEF Next

\* Whatever popups were opened, left and answered late, a filter holds values of
\* its dimension, as their boxes hand them back, unless one was opened for it over
\* an answer that was still out.
THEOREM FiltersOffered == Spec => []FiltersWereOffered
<1>1. OfferInv => FiltersWereOffered
  BY DEF OfferInv
<1> QED
  BY <1>1, InitOffers, StepOffers, TypesAlways, PTL DEF Spec

-----------------------------------------------------------------------------
(* What reports ask for.                                                    *)

SelectionFits ==
    ~foreign =>
        /\ selectedDimensions \subseteq Listed
        /\ selectedMetrics \subseteq schema.mets[selectedDatasource]

FiltersFit == \A d \in Filtered(filters) \ strays : d \in Listed

PopupFits == shown => currentFilterDim \in Listed \cup strays

ReportsFit == \A p \in Payloads : InPlay(p) => PayloadFits(p)

FitInv == SelectionFits /\ FiltersFit /\ PopupFits /\ ReportsFit

LEMMA InitFits == Init => FitInv
<1> SUFFICES ASSUME Init PROVE FitInv
  OBVIOUS
<1>1. SelectionFits /\ FiltersFit
  <2>1. CASE WithoutLink
    BY <2>1 DEF WithoutLink, NoFilters, SelectionFits, FiltersFit, Filtered
  <2>2. CASE \E p \in Links : Shareable(p) /\ FromLink(p)
    BY <2>2 DEF FromLink, SelectionFits, FiltersFit
  <2> QED
    BY <2>1, <2>2 DEF Init
<1>2. PopupFits /\ ReportsFit
  BY ReportAssumption DEF Init, PopupFits, ReportsFit, InPlay
<1> QED
  BY <1>1, <1>2 DEF FitInv

LEMMA StepFits == TypeInv /\ FitInv /\ [Next]_dashboardVars => FitInv'
<1> SUFFICES ASSUME TypeInv, FitInv, [Next]_dashboardVars PROVE FitInv'
  OBVIOUS
<1> USE DEF FitInv, Listed
\* Reports are the same after most steps.
<1>1. ASSUME UNCHANGED reports PROVE ReportsFit'
  BY <1>1 DEF ReportsFit, InPlay, PayloadFits
<1>2. CASE SchemaLoaded
  <2> USE <1>2 DEF SchemaLoaded
  <2>1. SelectionFits'
    BY DEF SelectionFits
  <2>2. FiltersFit'
    BY DEF FiltersFit, Filtered
  <2>3. PopupFits'
    BY DEF PopupFits, TypeInv
  <2> QED
    BY <1>1, <2>1, <2>2, <2>3
<1>3. ASSUME NEW ds \in Datasources, ChangeDatasource(ds) PROVE FitInv'
  BY <1>1, <1>3 DEF ChangeDatasource, Clickable, SelectionFits, FiltersFit, PopupFits, Filtered
<1>4. ASSUME NEW d \in Dims, ClickDimension(d) PROVE FitInv'
  BY <1>1, <1>4 DEF ClickDimension, Clickable, Flip, SelectionFits, FiltersFit, PopupFits, Filtered
<1>5. ASSUME NEW m \in Mets, ClickMetric(m) PROVE FitInv'
  BY <1>1, <1>5 DEF ClickMetric, Clickable, Flip, SelectionFits, FiltersFit, PopupFits, Filtered
<1>6. ASSUME NEW d \in Dims, OpenFilterPopup(d) PROVE FitInv'
  BY <1>1, <1>6 DEF OpenFilterPopup, Opened, SelectionFits, FiltersFit, PopupFits, Filtered
<1>7. ASSUME NEW f \in asked, ValuesAnswered(f) PROVE FitInv'
  BY <1>1, <1>7 DEF ValuesAnswered, SelectionFits, FiltersFit, PopupFits, Filtered
<1>8. ASSUME NEW v \in Values, ClickValue(v) PROVE FitInv'
  BY <1>1, <1>8 DEF ClickValue, SelectionFits, FiltersFit, PopupFits, Filtered
<1>9. CASE Ok
  <2> USE <1>9 DEF Ok
  <2>1. Filtered(filters') \subseteq Filtered(filters) \cup {currentFilterDim}
    BY DEF Filtered, TypeInv, TypeOK, Filters
  <2>2. FiltersFit'
    BY <2>1 DEF FiltersFit, PopupFits
  <2> QED
    BY <1>1, <2>2 DEF SelectionFits, PopupFits
<1>10. CASE Cancel
  BY <1>1, <1>10 DEF Cancel, SelectionFits, FiltersFit, PopupFits, Filtered
<1>11. CASE Execute
  <2> USE <1>11 DEF Execute
  <2>1. SelectionFits' /\ FiltersFit' /\ PopupFits'
    BY DEF SelectionFits, FiltersFit, PopupFits, Filtered
  <2>2. PayloadFits(running')
    BY DEF PayloadFits, SelectionFits, FiltersFit
  <2>3. ReportsFit'
    BY <2>2 DEF ReportsFit, InPlay
  <2> QED
    BY <2>1, <2>3
<1>12. CASE Executed
  <2>1. SelectionFits' /\ FiltersFit' /\ PopupFits'
    BY <1>12 DEF Executed, SelectionFits, FiltersFit, PopupFits, Filtered
  <2>2. ReportsFit'
    BY <1>12, ReportsMove DEF ReportsFit
  <2> QED
    BY <2>1, <2>2
<1>13. ASSUME NEW i \in DOMAIN allResults, Modify(i) PROVE FitInv'
  <2> DEFINE p == allResults[i]
  <2>1. p \in Payloads
    BY DEF TypeInv, TypeOK
  <2>2. PayloadFits(p)
    BY <2>1 DEF ReportsFit, InPlay
  <2>3. SelectionFits'
    BY <1>13, <2>2 DEF Modify, SelectionFits, PayloadFits
  <2>4. FiltersFit'
    BY <1>13, <2>2 DEF Modify, FiltersFit, PayloadFits, Filtered
  <2>5. PopupFits'
    BY <1>13 DEF Modify, Clickable, PopupFits
  <2> QED
    BY <1>1, <1>13, <2>3, <2>4, <2>5 DEF Modify
<1>14. CASE UNCHANGED dashboardVars
  BY <1>1, <1>14 DEF SelectionFits, FiltersFit, PopupFits, Filtered
<1> QED
  BY <1>2, <1>3, <1>4, <1>5, <1>6, <1>7, <1>8, <1>9, <1>10, <1>11, <1>12, <1>13, <1>14 DEF Next

\* A report asks for what its datasource has in the schema of the page, but for
\* what a link, another report, or the login of another user brought in or left,
\* and for the filters of another datasource.
THEOREM ReportsAlwaysFit == Spec => []ReportFits
<1>1. TypeInv /\ FitInv => ReportFits
  BY DEF TypeInv, TypeOK, FitInv, ReportsFit, InPlay, ReportFits
<1> QED
  BY <1>1, InitFits, StepFits, TypesAlways, PTL DEF Spec
=============================================================================
