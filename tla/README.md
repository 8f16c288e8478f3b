# Verification of druid-insight

TLA+ specifications of druid-insight (a Go service and a browser page that turn
a choice of dimensions, metrics, filters and dates into Druid queries and CSV
reports), the TLC configurations that check them on small instances, and
theorems about them with proofs checked by TLAPS.

All paths below are relative to `src/`. Every definition of a module is
translated from the code; `PROJECT.json` (`map`) names its lines. A comment above
each definition names the Go or JavaScript it stands for where that is not
obvious.

    tlasany M.tla                        parse a module
    tlc -config X.cfg M                  model-check (module and cfg: table below)
    tlapm M.tla                          check the proofs of M

## 1. The system

| Component | Code | State it keeps | Operations |
|---|---|---|---|
| Report queue and workers | `worker/pool.go`, `worker/types.go`, `utils/id.go` | `sync.Map` `pendingRequests` and `processingRequests`, the slice `pendingOrder` under a mutex, the files `csv/<id>.csv`, five goroutines | AddPendingRequest, NextPendingID, LoadAndDelete, Store, ProcessRequest, writing the CSV |
| Report API | `api/report_execute.go`, `api/report_status.go`, `api/download.go` | none of its own; reads the two maps and the files | execute, status, download |
| Report page | `static/js/execute.js` | the id, the poll loop | submit, poll, fetch the CSV, session expiry |
| Rights check | `auth/rights.go`, `config/config.go` | none; the schema of `druid.yaml` | CheckRights |
| Access filters | `auth/access.go` | none; reads `config/users.yaml` or a database at every use | GetAccessFilters |
| Query builder | `druid/query.go` | none | BuildDruidQuery, BuildAggsAndPostAggs, MergeWithAccessFilters, ExecuteDruidQuery |
| Formula compiler | `druid/formula.go` | none | ParseFormula, CollectLeafFields, NodeToDruidPostAgg |
| Comparison periods | `worker/pool.go` | none | ComputeIntervals |
| Dimension values | `api/filters.go` | `sync.Map` `filterMemoryCache` with expiry | GetDimensionValues |
| Server process | `cmd/druid-insight/main.go` | globals holding configuration; pointers captured by handlers and workers | boot, listen, reload on SIGHUP |
| Service manager | `cmd/service/main.go` | `pid/druid-insight.pid` | start, stop, restart, reload |
| Login and JWT | `api/login.go`, `auth/jwt.go`, `static/js/login.js` | the secret on the server; in the browser one token for all tabs (`localStorage`), and per tab a countdown and the answers it waits for | login, verify, countdown, log-out |
| User store | `auth/users.go`, `utils/crypto.go` | `users.yaml` or a database | load, check a password |
| User administration | `cmd/userctl/main.go` | `users.yaml` | add, disable, list |
| Datasource synchronisation | `cmd/datasource-sync/main.go` | `druid.yaml` and its backups | merge, back up, rewrite |
| Schema endpoint | `api/schema.go` | none | a view of the schema |
| Filter popup, lists, reports | `static/js/filters.js`, `lists.js`, `reports.js`, `vars.js` | the selection, the filters, the popup's list, the reports so far | pick datasource, dimensions, metrics and values; modify; share |
| Static files | `static/serve.go` | none | whitelist, fallback |
| Logging, paths | `logging/logger.go`, `utils/path.go` | log files | append |

How they interact:

    page --execute--> handler --CheckRights--> AddPendingRequest --> pendingRequests, pendingOrder
    worker <--NextPendingID, LoadAndDelete-- ... --Store--> processingRequests
    worker: ComputeIntervals, access filters, BuildDruidQuery --http--> Druid --> csv/<id>.csv
    page --status--> reads pendingRequests, then processingRequests
    page --download--> reads csv/<id>.csv, never the status
    page --values--> filterMemoryCache or access filters --http--> Druid
    page --login--> users.yaml or database --> token --> localStorage, read by every tab
    page --schema--> druid.yaml without what is reserved --> lists
    userctl, datasource-sync, editors --> users.yaml, druid.yaml, archives/
    operator --bin/service--> pid file and signals --> server

Calls between the components are function calls or HTTP requests; what they
share is the two maps and the queue (three separate locks), the files of `csv/`,
the pid file, and configuration files that are edited by hand or by tools while
the server runs.

### What is hard, and what correct means

| Component | Hard | Correct when |
|---|---|---|
| Queue and workers | three separately locked structures, updated in two steps each; ids made of a clock and a random suffix; a deferred flush; a crash that loses memory and keeps files | no request is stranded; a report is processed by one worker, in FIFO order, and settled once; complete means that the CSV is whole; every answered call is settled |
| API and page | a status handler that reads two maps at two moments; a download that looks at a file only | a page that gets a CSV gets the whole one of its own report; statuses do not go back; polling ends |
| Rights, access, query | checked in one goroutine, used in another, later; files re-read in between; names made in two places | the query selects no row outside the access rights; a call that was accepted can be built; references between parts of a query resolve |
| Formulas | recursion over what each level hands back | the tree is that of arithmetic; nothing ill-formed is accepted |
| Periods | inclusive/exclusive ends, month lengths, leap years | the days picked are covered; the earlier period precedes and is not empty |
| Dimension values | concurrent misses, slow answers, an expiry counted from one of two moments | nothing is offered that is older than an hour |
| Sessions | tabs that share one token; answers and countdowns left over from an earlier session; accounts that change under a token | a session ends at its time and not before; nobody is served longer than a token's life after the account is gone |
| Popup, lists, reports | answers to popups closed since; selections that outlive their datasource; links | a filter holds values of its dimension; a report asks for what its datasource has |
| Configuration files | several programs read, wait and rewrite whole files, without a lock, and may be killed | what was acknowledged stays; what was hidden stays hidden; what is replaced is archived |
| Service manager | check-then-act on a file, signals to processes that boot or die slowly | one server, and the pid file names it; a reload takes effect |

`PROJECT.json` (`hazards`) lists every such spot at its line with the properties
that guard it.

## 2. Modules

| Module | Models |
|---|---|
| `ReportPool` | execute handler, queue, workers, CSV files, crash |
| `ReportPoolInv` | the inductive invariant of the pool |
| `ReportQueue` | abstract specification: one FIFO line, `Capacity` servers |
| `ReportPoolRefinement` | refinement mapping `ReportPool` -> `ReportQueue` |
| `ReportApi` | status handler, download and page, composed with `ReportPool` (EXTENDS it) |
| `ProcessRequest` | the steps from the rights check to the query, composing `Query` and `Intervals` (EXTENDS both) |
| `Query` | with `Formula` (EXTENDS it): the schema endpoint, CheckRights at the call, access filters and query at the worker |
| `Formula` | parser, leaves, post-aggregations; reference tree and what a post-aggregation reads |
| `FilterCache` | GetDimensionValues with its clock and cache |
| `Intervals` | ComputeIntervals and the calendar of Go's AddDate |
| `Service` | service manager and life of the server |
| `Session` | login, tokens, tabs and their countdowns |
| `Dashboard` | lists, filter popup, payload, Modify, shared links |
| `ConfigFiles` | userctl, datasource-sync and editors on `users.yaml` and `druid.yaml` |
| `MCReportPool`, `MCReportApi`, `MCService`, `MCQuery`, `MCProcessRequest`, `MCDashboard`, `MCConfigFiles` | instances for TLC: symmetry, worlds, formulas |
| `ReportProofs` | theorems about the pool, that it implements `ReportQueue`, about its files and about `ReportApi` |
| `FormulaProofs` | theorems about `Formula`: the parser and the reference tree, leaves and post-aggregations |
| `ProcessRequestProofs` | theorems about `Query`, `Intervals` and `ProcessRequest` |
| `FilterCacheProofs`, `ServiceProofs`, `SessionProofs`, `DashboardProofs`, `ConfigFilesProofs` | theorems about the module of that name |

**ReportPool.** One action for each access to shared memory: `StoreRequest` and
`QueueRequest` are the two halves of AddPendingRequest (pool.go 29-32);
`NextPendingID` pops, `Take` is LoadAndDelete, `Mark` and `Publish` are the two
Stores of the worker; between them stand the steps of ProcessRequest
(`BuildFails`, `CallDruid`, `DruidReplies`, `CreateCSV`, `Spill`, `RowsDone`,
`CloseCSV`). Program counters `wpc` say which step a worker does next. A CSV is
a record [owners, total, written]: the requests whose records it holds, the
records of the answer it was created for and those that are on disk; the rest
is in the buffer of `csv.Writer` and reaches the disk by `Spill` or by the
deferred flush in `CloseCSV`. `Crash` is the death of the process and its next
start: memory is gone, files and drawn ids stay. Creating a file and writing to it
may always fail, and the code reports it (`CreateFails`, `WriteFails`). The two
switches `UniqueIds` and `FlushMayFail` say which accidents that the code does not
notice may happen: a drawn id that is not new, a deferred flush that fails.

**ReportQueue** knows no ids, maps or goroutines. A request that is waiting is
in the queue, running while a worker has its id in hand (from the pop to the
publication), afterwards what processingRequests says.

**ReportApi** adds per call a page (`client`, `seen`, `got`) and a caller who
downloads without polling (`early`). `StatusPending` and `StatusProcessing` are
the two Loads of the status handler; the pool moves between them.

**Query.** `Execute` is CheckRights in the handler, `Build` is ProcessRequest in
a worker, `EditAccess` whatever happens to the stored rights in between. A
lookup is the function it computes, a row a function from columns to values, a
Druid filter the set of `in` filters that are and-ed. The database backend
runs the access queries of all datasources into one map; which value stays
under a shared name depends on Go's map iteration (`Order`).

`SchemaHandler` is what the page may offer, from the same schema.

**ProcessRequest.** The order counts: the intervals come first, and dates that do
not parse end the report before its datasource is looked up. A payload without a
pair of dates has no interval (`Missing`).

**Formula.** A formula is a sequence of tokens. Instead of handing back what is
left of the tokens, a parse tells the position of the next one, so the three
functions that call each other are one recursive function of position and rule
(`Parses`): `ParseFactor` is parseFactor, and `ParseRule` gives parseTerm and
parseFormulaExpr as the same `Loop` over other operators and operands. Where no
parse is to be had the code returns an error (`Failure`). What is made of a tree
(`CollectLeafFields`, `NodeToDruidPostAgg`, whether that `Panics`) is a function on
`Nodes`, the trees over `Words` of height up to `MaxTokens`: no formula is deeper
than it is long. `Tree` is the reference: it finds the last operator outside of
parentheses by counting (`Depth`), and so never shares a step with the descent of
the parser.

**FilterCache.** A call stamps `now`, loads, and on a miss reads the access
filters, asks Druid and stores; calls, clock, data and rights interleave. `asOf`
is a history variable: when the oldest input of some values was read.

**Intervals.** A day is a number; `AddDate` normalises the month, then lets the
day run over, as `time.AddDate` does.

**Service.** Each system call of a command is a step (`Stat`, `Spawn`, `WritePid`,
`Terminate`, `Remove`, the sleep of restart); reading the pid and sending the
signal is one step. A server boots, calls signal.Notify, binds its port.

**Session.** `jwt` is the entry of localStorage; `timer`, `schema` and `call` are, per
tab, the token the interval counts for and the tokens of the calls that are out.
Each callback of `login.js` is an action: the schema's answer starts the countdown
(`StartSessionCountdown`, which logs out at once if there is nothing left), a 401
removes whatever token is stored by then. `Known` is what LoginHandler checks
against: the file as read at boot, or the database as it is. `held` and `bare` are
history: when the server last knew an account, and tabs whose countdown found no
token.

**Dashboard.** `asked` holds the fetches of values that are out; `ValuesAnswered`
writes into the one `currentValues`, whichever popup is open by then, as the
continuation after the `await` in openFilterPopup does. `schema` is `currentSchema`:
`SchemaLoaded` takes any of `Schemas`, since each login replaces it with what the
schema endpoint gives that user (reserved fields are for administrators) and selects
the first datasource again, while the selection stays. A box hands back what is left
of a value once it stood unescaped in `value="..."` (`Boxed`, `ClickValue`). A shared
link is read before there is a schema (`FromLink`), values torn at commas (`Torn`).
`hasty`, `doubt`, `foreign` and `strays` are history variables that remember where the
code lets the properties down; a login that is given another schema, or comes to
another datasource, sets the last two.

**ConfigFiles.** A command is load, wait (password; Druid), and os.WriteFile in two
steps: the open that empties the file, the write. `Written` adds what two writes
into one file may leave, `Kill` what a killed one may. A user is its number in the
file, since disable comments out those below (`Hit`); the text knows its comments,
blank lines and how access rights are laid out (`Layouts`), because a line that begins
with "-" ends the entry for disable and stays live (`ValuesLeft`). What comes of that
is in `Results`: the values join the list of the user above, or the file does not load
(`Broken`) and lists nobody. `saveUsers` lists all values (`Marshalled`). A field is
absent, open or reserved. `overtaken`, `late`, `added`, `hidden` and `replaced` are
history.

Definitions marked "Seeded fault" are used by no specification. Each is a plausible
bug of the definition below it, and shows that a property notices it
(`PROJECT.json`, `mutants`).

## 3. Runs

| Run (cfg) | Shows | Instance |
|---|---|---|
| `pool_safety` (PoolSafety) | `NoStrandedRequest`, `OneWorkerPerReport`, `CompleteMeansWholeCSV`, `TerminalStatusIsFinal`, the inductive invariant `IInv`, and that the pool implements `ReportQueue` | 3 calls, 2 workers, distinct ids, answers of 0 or 2 records, the deferred flush succeeds, 1 crash |
| `report_liveness` (ReportLiveness) | every answered call is settled unless the process dies (`Settles`); the line keeps moving (`KeepsPromise`); the page stops polling (`PageFinishes`) | 2 calls, one with a page, 2 workers, ids that may or may not collide, failing disk, 1 crash |
| `api_safety` (ApiSafety) | a page gets the whole CSV of its own report (`BrowserGetsWholeCSV`); no download holds another's records (`DownloadIsOwn`); statuses do not regress; "unknown" is only the handover | 2 pages, 2 workers, direct downloads, 1 crash |
| `api_unknown` (ApiUnknown) | violation: a status the documentation does not have | 1 page, no crash |
| `process_request` (ProcessRequest) | the page is offered what CheckRights accepts; rows within the rights; accepted calls are buildable; formula trees; references of formulas over sums; `MainCoversPickedDays`, `ComparisonPrecedes`, `ComparisonIsInterval` | see below |
| `query_formula_fields` (QueryFormulaFields) | violation: a documented formula reads what the query does not define | formulas of 3 tokens |
| `filter_cache_fresh` (FilterCacheFresh) | `ServedIsFresh` | 2 calls, an hour of 2 ticks, 4 ticks, 1 edit |
| `service_one_operator` (ServiceOneOperator) | the pid file names the one server | 3 processes, 1 bad edit, slow SIGTERM, 1 crash |
| `service_reload` (ServiceReload) | violation: a reload changes nothing | 1 process, 1 edit |
| `session_tabs` (SessionTabs) | `AcceptedIsRecent`; a session ends early only by a log-out or something left over (`EarlyEndHasCause`); an expired dashboard ends without a click (`SessionEnds`) | 2 tabs, 1 user, both backends, a token lives 2 ticks of 3, 1 edit or restart |
| `dashboard_popup` (DashboardPopup) | `FiltersWereOffered`, `ReportFits` | 2 datasources, a dimension of which only an administrator is given, a value with a double quote and a comma, 2 popups, 2 logins of either user, 1 link or none, 1 report |
| `config_files` (ConfigFiles) | `AddedStays`, `ReservedStays`, `ReplacedIsArchived` | 2 commands of any kind, 2 users, five texts of `users.yaml`, or none, or an empty one, 2 fields, 2 minutes, 1 edit, 1 kill |

Why the bounds are enough. The races of the pool are between two parties (two
halves of a handler, a handler and a worker, two workers); with three calls and
two workers each of them occurs while a third request is queued. Two records
are the least with a half-written file. One crash can fall into any state, and
what follows it has no memory of an earlier one except through files, which
distinct ids separate. For the cache, two calls are an overwriting one and an
overwritten one, and four ticks are two lives of an entry. Two years with a
leap day hold every month border there is; the lengths sit on both sides of
each comparison in the code. `process_request` has every formula of up to five
tokens over eight tokens and longer ones with every choice of operators (so
that two levels nest), and every call with up to two filters over dimensions
with and without a lookup, reserved, unknown, or shared with another
datasource, against every edit of the rights. Dates and selections meet only in
the order of the steps, so one of them varies at a time. In `session_tabs` two tabs
are the session that ends and the one that ends it, and three ticks let a token
expire after another was made. In `dashboard_popup` two popups are one answered
late and one it is answered into; two loads are the one that finds a link's
selection and a second login, of an administrator and of a user or the other way
round. In `config_files` the texts have a commented line for one user whose entry an
edit brings back above or below the other's, lists of values below and above it, and
no lists; two commands are the one that
overwrites and the one overwritten, and two minutes separate or join their backups.

Deadlock is checked except in `process_request` and `query_*`, whose
specifications describe one computation that ends, in `config_files`, where all
commands may be done, and in `session_tabs`, where the clock and the edits are
used up. In the others somebody can
always move: idle workers sleep and poll again (`Sleep`).

Symmetry is used in runs of safety properties only, over calls, workers, ids,
processes, commands and fields, which no definition tells apart.

### Fairness

`ReportPool!Fairness` is weak fairness of each step of each worker (the Go
scheduler runs a runnable goroutine), of `QueueRequest` (a handler that stored its
request goes on), and of `DruidReplies`: Druid answers or the connection fails.
The last is an assumption about Druid and the network: `http.Post` is used
without a timeout, and a Druid that never answers holds a worker forever
(five such queries hold them all). No fairness is asked of new calls, crashes,
spills, or of choosing success over failure. `ApiFairSpec` adds that a page goes
on polling. `Session!Fairness` says that time goes on, that the browser runs an
interval that is due, and that a schema call gets an answer, an error or a broken
connection; nobody has to click. All are weak fairness; nothing relies on an action that is enabled
only now and then.

## 4. Proofs

For all values of the constants (any number of calls, workers, ids, processes,
commands, tabs, keys, values; any schema, any calendar, any list of metrics and any
formulas):

| Theorem | Says | Assumes |
|---|---|---|
| `ReportProofs!TypeCorrect` | `TypeOK` and `HandInv` | the named ASSUMEs |
| `ReportProofs!NothingStranded` | `NoStrandedRequest` | nothing more: also with colliding ids and a failing disk |
| `ReportProofs!PlaceInvariant`, `OneWorker`, `OutcomeIsFinal` | an id is in one place; `OneWorkerPerReport`; `TerminalStatusIsFinal` | `UniqueIds` |
| `ReportProofs!PoolIsAQueue` | `ImplementsQueue`: the pool implements `ReportQueue` | `UniqueIds` |
| `ReportProofs!CompleteIsWhole`, `PoolInvariant` | `CompleteMeansWholeCSV`; `IInv` | `UniqueIds`, the deferred flush succeeds |
| `ReportProofs!ApiTypes` | `ApiTypeOK` | the named ASSUMEs |
| `ReportProofs!NoRegress`, `OwnDownload`, `UnknownHandover` | `StatusNeverRegresses`; `DownloadIsOwn`; `UnknownIsHandover` | `UniqueIds` |
| `ReportProofs!WholeDownload` | `BrowserGetsWholeCSV` | `UniqueIds`, the deferred flush succeeds |
| `ProcessRequestProofs!AccessHolds`, `ReportWithinAccess` | `RowsWithinAccess`, of `Query` alone and with the dates | the named ASSUMEs |
| `ProcessRequestProofs!OfferedAccepted` | `OfferedIsAccepted` | the named ASSUMEs |
| `ProcessRequestProofs!AcceptedBuilds`, `AcceptedIsKnown` | `AcceptedIsBuildable`; datasource and dimensions of an accepted call are in the schema when it is built | the named ASSUMEs |
| `FormulaProofs!FormulaRead` | whatever `Tree` calls well-formed is parsed to the end, and as `Tree` has it | nothing: tokens of any set, formulas of any length |
| `FormulaProofs!FormulaSound` | what is parsed is well-formed, and read as its tree, if no operator or parenthesis is a field or names a call | `TokensAssumption`; no more than `MaxTokens` tokens |
| `ProcessRequestProofs!TreeOfFormula`, `BuiltIsWellFormed` | `FormulaTree`; `AcceptedIsWellFormed` | the named ASSUMEs |
| `ProcessRequestProofs!FieldsOnce`, `SumsResolve` | `FieldsAggregated`, the first conjunct of `SumReferencesResolve`, and all of it | the named ASSUMEs |
| `ProcessRequestProofs!MainCovers`, `ComparisonIsEarlier`, `ComparisonHasDays` | `MainCoversPickedDays`; `ComparisonPrecedes`; `ComparisonIsInterval` | the named ASSUMEs |
| `FilterCacheProofs!CacheTypes`, `ServedFresh` | `TypeOK`; `ServedIsFresh` | the named ASSUMEs |
| `ServiceProofs!ServiceTypes` | `TypeOK` | the named ASSUMEs, any number of operators |
| `ServiceProofs!OneCommandManages`, `OneCommandOneServer` | `ServerIsManaged`, `OneLiveServer` | one operator |
| `SessionProofs!SessionTypes`, `AcceptedRecently`, `EarlyEnd` | `TypeOK`; `AcceptedIsRecent`; `EarlyEndHasCause` | the named ASSUMEs |
| `DashboardProofs!DashboardTypes`, `FiltersOffered`, `ReportsAlwaysFit` | `TypeOK`; `FiltersWereOffered`; `ReportFits` | the named ASSUMEs |
| `ConfigFilesProofs!ConfigTypes`, `AddedUserStays`, `ReservedFieldStays`, `ReplacedStaysArchived` | `TypeOK`; `AddedStays`; `ReservedStays`; `ReplacedIsArchived` | the named ASSUMEs |

The named ASSUMEs are facts about the code or the shape of the constants, and TLC
evaluates each of them in a passing run. Those that are more than a type:
`WorkersAssumption` (there are finitely many workers; only the refinement, which
counts them, uses it), `KeyAssumption` (something can be asked of the cache),
`CallAssumption` (a payload has its fields, and its metrics are a list),
`TokensAssumption` (no operator or parenthesis is a number or a bad character),
`FormulasAssumption` (formulas are made of `Words` and have at most `MaxTokens`,
metrics with a column are not named `+` or `(`, and `"sum_" + f` tells metrics
apart), `PeriodsAssumption` (dates that parse are in the calendar with a
year before them and a day after), `SchemaAssumption` (a schema's first datasource is
one of its own, and each has a dimension and a metric: an empty list comes as null, at
which the page stops).

**The pool.** None of the safety properties is inductive by itself.
`NoStrandedRequest` needs only `HandInv` (what a handler or worker is about to use
is there). `OneWorkerPerReport` needs to know where an id can be: `PlaceInv`
says that an id is drawn once (`IdInv`), stands in the queue at most once and
then still has its entry in the map (`QueueInv`), that an entry belongs to the
call its id was drawn for and nobody works on it (`PendingInv`, `StoredInv`),
and that workers hold distinct ids (`WorkerInv`). `FileInv` adds what is in the
file under a worker's pen and after publication; its step for `CloseCSV` is where
the deferred flush counts, and where its success is assumed. The conjuncts
are proved in that order, each using those before it, so `IInv` as a whole is
inductive; TLC checks it in `pool_safety` as well.

**The pool is a queue.** By `PlaceInv` the line of `ReportQueue`, read off
`pendingOrder`, names requests that are waiting, each once; a request is running
while a worker has its id; and no more run than there are workers, since distinct
running requests have distinct workers. Then, action by action: `QueueRequest` is
the arrival at the end of the line, `NextPendingID` the head's going to a
server, `Publish` the end of its service, `Crash` the loss of all that is not
settled, and every other step changes nothing that the abstract queue can see.

**The API.** Every step of `ReportApi` is a step of the pool or leaves it alone, so
the theorems about the pool hold there (`PoolWithin`). A page is right about the past:
once it saw an id gone from pendingRequests, the id is gone for good
(`PageInv`), which is why the second read cannot be older than the first. Once it
saw "complete", nobody has the id in hand nor ever will again, so the file stays
whole, over restarts too (`FetchInv`). `OwnersInv` says the same of the records of
a file at any moment, and `HandoverInv` where a served request can be.

**The cache.** An entry's and a call's `asOf` lies after the stamp of the call
that made it; as entries expire one TTL after that *stamp*, and not after the
answer, whoever finds an entry valid is within a TTL of `asOf`.

**The service.** Between `Stat` and `WritePid` of the one command there is no pid
file and no server alive that was not told to stop; that, for each step of
the command, is the invariant.

**Rights.** The rights, once `Build` is done, do not change any more, and the
filters they make are conjuncts of the query's filter; adding conjuncts (those
of the user) only removes rows (`RightsInv`).

**Loops and calendar, by least counterexample.** The loops of
BuildAggsAndPostAggs and the first days of the years are recursive functions. That
they are defined for every length, and what they return, is shown without the
library's induction theorems (which take an operator as parameter and cannot be
instantiated by the provers at hand): `LeastNat` says, from the well-foundedness of
`<`, that a non-empty set of numbers has a least element, so the set of numbers for
which a claim holds is everything if it holds 0 and, with n, n + 1
(`EveryNat`). For the loops, `LoopInv` says that no name is there twice, that each
aggregation is a requested metric's or the sum of a field, and that the fields of each
formula so far are aggregated; `OneMetric` is one turn. For the calendar, `YearsGrow`
and `MonthsOfYear` give that years and months follow each other without gap or overlap,
`DateOfDay` that each day is in exactly one month, `Distances` how far a month or a
year takes a day back, and `EarlierInOrder` why the order of two days survives it up to
the 28th.

**The parser, both ways.** That `Parses`, `Segments`, `Turns` and the functions on
trees are defined for every formula is shown in the same way, by the position of a
parse, the length of a segment and the height of a tree. For `FormulaRead`, `Reads`
says of every segment of the tokens that has a tree: if what follows it cannot go on
with it, `factor`, `term` or `expr`, begun at its first token, ends with that tree
behind its last one. For `term` and `expr` that is not enough to go by induction on
the length, since a loop is not cut where the tree is: the claim is made about the
turns of the loop (`Chain`), which at the last operator outside of parentheses have
made the tree to its left, and go on. For `FormulaSound` the other direction is
needed: what a parse has consumed is a segment whose parentheses balance, the
operators of its level stand outside of all parentheses in it, the last one of them is
where the loop made its last turn, and so its tree is the node of the parse (`Says`).
Both rest on counting parentheses: `SegmentLocal` (a tree depends on the tokens
inside only) and the lemmas on `Depth`, `Outside` and where two segments join.
`ReadsSums` then says that the post-aggregation of a tree whose fields stand in sums
reads the sums of its leaves; `AllComputed` that the loop over the metrics ends well
only if every formula asked for compiles, without a panic, from fields with a column
(`AllComputable`). The three properties of formulas follow.

The attempt to prove `AcceptedIsWellFormed` as it was first written (every formula of
a built query is well-formed) failed at calls, for a good reason: `sum(+(a))` is
accepted. The parser takes any token before a parenthesis for the name of a function,
and what a sum is taken of is looked at for its leaves only, so that a query is built
whose post-aggregation reads `sum_+`. It has seven tokens, and TLC had every formula of
up to five.
The property now says what is true (`NamesCalls`), and TLC has that formula.

**Sessions.** Every token in the browser, wherever it is, expires at most one life
after the server last knew an account with its user and flag; a step moves tokens
about, makes one for an account known now, or brings that moment forward. A token that
goes while it is accepted goes in `Logout`, or in a step whose own token is another.

**The dashboard.** The list of an open popup is offered for its dimension unless
the popup was opened in haste, and so are the values picked in it, as their boxes hand
them back, because every answer that is still out is then for that dimension. The
selection is in the page's present schema, under the selected datasource, unless
`foreign`, and a filter's dimension unless it is in `strays`: both are set when a login
brings another schema or datasource under a selection. Payloads, on their way and in
the history, carry both marks and the schema they were made from with them.

**Configuration files.** A command that was not overtaken has in hand the file as
it is, up to its own truncation, and from then on a copy that lists every
acknowledged user (`UsersInv`) or knows every reserved field (`DruidInv`); what it
writes is made of that copy, or does not load. A synchronisation that is not late stands before its
truncation with the present file in the archives (`ArchiveInv`).

Only model-checked: liveness (`Settles`, `KeepsPromise`, `PageFinishes`,
`SessionEnds`), because liveness under fairness and ENABLED are outside of TLAPS.
Every safety property of a passing run is proved.

## 5. Where code and documentation disagree

Three runs end in a counterexample, on purpose:

- `api_unknown`: pool.go deletes a request from pendingRequests (line 66) before
  storing it in processingRequests (line 71). A status call in between is
  answered "unknown", which `docs/api.md` does not list and at which the page
  gives up with an error, although the report is made. `UnknownIsHandover` shows that
  this is the only way to "unknown" short of a restart.
- `service_reload`: on SIGHUP the server loads the files into globals that
  neither handlers nor workers read.
- `query_formula_fields`: a field outside of `sum(...)`, as in the README's
  `1000 * revenue / impressions`, is aggregated under `sum_revenue` and read as
  `revenue`. For formulas over sums references resolve (`SumReferencesResolve`).

Observed while modelling, and left out of the properties by a stated condition:

- a disk that fails in the deferred flush truncates the file of a complete
  report (`CompleteMeansWholeCSV` and `BrowserGetsWholeCSV` assume that it succeeds);
- a download before completion is given a part of the file (`DownloadIsOwn`
  claims only whose records they are);
- the cache key lacks the caller's access filters;
- two `start` at a time start two servers, and a stale pid file blocks `start`
  until somebody runs `stop` (the theorems are about one command at a time);
- the month or year before a period that begins on the 29th, 30th or 31st may be
  empty, as AddDate folds missing days onto the next month
  (`ComparisonIsInterval` is stated up to the 28th);
- `sum(+(a))` and the like are accepted and read an aggregation that no query has
  (`AcceptedIsWellFormed` leaves out formulas in which an operator names a call);
- a function other than `sum` in a formula panics in the worker and ends the
  process; a requested metric named `sum_<field>` takes the place of a
  formula's aggregation;
- access filters are read from `config/users.yaml` whatever the
  configuration says, and an unreadable file means no filters
  (`RowsWithinAccess` says nothing then);
- with the database backend, access queries for a dimension name that several
  datasources share overwrite each other (`LimitedHere`);
- a late 401, or the countdown of an earlier session, ends the session begun
  since, and a 401 in one tab ends the others' (`EarlyEndHasCause` names them);
- a dashboard whose token another tab removed while it awaited the schema gets no
  countdown, and stays until its next call (`bare`);
- a late answer fills the popup of another dimension, and its values can be
  picked there (`doubt`);
- every login, and every opening of a shared link, selects the first datasource,
  whatever the link or the selection was for (`foreign`); a change of datasource
  keeps the filters (`strays`); values with `,`, `;`, `:` or `%` do not survive a
  link (the model has the comma);
- a value with a double quote or an HTML entity comes back from its box truncated or
  decoded (`5" tv` as `5`), and the filter asks for that; what its markup does to the
  boxes after it is not modelled (`FiltersWereOffered` speaks of what boxes hand back);
- a login of another user over a kept selection asks for what that user's schema lacks,
  the reserved fields an administrator picked included; the server then refuses
  (`foreign`, `strays`);
- a datasource of which a user may see no dimension, or no metric, has null for a list,
  and the page stops at it (such schemas are left out);
- Modify does not bring back datasource, comparison and time grouping, and charts
  are drawn with the metrics of the datasource selected now, not the report's;
- `userctl add` panics after its prompts when users.yaml lists nobody; what was
  saved by others during the prompts is lost (`overtaken`);
- `userctl disable` of a user written the usual, indented way finds its own work
  missing ("# <user>:" against "#   <user>:") and writes nothing. When it writes, it
  comments out all lines down to a blank one or one that begins with "-", which stays
  live: users below go with the one named, and the values left behind join the list of
  the user above or make a file that does not load, for which no user can log in once
  the server reads it (`AddedStays` names this end). It works on the lines of a file
  that does not load as well. Users named like a field of an account (`hash`) are left
  out of the model;
- `userctl` reads files relative to the project root and writes them relative to the
  working directory (the model's commands run in the root); add trims
  blanks around a password, which login does not;
- the name of a backup is the minute of the last change: two in one minute leave
  the second (`ReplacedIsArchived` claims the file only until then);
- filters of a payload count when they are an array; the object of
  `docs/api.md` is ignored.

## 6. Not modelled

Password hashes and JWT signatures (library code: a login is right or it is not),
SQL and JSON and YAML formats, extraction formats of the time dimension, the text of
CSV records, dates and charts of the page, logging (lines appended to files), static
files (each request reads a file and answers: no state that outlives it). An error of
WriteFile for the pid file and reuse of pids are left out of `Service`; a log-in
answer that comes late is left out of `Session` (the form shows nothing else
meanwhile), and so is a `user_backend` other than those of the documentation, for which
login.go checks nothing and issues a token. The growth of processingRequests is outside of a finite model. What a
server makes of a configuration file in mid-write is in `Query` (`Unreadable`), not
composed with `ConfigFiles`.

## 7. Plan

Done, in this order: pool; its abstract queue; API and page; cache; service; periods;
queries and formulas; schema endpoint; the composition of periods and queries; sessions;
dashboard; configuration files; proofs of every safety property that the runs check, the
refinement and the formula parser included.

Left: the composition of `ConfigFiles` with the readers of the files (`Query`, `Session`).
