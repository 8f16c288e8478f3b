----------------------------- MODULE ReportApi -----------------------------
(***************************************************************************)
(* The report API around the worker pool: ReportStatusHandler              *)
(* (src/api/report_status.go), DownloadReportCSV (src/api/download.go) and *)
(* the browser page that polls the one and then calls the other            *)
(* (src/static/js/execute.js).  The status handler reads pendingRequests   *)
(* and processingRequests one after the other, without a lock: the pool    *)
(* may take any number of steps between the two reads.                     *)
(*                                                                         *)
(* Each request of Pages is submitted by a page of its own (a page refuses *)
(* a second report while one is in progress).                              *)
(***************************************************************************)
EXTENDS ReportPool

CONSTANTS
    Pages,          \* the requests that a page submits and polls for; the others
                    \* come from a caller who does not look at their status
    EagerDownload   \* TRUE: somebody downloads by id without polling first

ASSUME PagesAssumption == Pages \subseteq Requests
ASSUME EagerAssumption == EagerDownload \in BOOLEAN

VARIABLES
    client,     \* where the page that submitted a request stands
    seen,       \* the last status that page was given
    got,        \* the content of the CSV file it was given
    early       \* the content a direct caller of the download was given

apiVars == <<client, seen, got, early>>
allVars == <<vars, apiVars>>

\* "submit": execute sent; "poll": between two polls; "looked": the handler
\* found no pending entry; "fetch": complete, the CSV may be fetched.
ClientStates == {"submit", "poll", "looked", "fetch", "done", "failed", "expired"}
Answers == {"none", "waiting", "unknown"} \cup (Statuses \ {"none"})

ApiInit ==
    /\ Init
    /\ client = [r \in Requests |-> "submit"]
    /\ seen = [r \in Requests |-> "none"]
    /\ got = [r \in Requests |-> NoFile]
    /\ early = [r \in Requests |-> NoFile]

Turn(r, to) == client' = [client EXCEPT ![r] = to]

-----------------------------------------------------------------------------
(* The page.                                                                *)

\* const { id } = await res.json(), or "Error running report".
Submitted(r) ==
    /\ r \in Pages
    /\ client[r] = "submit"
    /\ \/ call[r] = "answered" /\ Turn(r, "poll")
       \/ call[r] \in {"rejected", "lost"} /\ Turn(r, "failed")
    /\ UNCHANGED <<vars, seen, got, early>>

\* Seeded fault: the loop ends on processing and the page fetches at once.
DigestStopsEarly(r, status) ==
    /\ seen' = [seen EXCEPT ![r] = status]
    /\ Turn(r, CASE status = "waiting" -> "poll"
                   [] status \in {"processing", "complete"} -> "fetch"
                   [] status \in {"error", "unknown"} -> "failed")

\* What the poll loop makes of a status: go on, fetch the CSV, or throw.
Digest(r, status) ==
    /\ seen' = [seen EXCEPT ![r] = status]
    /\ Turn(r, CASE status \in {"waiting", "processing"} -> "poll"
                   [] status = "complete" -> "fetch"
                   [] status \in {"error", "unknown"} -> "failed")

\* worker.PendingRequests().Load(id)
StatusPending(r) ==
    /\ client[r] = "poll"
    /\ IF pendingRequests[rid[r]] # None
       THEN Digest(r, "waiting")
       ELSE Turn(r, "looked") /\ UNCHANGED seen
    /\ UNCHANGED <<vars, got, early>>

\* Seeded fault: a request that is not pending is reported unknown.
StatusPendingOnly(r) ==
    /\ client[r] = "looked"
    /\ Digest(r, "unknown")
    /\ UNCHANGED <<vars, got, early>>

\* worker.ProcessingRequests().Load(id), or "unknown"
StatusProcessing(r) ==
    /\ client[r] = "looked"
    /\ Digest(r, IF processingRequests[rid[r]] # "none"
                 THEN processingRequests[rid[r]] ELSE "unknown")
    /\ UNCHANGED <<vars, got, early>>

\* DownloadReportCSV for the page: os.Stat, then http.ServeFile.
Fetch(r) ==
    /\ client[r] = "fetch"
    /\ IF csv[rid[r]].owners # {}
       THEN Turn(r, "done") /\ got' = [got EXCEPT ![r] = csv[rid[r]]]
       ELSE Turn(r, "failed") /\ UNCHANGED got
    /\ UNCHANGED <<vars, seen, early>>

\* The JWT runs out: apiFetch shows the login page instead of calling.
Expire(r) ==
    /\ client[r] \in {"poll", "fetch"}
    /\ Turn(r, "expired")
    /\ UNCHANGED <<vars, seen, got, early>>

\* DownloadReportCSV for a caller who holds the id and did not poll.  The
\* handler looks at the file only, not at the status of the report.
Download(r) ==
    /\ EagerDownload
    /\ call[r] \in {"answered", "lost"}
    /\ csv[rid[r]].owners # {}
    /\ early' = [early EXCEPT ![r] = csv[rid[r]]]
    /\ UNCHANGED <<vars, client, seen, got>>

-----------------------------------------------------------------------------
\* A crash also breaks the connection a status request is being served on.
ApiCrash ==
    /\ Crash
    /\ client' = [r \in Requests |->
                    IF client[r] = "looked" THEN "failed" ELSE client[r]]
    /\ UNCHANGED <<seen, got, early>>

PageStep(r) == Submitted(r) \/ StatusPending(r) \/ StatusProcessing(r) \/ Fetch(r)

PoolStep ==
    /\ \/ \E r \in Requests : Handler(r)
       \/ \E w \in Workers : WorkerStep(w) \/ DruidReplies(w) \/ Sleep(w)
    /\ UNCHANGED apiVars

ApiNext ==
    \/ PoolStep
    \/ \E r \in Requests : PageStep(r) \/ Expire(r) \/ Download(r)
    \/ ApiCrash

ApiSpec == ApiInit /\ [][ApiNext]_allVars

\* The pool's fairness, and a page that keeps polling.
ApiFairSpec == ApiSpec /\ Fairness /\ \A r \in Requests : WF_allVars(PageStep(r))

-----------------------------------------------------------------------------
(* Properties.                                                              *)

Whole(file, r) == file.owners = {r} /\ file.written = file.total

\* The types of the page's variables and of the pool's.
ApiTypeOK ==
    /\ TypeOK
    /\ client \in [Requests -> ClientStates]
    /\ seen \in [Requests -> Answers]
    /\ got \in [Requests -> Files]
    /\ early \in [Requests -> Files]

\* A page that polls to "complete" and then downloads is given every record of
\* its own report, whatever the workers do between the poll and the download
\* and even when the process died and came back in between.
BrowserGetsWholeCSV ==
    \A r \in Requests : client[r] = "done" => Whole(got[r], r)

\* A page never sees its report go back from processing to waiting, although
\* the handler reads the two maps at different moments.
StatusNeverRegresses ==
    [][\A r \in Requests : seen[r] = "processing" => seen'[r] # "waiting"]_allVars

\* Without a restart, "unknown" is only ever answered while a worker stands
\* between pendingRequests.LoadAndDelete and processingRequests.Store with
\* the request in its hands: it never means that the report was lost.
UnknownIsHandover ==
    [][\A r \in Requests :
          seen[r] # "unknown" /\ seen'[r] = "unknown" /\ crashes = 0 =>
            \E w \in Workers : wpc[w] = "mark" /\ wreq[w] = r]_allVars

\* A page that was given an id does not poll forever: it ends with the CSV, with
\* an error message, or at the login page.
PageFinishes ==
    \A r \in Requests :
        client[r] = "poll" ~> client[r] \in {"done", "failed", "expired"}

\* docs/api.md: the status of a report is waiting, processing, complete or
\* error.  Of a process that never restarts a caller who was given an id is
\* answered one of the four.
StatusIsDocumented ==
    \A r \in Requests : crashes = 0 => seen[r] # "unknown"

\* Whoever downloads by the id of a call, at whatever moment and after whatever
\* restart, may be given a part of the report but never a record of another
\* call: ids are not drawn twice and one worker writes the file of an id.
DownloadIsOwn ==
    \A r \in Requests : early[r].owners \subseteq {r} /\ got[r].owners \subseteq {r}
=============================================================================
