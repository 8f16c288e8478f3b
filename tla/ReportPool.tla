----------------------------- MODULE ReportPool -----------------------------
(***************************************************************************)
(* The report queue and its worker pool (src/worker/pool.go), with the     *)
(* part of ReportExecuteHandler (src/api/report_execute.go) that feeds it. *)
(*                                                                         *)
(* A call of the handler registers a request in the sync.Map               *)
(* pendingRequests and THEN, under pendingMutex, appends its id to the     *)
(* FIFO slice pendingOrder.  Workers pop the head of the slice, move the   *)
(* entry to processingRequests in two separate map operations, run         *)
(* ProcessRequest and publish its outcome.  Every shared-memory operation  *)
(* is an action of its own, so every interleaving the Go scheduler can     *)
(* produce is explored.                                                    *)
(*                                                                         *)
(* A CSV file is abstracted to the requests whose records reached it, the  *)
(* number of records of the Druid answer it was created for, and the       *)
(* number of those records that are on disk (the rest sits in the buffer   *)
(* of csv.Writer).                                                         *)
(***************************************************************************)
EXTENDS Naturals, Sequences, FiniteSets, SequencesExt

CONSTANTS
    Requests,       \* calls of POST /api/reports/execute
    Workers,        \* goroutines started by StartReportWorkers
    Ids,            \* what utils.GenerateRequestID can return
    None,           \* no id, no request
    ResultSizes,    \* CSV records (header included) a Druid answer may need
    UniqueIds,      \* TRUE: no two calls draw the same id
    FlushMayFail,   \* TRUE: the flush at the end of a file may fail as well
    MaxCrashes      \* bound on the number of process crashes

ASSUME NoneAssumption == None \notin Requests /\ None \notin Ids
ASSUME WorkersAssumption == IsFiniteSet(Workers)
ASSUME SizesAssumption == ResultSizes \subseteq Nat
ASSUME SwitchAssumption == UniqueIds \in BOOLEAN /\ FlushMayFail \in BOOLEAN
ASSUME CrashAssumption == MaxCrashes \in Nat

VARIABLES
    call,               \* progress of each execute call
    rid,                \* the id each call drew
    issued,             \* every id drawn so far
    pendingRequests,    \* id -> request, None when absent
    pendingOrder,       \* FIFO of ids
    processingRequests, \* id -> ReportStatus, "none" when absent
    wpc, wid, wreq,     \* worker: next step, nextID, req
    wsize,              \* worker: records of the Druid answer (results)
    wout,               \* worker: the status ProcessRequest returns
    csv,                \* the files csv/<id>.csv
    crashes             \* crashes so far

callVars   == <<call, rid, issued>>
queueVars  == <<pendingRequests, pendingOrder>>
workVars   == <<wid, wreq, wsize, wout>>
vars == <<callVars, queueVars, processingRequests, wpc, workVars, csv, crashes>>

CallStates == {"idle", "stored", "answered", "rejected", "lost"}
Statuses   == {"none", "processing", "complete", "error"}
Terminal   == {"complete", "error"}
Steps == {"poll", "take", "mark", "run", "druid", "create",
          "write", "close", "publish"}

\* No request ever created this file.
NoFile == [owners |-> {}, total |-> 0, written |-> 0]

\* What GET /api/reports/status answers when both maps are read at once.
Status(i) ==
    IF pendingRequests[i] # None THEN "waiting"
    ELSE IF processingRequests[i] # "none" THEN processingRequests[i]
    ELSE "unknown"

Init ==
    /\ call = [r \in Requests |-> "idle"]
    /\ rid = [r \in Requests |-> None]
    /\ issued = {}
    /\ pendingRequests = [i \in Ids |-> None]
    /\ pendingOrder = <<>>
    /\ processingRequests = [i \in Ids |-> "none"]
    /\ wpc = [w \in Workers |-> "poll"]
    /\ wid = [w \in Workers |-> None]
    /\ wreq = [w \in Workers |-> None]
    /\ wsize = [w \in Workers |-> 0]
    /\ wout = [w \in Workers |-> "none"]
    /\ csv = [i \in Ids |-> NoFile]
    /\ crashes = 0

-----------------------------------------------------------------------------
(* The execute handler.                                                     *)

\* One of the early returns: no user, bad JSON, no datasource, rights.
Reject(r) ==
    /\ call[r] = "idle"
    /\ call' = [call EXCEPT ![r] = "rejected"]
    /\ UNCHANGED <<rid, issued, queueVars, processingRequests, wpc, workVars,
                   csv, crashes>>

\* The ids GenerateRequestID may return: nanosecond clock and a random
\* suffix.  Nothing but their width keeps two calls from drawing the same.
AnyId == Ids                                    \* seeded fault
GenerateRequestID == IF UniqueIds THEN Ids \ issued ELSE Ids

\* pendingRequests.Store(req.ID, req)
StoreRequest(r) ==
    /\ call[r] = "idle"
    /\ \E i \in GenerateRequestID :
        /\ rid' = [rid EXCEPT ![r] = i]
        /\ issued' = issued \cup {i}
        /\ pendingRequests' = [pendingRequests EXCEPT ![i] = r]
    /\ call' = [call EXCEPT ![r] = "stored"]
    /\ UNCHANGED <<pendingOrder, processingRequests, wpc, workVars, csv, crashes>>

\* pendingMutex.Lock(); pendingOrder = append(...); Unlock(); answer the id
QueueRequest(r) ==
    /\ call[r] = "stored"
    /\ pendingOrder' = Append(pendingOrder, rid[r])
    /\ call' = [call EXCEPT ![r] = "answered"]
    /\ UNCHANGED <<rid, issued, pendingRequests, processingRequests, wpc,
                   workVars, csv, crashes>>

\* Seeded fault: the id is queued before its request is in the map.
QueueThenStore(r) ==
    \/ /\ call[r] = "idle"
       /\ \E i \in GenerateRequestID :
            /\ rid' = [rid EXCEPT ![r] = i]
            /\ issued' = issued \cup {i}
            /\ pendingOrder' = Append(pendingOrder, i)
       /\ call' = [call EXCEPT ![r] = "stored"]
       /\ UNCHANGED <<pendingRequests, processingRequests, wpc, workVars, csv, crashes>>
    \/ /\ call[r] = "stored"
       /\ pendingRequests' = [pendingRequests EXCEPT ![rid[r]] = r]
       /\ call' = [call EXCEPT ![r] = "answered"]
       /\ UNCHANGED <<rid, issued, pendingOrder, processingRequests, wpc, workVars, csv, crashes>>

AddPendingRequest(r) == StoreRequest(r) \/ QueueRequest(r)

-----------------------------------------------------------------------------
(* reportWorker.                                                            *)

Goto(w, step) == wpc' = [wpc EXCEPT ![w] = step]

\* ProcessRequest returns s without having opened the file, or closes it.
Return(w, s, step) ==
    /\ wout' = [wout EXCEPT ![w] = s]
    /\ Goto(w, step)

\* NextPendingID() = "": sleep 300 ms and poll again.
Sleep(w) ==
    /\ wpc[w] = "poll"
    /\ pendingOrder = <<>>
    /\ UNCHANGED vars

\* Seeded fault: LIFO instead of FIFO.
NextPendingIDLast(w) ==
    /\ wpc[w] = "poll"
    /\ pendingOrder # <<>>
    /\ wid' = [wid EXCEPT ![w] = Last(pendingOrder)]
    /\ pendingOrder' = Front(pendingOrder)
    /\ Goto(w, "take")
    /\ UNCHANGED <<callVars, pendingRequests, processingRequests, wreq, wsize,
                   wout, csv, crashes>>

NextPendingID(w) ==
    /\ wpc[w] = "poll"
    /\ pendingOrder # <<>>
    /\ wid' = [wid EXCEPT ![w] = Head(pendingOrder)]
    /\ pendingOrder' = Tail(pendingOrder)
    /\ Goto(w, "take")
    /\ UNCHANGED <<callVars, pendingRequests, processingRequests, wreq, wsize,
                   wout, csv, crashes>>

\* Seeded fault: Load where the code has LoadAndDelete.
TakeWithoutDelete(w) ==
    /\ wpc[w] = "take"
    /\ IF pendingRequests[wid[w]] # None
       THEN wreq' = [wreq EXCEPT ![w] = pendingRequests[wid[w]]] /\ Goto(w, "mark")
       ELSE wreq' = wreq /\ Goto(w, "poll")
    /\ UNCHANGED <<callVars, queueVars, processingRequests, wid,
                   wsize, wout, csv, crashes>>

\* pendingRequests.LoadAndDelete(nextID).  Only a second queue entry of a
\* colliding id finds nothing: continue.
Take(w) ==
    /\ wpc[w] = "take"
    /\ pendingRequests' = [pendingRequests EXCEPT ![wid[w]] = None]
    /\ IF pendingRequests[wid[w]] # None
       THEN wreq' = [wreq EXCEPT ![w] = pendingRequests[wid[w]]] /\ Goto(w, "mark")
       ELSE wreq' = wreq /\ Goto(w, "poll")
    /\ UNCHANGED <<callVars, pendingOrder, processingRequests, wid,
                   wsize, wout, csv, crashes>>

\* processingRequests.Store(nextID, StatusProcessing)
Mark(w) ==
    /\ wpc[w] = "mark"
    /\ processingRequests' = [processingRequests EXCEPT ![wid[w]] = "processing"]
    /\ Goto(w, "run")
    /\ UNCHANGED <<callVars, queueVars, workVars, csv, crashes>>

-----------------------------------------------------------------------------
(* ProcessRequest, from the payload to the CSV file.                        *)

\* Seeded fault: an outcome that is no ReportStatus.
BuildFailsUntyped(w) ==
    /\ wpc[w] = "run"
    /\ Return(w, "failed", "publish")
    /\ UNCHANGED <<callVars, queueVars, processingRequests, wid, wreq, wsize,
                   csv, crashes>>

\* Bad interval, unknown datasource or a query that cannot be built.
BuildFails(w) ==
    /\ wpc[w] = "run"
    /\ Return(w, "error", "publish")
    /\ UNCHANGED <<callVars, queueVars, processingRequests, wid, wreq, wsize,
                   csv, crashes>>

\* The query goes out with http.Post: the worker waits, without a timeout.
CallDruid(w) ==
    /\ wpc[w] = "run"
    /\ Goto(w, "druid")
    /\ UNCHANGED <<callVars, queueVars, processingRequests, workVars, csv, crashes>>

\* Connection error, status other than 200 or a body that is not JSON.
DruidFails(w) ==
    /\ wpc[w] = "druid"
    /\ Return(w, "error", "publish")
    /\ UNCHANGED <<callVars, queueVars, processingRequests, wid, wreq, wsize,
                   csv, crashes>>

DruidAnswers(w) ==
    /\ wpc[w] = "druid"
    /\ \E n \in ResultSizes : wsize' = [wsize EXCEPT ![w] = n]
    /\ Goto(w, "create")
    /\ UNCHANGED <<callVars, queueVars, processingRequests, wid, wreq, wout,
                   csv, crashes>>

\* MkdirAll or Create fails.
CreateFails(w) ==
    /\ wpc[w] = "create"
    /\ Return(w, "error", "publish")
    /\ UNCHANGED <<callVars, queueVars, processingRequests, wid, wreq, wsize,
                   csv, crashes>>

\* os.Create truncates.  An empty answer completes with an empty file, an
\* answer whose events have no column ends in an error with an empty file.
CreateCSV(w) ==
    /\ wpc[w] = "create"
    /\ csv' = [csv EXCEPT ![wid[w]] =
                [owners |-> {wreq[w]}, total |-> wsize[w], written |-> 0]]
    /\ \/ wsize[w] = 0 /\ Return(w, "complete", "close")
       \/ wsize[w] > 0 /\ Return(w, "error", "close")
       \/ wsize[w] > 0 /\ Goto(w, "write") /\ UNCHANGED wout
    /\ UNCHANGED <<callVars, queueVars, processingRequests, wid, wreq, wsize, crashes>>

\* n more records of worker w reach the file of its id.
WriteRecords(w, n) ==
    csv' = [csv EXCEPT ![wid[w]] =
             [owners  |-> csv[wid[w]].owners \cup {wreq[w]},
              total   |-> csv[wid[w]].total,
              written |-> csv[wid[w]].written + n]]

\* The buffer of csv.Writer overflows while the rows are written.
Spill(w) ==
    /\ wpc[w] = "write"
    /\ csv[wid[w]].written < csv[wid[w]].total
    /\ WriteRecords(w, 1)
    /\ UNCHANGED <<callVars, queueVars, processingRequests, wpc, workVars, crashes>>

\* The disk refuses a write, and the record that filled the buffer is reported.
WriteFails(w) ==
    /\ wpc[w] = "write"
    /\ Return(w, "error", "close")
    /\ UNCHANGED <<callVars, queueVars, processingRequests, wid, wreq, wsize,
                   csv, crashes>>

\* The last record was handed to the buffer without an error.
RowsDone(w) ==
    /\ wpc[w] = "write"
    /\ Return(w, "complete", "close")
    /\ UNCHANGED <<callVars, queueVars, processingRequests, wid, wreq, wsize,
                   csv, crashes>>

\* Seeded fault: no deferred Flush.
CloseWithoutFlush(w) ==
    /\ wpc[w] = "close"
    /\ Goto(w, "publish")
    /\ UNCHANGED <<callVars, queueVars, processingRequests, workVars, csv, crashes>>

\* Deferred w.Flush(), then f.Close().  After an error of the disk the writer
\* flushes nothing more; the error of this flush is looked at by nobody.
CloseCSV(w) ==
    /\ wpc[w] = "close"
    /\ LET left == csv[wid[w]].total - csv[wid[w]].written IN
       \/ wout[w] = "complete" /\ WriteRecords(w, left)
       \/ FlushMayFail /\ wout[w] = "complete" /\ \E n \in 0 .. left : WriteRecords(w, n)
       \/ wout[w] = "error" /\ UNCHANGED csv
    /\ Goto(w, "publish")
    /\ UNCHANGED <<callVars, queueVars, processingRequests, workVars, crashes>>

\* Seeded fault: an error returns to the loop without being stored.
PublishOnlyComplete(w) ==
    /\ wpc[w] = "publish"
    /\ processingRequests' =
         IF wout[w] = "complete"
         THEN [processingRequests EXCEPT ![wid[w]] = wout[w]]
         ELSE processingRequests
    /\ Goto(w, "poll")
    /\ UNCHANGED <<callVars, queueVars, workVars, csv, crashes>>

\* Seeded fault: the goroutine ends on an error.
PublishAndExit(w) ==
    /\ wpc[w] = "publish"
    /\ processingRequests' = [processingRequests EXCEPT ![wid[w]] = wout[w]]
    /\ Goto(w, IF wout[w] = "error" THEN "exit" ELSE "poll")
    /\ UNCHANGED <<callVars, queueVars, workVars, csv, crashes>>

\* processingRequests.Store(nextID, the result), and back to the loop.
Publish(w) ==
    /\ wpc[w] = "publish"
    /\ processingRequests' = [processingRequests EXCEPT ![wid[w]] = wout[w]]
    /\ Goto(w, "poll")
    /\ UNCHANGED <<callVars, queueVars, workVars, csv, crashes>>

-----------------------------------------------------------------------------
\* The process dies (kill, panic of a worker, log.Fatal) and is started again:
\* every map and the queue are gone, the files and the clock are not.
Crash ==
    /\ crashes < MaxCrashes
    /\ crashes' = crashes + 1
    /\ call' = [r \in Requests |->
                 IF call[r] \in {"stored", "answered"} THEN "lost" ELSE call[r]]
    /\ pendingRequests' = [i \in Ids |-> None]
    /\ pendingOrder' = <<>>
    /\ processingRequests' = [i \in Ids |-> "none"]
    /\ wpc' = [w \in Workers |-> "poll"]
    /\ wid' = [w \in Workers |-> None]
    /\ wreq' = [w \in Workers |-> None]
    /\ wsize' = [w \in Workers |-> 0]
    /\ wout' = [w \in Workers |-> "none"]
    /\ UNCHANGED <<rid, issued, csv>>

Handler(r) == Reject(r) \/ AddPendingRequest(r)

DruidReplies(w) == DruidFails(w) \/ DruidAnswers(w)

\* Every step a worker takes by itself.
WorkerStep(w) ==
    \/ NextPendingID(w) \/ Take(w) \/ Mark(w)
    \/ BuildFails(w) \/ CallDruid(w)
    \/ CreateFails(w) \/ CreateCSV(w)
    \/ Spill(w) \/ WriteFails(w) \/ RowsDone(w)
    \/ CloseCSV(w) \/ Publish(w)

Next ==
    \/ \E r \in Requests : Handler(r)
    \/ \E w \in Workers : WorkerStep(w) \/ DruidReplies(w) \/ Sleep(w)
    \/ Crash

Spec == Init /\ [][Next]_vars

\* The Go scheduler runs every runnable goroutine; a handler that stored its
\* request goes on to queue it; Druid answers or fails every query (http.Post
\* would otherwise wait forever, see DruidReplies).
Fairness ==
    /\ \A r \in Requests : WF_vars(QueueRequest(r))
    /\ \A w \in Workers : WF_vars(WorkerStep(w)) /\ WF_vars(DruidReplies(w))

FairSpec == Spec /\ Fairness

-----------------------------------------------------------------------------
(* Properties.                                                              *)

Files == [owners : SUBSET Requests, total : Nat, written : Nat]

\* The types of the maps, of the queue and of the workers' local variables.
TypeOK ==
    /\ call \in [Requests -> CallStates]
    /\ rid \in [Requests -> Ids \cup {None}]
    /\ issued \subseteq Ids
    /\ pendingRequests \in [Ids -> Requests \cup {None}]
    /\ pendingOrder \in Seq(Ids)
    /\ processingRequests \in [Ids -> Statuses]
    /\ wpc \in [Workers -> Steps]
    /\ wid \in [Workers -> Ids \cup {None}]
    /\ wreq \in [Workers -> Requests \cup {None}]
    /\ wsize \in [Workers -> Nat]
    /\ wout \in [Workers -> Statuses]
    /\ csv \in [Ids -> Files]
    /\ crashes \in 0 .. MaxCrashes

InQueue(i) == \E k \in 1 .. Len(pendingOrder) : pendingOrder[k] = i

\* AddPendingRequest fills the map before the queue and workers empty the
\* queue before the map.  In every interleaving, colliding ids included, an
\* entry of pendingRequests is still on its way to a worker: its id is queued,
\* or about to be queued by a handler, or in the hands of a worker that is
\* about to take it.  No request is left "waiting" with nobody to serve it.
NoStrandedRequest ==
    \A i \in Ids : pendingRequests[i] # None =>
        \/ InQueue(i)
        \/ \E r \in Requests : call[r] = "stored" /\ rid[r] = i
        \/ \E w \in Workers : wpc[w] = "take" /\ wid[w] = i

\* NextPendingID and LoadAndDelete together hand a report to one worker: no
\* two workers ever process, hence write the CSV file of, the same id.
OneWorkerPerReport ==
    \A v, w \in Workers :
        v # w /\ wpc[v] \notin {"poll", "take"} /\ wpc[w] \notin {"poll", "take"}
            => wid[v] # wid[w]

\* When the status of a call's id says complete, the CSV file of that id holds
\* every record of the answer and no record of another request: the deferred
\* Flush comes before processingRequests.Store (the disk accepting writes).
CompleteMeansWholeCSV ==
    \A r \in Requests :
        call[r] = "answered" /\ Status(rid[r]) = "complete" =>
            /\ csv[rid[r]].owners = {r}
            /\ csv[rid[r]].written = csv[rid[r]].total

\* A published outcome is not revised: complete and error are final until
\* the process that holds them dies.
TerminalStatusIsFinal ==
    [][\A i \in Ids : processingRequests[i] \in Terminal =>
          \/ processingRequests'[i] = processingRequests[i]
          \/ crashes' # crashes]_vars

HasOutcome(r) == \E i \in Ids : rid[r] = i /\ processingRequests[i] \in Terminal

\* Every call that was answered with an id gets an outcome, whatever the other
\* calls, the workers, Druid and the disk do, unless the process dies first.
Settles ==
    \A r \in Requests : call[r] = "answered" ~> call[r] = "lost" \/ HasOutcome(r)
=============================================================================
