--------------------------- MODULE ReportPoolInv ---------------------------
(***************************************************************************)
(* The inductive invariant of the worker pool when no two calls draw the   *)
(* same id and the disk accepts writes: where an id can be between the     *)
(* moment it is drawn and the moment its outcome is published.             *)
(***************************************************************************)
EXTENDS ReportPool

Live == {r \in Requests : call[r] \in {"stored", "answered"}}

\* Worker w has an id in its hands; it has the request as well.
Holds(w) == wpc[w] # "poll"
Works(w) == wpc[w] \notin {"poll", "take"}

\* What a handler or a worker is about to use is there to be used, and a file
\* never holds more records than the answer it was created for.
HandInv ==
    /\ \A r \in Requests : call[r] = "stored" => rid[r] \in Ids
    /\ \A w \in Workers : Holds(w) => wid[w] \in Ids
    /\ \A w \in Workers : Works(w) => wreq[w] \in Requests
    /\ \A i \in Ids : csv[i].written <= csv[i].total

\* Ids are drawn once, and everything known of an id was drawn.
IdInv ==
    /\ \A r \in Requests : call[r] = "idle" => rid[r] = None
    /\ \A r \in Live : rid[r] # None
    /\ \A r \in Requests : rid[r] # None => rid[r] \in issued
    /\ \A q, r \in Requests : rid[r] # None /\ rid[q] = rid[r] => q = r
    /\ \A i \in Ids \ issued :
         pendingRequests[i] = None /\ processingRequests[i] = "none"
    /\ \A w \in Workers : Holds(w) => wid[w] \in issued
    /\ \A k \in 1 .. Len(pendingOrder) : pendingOrder[k] \in issued

\* The queue holds each id once; its request waits in the map, was queued by
\* its handler, and is in no worker's hands.
QueueInv ==
    /\ \A j, k \in 1 .. Len(pendingOrder) :
         pendingOrder[j] = pendingOrder[k] => j = k
    /\ \A k \in 1 .. Len(pendingOrder) :
         /\ pendingRequests[pendingOrder[k]] # None
         /\ \A w \in Workers : Holds(w) => wid[w] # pendingOrder[k]
         /\ \A r \in Requests : call[r] = "stored" => rid[r] # pendingOrder[k]

\* An entry of pendingRequests is the request its id was drawn for, and
\* nobody works on it yet.
PendingInv ==
    \A i \in Ids : pendingRequests[i] # None =>
        /\ pendingRequests[i] \in Live
        /\ rid[pendingRequests[i]] = i
        /\ processingRequests[i] = "none"
        /\ \A w \in Workers : Works(w) => wid[w] # i

StoredInv ==
    \A r \in Requests : call[r] = "stored" =>
        /\ pendingRequests[rid[r]] = r
        /\ \A w \in Workers : Holds(w) => wid[w] # rid[r]

\* What a worker took is gone from pendingRequests, and processing from the
\* mark to the publication.
WorkOf(w) ==
    /\ wpc[w] = "take" => pendingRequests[wid[w]] # None
    /\ Works(w) => rid[wreq[w]] = wid[w]
    /\ wpc[w] = "mark" => processingRequests[wid[w]] = "none"
    /\ Works(w) /\ wpc[w] # "mark" => processingRequests[wid[w]] = "processing"
    /\ wpc[w] \in {"close", "publish"} => wout[w] \in Terminal

\* Distinct workers hold distinct ids.
WorkerInv ==
    /\ \A v, w \in Workers : v # w /\ Holds(v) /\ Holds(w) => wid[v] # wid[w]
    /\ \A w \in Workers : WorkOf(w)

\* The file of id i holds the whole answer to r and no record of another.
WholeFile(i, r) == csv[i].owners = {r} /\ csv[i].written = csv[i].total

\* A file under the pen of a worker holds records of its request only, and is
\* whole once closed without an error.
FileOf(w) ==
    /\ wpc[w] \in {"write", "close"} => csv[wid[w]].owners = {wreq[w]}
    /\ wpc[w] = "publish" /\ wout[w] = "complete" => WholeFile(wid[w], wreq[w])

\* A report published complete has and keeps a whole file.
PublishedOf(r) ==
    rid[r] # None /\ processingRequests[rid[r]] = "complete" => WholeFile(rid[r], r)

FileInv ==
    /\ \A w \in Workers : FileOf(w)
    /\ \A r \in Requests : PublishedOf(r)

\* Where an id can be, and in whose hands.
PlaceInv == IdInv /\ QueueInv /\ PendingInv /\ StoredInv /\ WorkerInv

\* The strengthening that makes the safety properties of the pool inductive.
IInv == HandInv /\ PlaceInv /\ FileInv
=============================================================================
