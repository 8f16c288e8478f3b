------------------------ MODULE ReportPoolRefinement ------------------------
(***************************************************************************)
(* The worker pool, with distinct ids, implements the line of requests     *)
(* that ReportQueue promises.                                              *)
(***************************************************************************)
EXTENDS ReportPool

\* The request an id was drawn for.
RequestOf(i) == CHOOSE r \in Requests : rid[r] = i

Held(i) == \E w \in Workers : wpc[w] # "poll" /\ wid[w] = i

\* What has become of a request, read off the handler, the queue, the workers
\* and the map of results.
StateOf(r) ==
    CASE call[r] = "idle" -> "new"
      [] call[r] = "rejected" -> "refused"
      [] call[r] = "lost" -> "lost"
      [] call[r] = "stored" -> "accepted"
      [] call[r] = "answered" /\ InQueue(rid[r]) -> "waiting"
      [] call[r] = "answered" /\ ~InQueue(rid[r]) /\ Held(rid[r]) -> "running"
      [] OTHER -> processingRequests[rid[r]]

Queue == INSTANCE ReportQueue WITH
    Capacity <- Cardinality(Workers),
    state    <- [r \in Requests |-> StateOf(r)],
    line     <- [k \in 1 .. Len(pendingOrder) |-> RequestOf(pendingOrder[k])],
    restarts <- crashes

\* The pool serves requests in the order in which they were queued, each of
\* them once, no more at a time than there are workers, and settles each once.
ImplementsQueue == Queue!Spec

\* It also keeps the promise that the line moves and every request is served.
KeepsPromise == Queue!Promise
=============================================================================
