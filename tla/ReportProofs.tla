---------------------------- MODULE ReportProofs ----------------------------
(***************************************************************************)
(* Theorems about reports, for any sets of requests, workers and ids, any  *)
(* sizes of answers and any number of crashes.  First the worker pool:     *)
(* types and what waits for whom hold with colliding ids and failing disks *)
(* as well; with distinct ids an id is in one place at a time, one worker  *)
(* serves a report, a published outcome is final, and the pool is the line *)
(* of requests of ReportQueue; and if the disk accepts writes, a complete  *)
(* report is whole.  Then reports as the pages and the callers of the API  *)
(* see them, who read the maps and files of the pool at moments of their   *)
(* own.                                                                    *)
(***************************************************************************)
EXTENDS ReportApi, ReportPoolInv, ReportPoolRefinement, FiniteSetTheorems,
        SequenceTheorems, TLAPS

\* Types and what the hands hold are inductive together, with colliding ids
\* and failing disks as well.
TypeInv == TypeOK /\ HandInv

\* Records that fit in the file keep the files typed and within their totals.
LEMMA WriteRecordsType ==
    ASSUME TypeInv, NEW w \in Workers, Works(w), NEW n \in Nat,
           csv[wid[w]].written + n <= csv[wid[w]].total,
           WriteRecords(w, n)
    PROVE  /\ csv' \in [Ids -> Files]
           /\ \A i \in Ids : csv'[i].written <= csv'[i].total
<1>1. wid[w] \in Ids /\ wreq[w] \in Requests
  BY DEF TypeInv, HandInv, Holds, Works
<1> DEFINE file == [owners  |-> csv[wid[w]].owners \cup {wreq[w]},
                    total   |-> csv[wid[w]].total,
                    written |-> csv[wid[w]].written + n]
<1>2. csv[wid[w]] \in Files
  BY <1>1 DEF TypeInv, TypeOK
<1>3. file \in Files /\ file.written <= file.total
  BY <1>1, <1>2 DEF Files
<1>4. csv' = [csv EXCEPT ![wid[w]] = file]
  BY DEF WriteRecords
<1> HIDE DEF file
<1> QED BY <1>3, <1>4 DEF TypeInv, TypeOK, HandInv

\* Every step of the pool and of its handlers keeps the types.
LEMMA TypeInvStep == TypeInv /\ [Next]_vars => TypeInv'
<1> SUFFICES ASSUME TypeInv, [Next]_vars PROVE TypeInv'
  OBVIOUS
<1> USE NoneAssumption, SizesAssumption, SwitchAssumption, CrashAssumption
    DEF TypeInv, TypeOK, HandInv, Holds, Works, Files,
        callVars, queueVars, workVars, Goto, Return
<1>1. ASSUME NEW r \in Requests, Reject(r) PROVE TypeInv'
  BY <1>1 DEF Reject, CallStates
<1>2. ASSUME NEW r \in Requests, StoreRequest(r) PROVE TypeInv'
  BY <1>2 DEF StoreRequest, CallStates, GenerateRequestID
<1>3. ASSUME NEW r \in Requests, QueueRequest(r) PROVE TypeInv'
  BY <1>3 DEF QueueRequest, CallStates
<1>4. ASSUME NEW w \in Workers, NextPendingID(w) PROVE TypeInv'
  BY <1>4 DEF NextPendingID, Steps
<1>5. ASSUME NEW w \in Workers, Take(w) PROVE TypeInv'
  <2>1. wid[w] \in Ids
    BY <1>5 DEF Take
  <2>2. CASE pendingRequests[wid[w]] # None
    BY <1>5, <2>1, <2>2, ZenonT(40) DEF Take, Steps
  <2>3. CASE pendingRequests[wid[w]] = None
    <3>1. wpc' = [wpc EXCEPT ![w] = "poll"] /\ wreq' = wreq
      BY <1>5, <2>3 DEF Take
    <3>2. TypeOK'
      BY <1>5, <2>1, <3>1 DEF Take, Steps
    <3>3. HandInv'
      BY <1>5, <3>1 DEF Take
    <3> QED BY <3>2, <3>3
  <2> QED BY <2>2, <2>3
<1>7. ASSUME NEW w \in Workers, Mark(w) PROVE TypeInv'
  BY <1>7 DEF Mark, Steps, Statuses
<1>8. ASSUME NEW w \in Workers, BuildFails(w) \/ DruidFails(w) \/ CreateFails(w)
      PROVE TypeInv'
  BY <1>8 DEF BuildFails, DruidFails, CreateFails, Steps, Statuses
<1>9. ASSUME NEW w \in Workers, CallDruid(w) PROVE TypeInv'
  BY <1>9 DEF CallDruid, Steps
<1>10. ASSUME NEW w \in Workers, DruidAnswers(w) PROVE TypeInv'
  BY <1>10 DEF DruidAnswers, Steps
<1>11. ASSUME NEW w \in Workers, CreateCSV(w) PROVE TypeInv'
  <2>1. wpc[w] = "create" /\ wid[w] \in Ids /\ wreq[w] \in Requests
    BY <1>11 DEF CreateCSV
  <2> DEFINE file == [owners |-> {wreq[w]}, total |-> wsize[w], written |-> 0]
  <2>2. file \in Files /\ file.written <= file.total
    BY <2>1
  <2>3. csv' = [csv EXCEPT ![wid[w]] = file]
    BY <1>11 DEF CreateCSV
  <2> HIDE DEF file
  <2>4. csv' \in [Ids -> Files] /\ \A i \in Ids : csv'[i].written <= csv'[i].total
    BY <2>2, <2>3
  <2> HIDE DEF Files
  <2>5. TypeOK'
    BY <1>11, <2>1, <2>4, ZenonT(40) DEF CreateCSV, Steps, Statuses
  <2>6. HandInv'
    BY <1>11, <2>1, <2>4 DEF CreateCSV
  <2> QED BY <2>5, <2>6
<1>12. ASSUME NEW w \in Workers, Spill(w) PROVE TypeInv'
  <2>1. csv[wid[w]].written + 1 <= csv[wid[w]].total
    BY <1>12 DEF Spill
  <2>2. csv' \in [Ids -> Files] /\ \A i \in Ids : csv'[i].written <= csv'[i].total
    BY <1>12, <2>1, WriteRecordsType DEF Spill
  <2> HIDE DEF Files
  <2> QED BY <1>12, <2>2 DEF Spill
<1>13. ASSUME NEW w \in Workers, WriteFails(w) \/ RowsDone(w) PROVE TypeInv'
  BY <1>13 DEF WriteFails, RowsDone, Steps, Statuses
<1>14. ASSUME NEW w \in Workers, CloseCSV(w) PROVE TypeInv'
  <2> DEFINE left == csv[wid[w]].total - csv[wid[w]].written
  <2>1. left \in Nat /\ \A n \in 0 .. left :
           csv[wid[w]].written + n <= csv[wid[w]].total
    BY <1>14 DEF CloseCSV
  <2>2. \/ UNCHANGED csv
        \/ \E n \in 0 .. left : WriteRecords(w, n)
    BY <1>14, <2>1 DEF CloseCSV
  <2>3. csv' \in [Ids -> Files] /\ \A i \in Ids : csv'[i].written <= csv'[i].total
    <3>1. CASE UNCHANGED csv
      BY <3>1
    <3>2. ASSUME NEW n \in 0 .. left, WriteRecords(w, n)
          PROVE  /\ csv' \in [Ids -> Files]
                 /\ \A i \in Ids : csv'[i].written <= csv'[i].total
      <4>1. Works(w) /\ n \in Nat /\ csv[wid[w]].written + n <= csv[wid[w]].total
        BY <1>14, <2>1 DEF CloseCSV
      <4> QED BY <3>2, <4>1, WriteRecordsType
    <3> QED BY <2>2, <3>1, <3>2
  <2> HIDE DEF Files
  <2> QED BY <1>14, <2>3 DEF CloseCSV, Steps
<1>15. ASSUME NEW w \in Workers, Publish(w) PROVE TypeInv'
  BY <1>15 DEF Publish, Steps
<1>16. CASE Crash
  BY <1>16 DEF Crash, CallStates, Statuses, Steps
<1>17. CASE UNCHANGED vars
  BY <1>17 DEF vars
<1> QED
  BY <1>1, <1>2, <1>3, <1>4, <1>5, <1>7, <1>8, <1>9, <1>10, <1>11, <1>12,
     <1>13, <1>14, <1>15, <1>16, <1>17
     DEF Next, Handler, AddPendingRequest, WorkerStep, DruidReplies, Sleep

\* The variables of the pool keep the types of their Go declarations.
THEOREM TypeCorrect == Spec => [](TypeOK /\ HandInv)
<1>1. Init => TypeInv
  BY NoneAssumption, CrashAssumption
     DEF Init, TypeInv, TypeOK, HandInv, Holds, Works, CallStates, Statuses,
         Steps, NoFile, Files
<1>2. TypeInv <=> TypeOK /\ HandInv
  BY DEF TypeInv
<1> QED BY <1>1, <1>2, TypeInvStep, PTL DEF Spec

-----------------------------------------------------------------------------
\* Handler and workers keep an entry of pendingRequests on its way to a worker.
LEMMA NoStrandedStep ==
    TypeInv /\ TypeInv' /\ NoStrandedRequest /\ [Next]_vars => NoStrandedRequest'
<1> SUFFICES ASSUME TypeInv, TypeInv', NoStrandedRequest, [Next]_vars,
                    NEW i \in Ids, pendingRequests'[i] # None
             PROVE  \/ InQueue(i)'
                    \/ \E r \in Requests : call'[r] = "stored" /\ rid'[r] = i
                    \/ \E w \in Workers : wpc'[w] = "take" /\ wid'[w] = i
  BY DEF NoStrandedRequest
<1> DEFINE Goal == \/ InQueue(i)'
                   \/ \E r \in Requests : call'[r] = "stored" /\ rid'[r] = i
                   \/ \E w \in Workers : wpc'[w] = "take" /\ wid'[w] = i
<1> USE NoneAssumption
    DEF TypeInv, TypeOK, callVars, queueVars, workVars, Goto, Return
<1>0. pendingRequests[i] # None =>
        \/ InQueue(i)
        \/ \E r \in Requests : call[r] = "stored" /\ rid[r] = i
        \/ \E w \in Workers : wpc[w] = "take" /\ wid[w] = i
  BY DEF NoStrandedRequest
<1>1. ASSUME NEW r \in Requests, Reject(r) PROVE Goal
  BY <1>0, <1>1 DEF Reject, InQueue
<1>2. ASSUME NEW r \in Requests, StoreRequest(r) PROVE Goal
  <2>1. CASE rid'[r] = i
    BY <1>2, <2>1 DEF StoreRequest
  <2>2. CASE rid'[r] # i
    <3>1. pendingRequests[i] # None
      BY <1>2, <2>2 DEF StoreRequest, GenerateRequestID
    <3> QED BY <1>0, <1>2, <3>1 DEF StoreRequest, InQueue
  <2> QED BY <2>1, <2>2
<1>3. ASSUME NEW r \in Requests, QueueRequest(r) PROVE Goal
  <2>1. /\ Len(pendingOrder') = Len(pendingOrder) + 1
        /\ pendingOrder'[Len(pendingOrder) + 1] = rid[r]
        /\ \A k \in 1 .. Len(pendingOrder) : pendingOrder'[k] = pendingOrder[k]
    BY <1>3 DEF QueueRequest, HandInv
  <2>2. rid[r] = i => InQueue(i)'
    <3>1. Len(pendingOrder) \in Nat
      OBVIOUS
    <3>2. Len(pendingOrder) + 1 \in 1 .. Len(pendingOrder')
      BY <2>1, <3>1
    <3> QED BY <2>1, <3>2, Zenon DEF InQueue
  <2>3. InQueue(i) => InQueue(i)'
    BY <2>1 DEF InQueue
  <2> QED BY <1>0, <1>3, <2>2, <2>3 DEF QueueRequest
<1>4. ASSUME NEW w \in Workers, NextPendingID(w) PROVE Goal
  <2>1. CASE i = Head(pendingOrder)
    BY <1>4, <2>1 DEF NextPendingID, Steps
  <2>2. CASE i # Head(pendingOrder)
    <3>1. InQueue(i) => InQueue(i)'
      <4> SUFFICES ASSUME NEW k \in 1 .. Len(pendingOrder), pendingOrder[k] = i
                   PROVE  InQueue(i)'
        BY DEF InQueue
      <4>1. k # 1 /\ k - 1 \in 1 .. Len(Tail(pendingOrder))
        BY <1>4, <2>2 DEF NextPendingID
      <4>2. Tail(pendingOrder)[k - 1] = i
        BY <1>4, <4>1 DEF NextPendingID
      <4> QED BY <1>4, <4>1, <4>2 DEF NextPendingID, InQueue
    <3> QED BY <1>0, <1>4, <3>1 DEF NextPendingID
  <2> QED BY <2>1, <2>2
<1>5. ASSUME NEW w \in Workers, Take(w) PROVE Goal
  <2>1. pendingRequests[i] # None /\ wid[w] # i
    BY <1>5 DEF Take
  <2> QED BY <1>0, <1>5, <2>1 DEF Take, InQueue
<1>6. ASSUME NEW w \in Workers,
             /\ UNCHANGED <<call, rid, queueVars, wid>>
             /\ wpc[w] # "take"
             /\ \A v \in Workers : v # w => wpc'[v] = wpc[v]
      PROVE  Goal
  BY <1>0, <1>6 DEF InQueue
<1>7. CASE Crash
  BY <1>7 DEF Crash
<1>8. CASE UNCHANGED vars
  BY <1>0, <1>8 DEF vars, InQueue
<1>9. ASSUME NEW w \in Workers,
             \/ Mark(w) \/ BuildFails(w) \/ CallDruid(w) \/ CreateFails(w)
             \/ CreateCSV(w) \/ Spill(w) \/ WriteFails(w) \/ RowsDone(w)
             \/ CloseCSV(w) \/ Publish(w) \/ DruidReplies(w)
      PROVE  Goal
  BY <1>6, <1>9
     DEF Mark, BuildFails, CallDruid, CreateFails, CreateCSV, Spill, WriteFails,
         RowsDone, CloseCSV, Publish, DruidReplies, DruidFails, DruidAnswers
<1> QED
  BY <1>1, <1>2, <1>3, <1>4, <1>5, <1>7, <1>8, <1>9
     DEF Next, Handler, AddPendingRequest, WorkerStep, Sleep

\* No request is left waiting with nobody to serve it, in any interleaving of
\* AddPendingRequest, NextPendingID and LoadAndDelete, colliding ids included.
THEOREM NothingStranded == Spec => []NoStrandedRequest
<1>1. Init => NoStrandedRequest
  BY DEF Init, NoStrandedRequest
<1>2. TypeInv <=> TypeOK /\ HandInv
  BY DEF TypeInv
<1> QED BY <1>1, <1>2, TypeCorrect, NoStrandedStep, PTL DEF Spec

-----------------------------------------------------------------------------
(* Places: with distinct ids an id is in one place at a time.               *)

\* A step of ProcessRequest that neither takes, marks nor publishes.
Quiet(w) ==
    /\ UNCHANGED <<call, rid, issued, pendingRequests, pendingOrder,
                   processingRequests, wid, wreq>>
    /\ wpc[w] \notin {"poll", "take", "mark"}
    /\ wpc'[w] \notin {"poll", "take", "mark"}
    /\ \A v \in Workers : v # w => wpc'[v] = wpc[v] /\ wout'[v] = wout[v]
    /\ wpc'[w] \in {"close", "publish"} => wout'[w] \in Terminal

\* Between the mark and the publication every step of a worker is quiet.
LEMMA QuietSteps ==
    ASSUME TypeInv, WorkerInv, NEW w \in Workers,
           \/ BuildFails(w) \/ CallDruid(w) \/ CreateFails(w)
           \/ CreateCSV(w) \/ Spill(w) \/ WriteFails(w) \/ RowsDone(w)
           \/ CloseCSV(w) \/ DruidReplies(w)
    PROVE  Quiet(w)
BY DEF TypeInv, TypeOK, WorkerInv, WorkOf, Works, Quiet, Terminal, Steps, callVars, queueVars,
       workVars, Goto, Return, BuildFails, CallDruid, CreateFails, CreateCSV,
       Spill, WriteFails, RowsDone, CloseCSV, DruidReplies, DruidFails, DruidAnswers

\* An id in the queue is drawn, waits in the map and is queued nowhere else;
\* popping the head leaves the rest as it was.
LEMMA TailFacts ==
    ASSUME TypeInv, pendingOrder # <<>>
    PROVE  /\ Head(pendingOrder) = pendingOrder[1]
           /\ 1 \in 1 .. Len(pendingOrder)
           /\ \A k \in 1 .. Len(Tail(pendingOrder)) :
                /\ k + 1 \in 1 .. Len(pendingOrder)
                /\ k + 1 # 1
                /\ Tail(pendingOrder)[k] = pendingOrder[k + 1]
           /\ Len(Tail(pendingOrder)) \in Nat
BY DEF TypeInv, TypeOK

\* Every step keeps each id in its one place when ids are not drawn twice.
LEMMA PlaceStep ==
    ASSUME UniqueIds, TypeInv, TypeInv', PlaceInv, [Next]_vars
    PROVE  PlaceInv'
<1> USE NoneAssumption DEF TypeInv, TypeOK, callVars, queueVars, workVars,
        Goto, Return, Holds, Works, Live
<1>1. ASSUME NEW r \in Requests, Reject(r) PROVE PlaceInv'
  <2>1. IdInv'
    BY <1>1 DEF Reject, PlaceInv, IdInv
  <2>2. QueueInv'
    <3>1. QueueInv
      BY DEF PlaceInv
    <3>2. \A q \in Requests : call'[q] = "stored" => call[q] = "stored"
      BY <1>1 DEF Reject
    <3>3. UNCHANGED <<rid, pendingOrder, pendingRequests, wpc, wid>>
      BY <1>1 DEF Reject
    <3> QED BY ONLY <3>1, <3>2, <3>3 DEF QueueInv, Holds
  <2>3. PendingInv'
    BY <1>1 DEF Reject, PlaceInv, PendingInv
  <2>4. StoredInv'
    BY <1>1 DEF Reject, PlaceInv, StoredInv
  <2>5. WorkerInv'
    BY <1>1 DEF Reject, PlaceInv, WorkerInv, WorkOf
  <2> QED BY <2>1, <2>2, <2>3, <2>4, <2>5 DEF PlaceInv
<1>2. ASSUME NEW r \in Requests, StoreRequest(r) PROVE PlaceInv'
  <2> PICK i \in Ids \ issued :
        /\ rid' = [rid EXCEPT ![r] = i]
        /\ issued' = issued \cup {i}
        /\ pendingRequests' = [pendingRequests EXCEPT ![i] = r]
    BY <1>2 DEF StoreRequest, GenerateRequestID
  <2> USE DEF StoreRequest
  <2>1. IdInv'
    BY <1>2 DEF PlaceInv, IdInv
  <2>2. QueueInv'
    BY <1>2 DEF PlaceInv, QueueInv, IdInv
  <2>3. PendingInv'
    BY <1>2 DEF PlaceInv, PendingInv, IdInv
  <2>4. StoredInv'
    BY <1>2 DEF PlaceInv, StoredInv, IdInv
  <2>5. WorkerInv'
    <3>1. \A v \in Workers : Works(v) => wreq[v] # r
      BY <1>2 DEF PlaceInv, WorkerInv, WorkOf, IdInv, HandInv
    <3> QED BY <1>2, <3>1 DEF PlaceInv, WorkerInv, WorkOf, IdInv, HandInv
  <2> QED BY <2>1, <2>2, <2>3, <2>4, <2>5 DEF PlaceInv
<1>3. ASSUME NEW r \in Requests, QueueRequest(r) PROVE PlaceInv'
  <2>1. /\ Len(pendingOrder') = Len(pendingOrder) + 1
        /\ pendingOrder'[Len(pendingOrder) + 1] = rid[r]
        /\ \A k \in 1 .. Len(pendingOrder) : pendingOrder'[k] = pendingOrder[k]
        /\ Len(pendingOrder) \in Nat
    BY <1>3 DEF QueueRequest, HandInv
  <2>2. \A k \in 1 .. Len(pendingOrder') :
           k \in 1 .. Len(pendingOrder) \/ k = Len(pendingOrder) + 1
    BY <2>1
  <2>3. IdInv'
    BY <1>3, <2>1, <2>2 DEF QueueRequest, PlaceInv, IdInv, HandInv
  <2>4. QueueInv'
    BY <1>3, <2>1, <2>2 DEF QueueRequest, PlaceInv, QueueInv, StoredInv, IdInv
  <2>5. PendingInv'
    BY <1>3 DEF QueueRequest, PlaceInv, PendingInv
  <2>6. StoredInv'
    BY <1>3 DEF QueueRequest, PlaceInv, StoredInv
  <2>7. WorkerInv'
    BY <1>3 DEF QueueRequest, PlaceInv, WorkerInv, WorkOf
  <2> QED BY <2>3, <2>4, <2>5, <2>6, <2>7 DEF PlaceInv
<1>4. ASSUME NEW w \in Workers, NextPendingID(w) PROVE PlaceInv'
  <2> USE DEF NextPendingID, Steps
  <2>1. pendingOrder # <<>> /\ pendingOrder' = Tail(pendingOrder)
    BY <1>4
  <2>2. IdInv'
    BY <1>4, <2>1, TailFacts DEF PlaceInv, IdInv
  <2>3. QueueInv'
    BY <1>4, <2>1, TailFacts DEF PlaceInv, QueueInv
  <2>4. PendingInv'
    BY <1>4 DEF PlaceInv, PendingInv
  <2>5. StoredInv'
    BY <1>4, <2>1, TailFacts DEF PlaceInv, StoredInv, QueueInv
  <2>6. WorkerInv'
    BY <1>4, <2>1, TailFacts DEF PlaceInv, WorkerInv, WorkOf, QueueInv
  <2> QED BY <2>2, <2>3, <2>4, <2>5, <2>6 DEF PlaceInv
<1>5. ASSUME NEW w \in Workers, Take(w) PROVE PlaceInv'
  <2> USE DEF Take, Steps
  <2>0. pendingRequests[wid[w]] # None
    BY <1>5 DEF PlaceInv, WorkerInv, WorkOf
  <2>1. IdInv'
    BY <1>5, <2>0 DEF PlaceInv, IdInv
  <2>2. QueueInv'
    BY <1>5, <2>0 DEF PlaceInv, QueueInv
  <2>3. PendingInv'
    <3> SUFFICES ASSUME NEW i \in Ids, pendingRequests'[i] # None
                 PROVE  /\ pendingRequests'[i] \in Live'
                        /\ rid'[pendingRequests'[i]] = i
                        /\ processingRequests'[i] = "none"
                        /\ \A v \in Workers : Works(v)' => wid'[v] # i
      BY DEF PendingInv
    <3>1. i # wid[w] /\ pendingRequests'[i] = pendingRequests[i]
      BY <1>5
    <3>2. \A v \in Workers : v # w => (Works(v)' <=> Works(v))
      BY <1>5, <2>0
    <3>3. UNCHANGED <<call, rid, processingRequests, wid>>
      BY <1>5
    <3>4. pendingRequests[i] \in Live /\ rid[pendingRequests[i]] = i
          /\ processingRequests[i] = "none"
          /\ \A v \in Workers : Works(v) => wid[v] # i
      BY <3>1 DEF PlaceInv, PendingInv
    <3> HIDE DEF Take
    <3> QED BY <3>1, <3>2, <3>3, <3>4
  <2>4. StoredInv'
    BY <1>5, <2>0 DEF PlaceInv, StoredInv
  <2>5. WorkerInv'
    <3>1. wpc' = [wpc EXCEPT ![w] = "mark"]
          /\ wreq' = [wreq EXCEPT ![w] = pendingRequests[wid[w]]]
          /\ UNCHANGED <<rid, processingRequests, wid, wout>>
      BY <1>5, <2>0
    <3>2. rid[pendingRequests[wid[w]]] = wid[w] /\ processingRequests[wid[w]] = "none"
      BY <1>5, <2>0 DEF PlaceInv, PendingInv, HandInv
    <3>3. \A v \in Workers : v # w => WorkOf(v)'
      <4> SUFFICES ASSUME NEW v \in Workers, v # w PROVE WorkOf(v)'
        OBVIOUS
      <4>1. wpc[v] = "take" => wid[v] # wid[w]
        BY <1>5 DEF PlaceInv, WorkerInv
      <4>2. wpc[v] = "take" => pendingRequests'[wid[v]] = pendingRequests[wid[v]]
        BY <1>5, <4>1
      <4> QED BY <3>1, <4>2 DEF PlaceInv, WorkerInv, WorkOf
    <3>4. WorkOf(w)'
      BY <3>1, <3>2 DEF WorkOf
    <3> QED BY <1>5, <3>1, <3>3, <3>4 DEF PlaceInv, WorkerInv
  <2> QED BY <2>1, <2>2, <2>3, <2>4, <2>5 DEF PlaceInv
<1>7. ASSUME NEW w \in Workers, Mark(w) PROVE PlaceInv'
  <2> USE DEF Mark, Steps
  <2>1. IdInv'
    BY <1>7 DEF PlaceInv, IdInv
  <2>2. QueueInv'
    BY <1>7 DEF PlaceInv, QueueInv
  <2>3. PendingInv'
    <3> SUFFICES ASSUME NEW i \in Ids, pendingRequests[i] # None
                 PROVE  /\ pendingRequests[i] \in Live'
                        /\ rid[pendingRequests[i]] = i
                        /\ processingRequests'[i] = "none"
                        /\ \A v \in Workers : Works(v)' => wid[v] # i
      BY <1>7 DEF PendingInv
    <3>1. wid[w] # i
      BY <1>7 DEF PlaceInv, PendingInv
    <3> QED BY <1>7, <3>1 DEF PlaceInv, PendingInv
  <2>4. StoredInv'
    BY <1>7 DEF PlaceInv, StoredInv
  <2>5. WorkerInv'
    <3>1. \A v \in Workers : v # w => wpc'[v] = wpc[v]
      BY <1>7
    <3>2. \A v \in Workers \ {w} : Holds(v) =>
             processingRequests'[wid[v]] = processingRequests[wid[v]]
      BY <1>7 DEF PlaceInv, WorkerInv, HandInv
    <3>3. \A v \in Workers \ {w} : WorkOf(v)'
      BY <1>7, <3>1, <3>2 DEF PlaceInv, WorkerInv, WorkOf
    <3>4. WorkOf(w)'
      <4>1. wpc'[w] = "run" /\ processingRequests'[wid[w]] = "processing"
        BY <1>7 DEF HandInv
      <4>2. rid[wreq[w]] = wid[w]
        BY <1>7 DEF PlaceInv, WorkerInv, WorkOf
      <4>3. UNCHANGED <<rid, wreq, wid, wout>>
        BY <1>7
      <4> QED BY ONLY <4>1, <4>2, <4>3 DEF WorkOf, Works
    <3> QED BY <1>7, <3>1, <3>3, <3>4 DEF PlaceInv, WorkerInv
  <2> QED BY <2>1, <2>2, <2>3, <2>4, <2>5 DEF PlaceInv
<1>8. ASSUME NEW w \in Workers, Quiet(w) PROVE PlaceInv'
  <2> USE DEF Quiet
  <2>1. IdInv'
    BY <1>8 DEF PlaceInv, IdInv
  <2>2. QueueInv'
    <3>1. QueueInv
      BY DEF PlaceInv
    <3>2. \A v \in Workers : Holds(v)' <=> Holds(v)
      BY <1>8
    <3> HIDE DEF Holds
    <3>3. UNCHANGED <<call, rid, pendingOrder, pendingRequests, wid>>
      BY <1>8
    <3> QED BY ONLY <3>1, <3>2, <3>3 DEF QueueInv
  <2>3. PendingInv'
    <3>1. \A v \in Workers : Works(v)' => Works(v)
      BY <1>8
    <3> QED BY <1>8, <3>1 DEF PlaceInv, PendingInv
  <2>4. StoredInv'
    BY <1>8 DEF PlaceInv, StoredInv
  <2>5. WorkerInv'
    <3>1. \A v \in Workers \ {w} : WorkOf(v)'
      BY <1>8 DEF PlaceInv, WorkerInv, WorkOf
    <3>2. WorkOf(w)'
      BY <1>8 DEF PlaceInv, WorkerInv, WorkOf
    <3> QED BY <1>8, <3>1, <3>2 DEF PlaceInv, WorkerInv
  <2> QED BY <2>1, <2>2, <2>3, <2>4, <2>5 DEF PlaceInv
<1>9. ASSUME NEW w \in Workers, Publish(w) PROVE PlaceInv'
  <2> USE DEF Publish, Steps
  <2>1. IdInv'
    BY <1>9 DEF PlaceInv, IdInv
  <2>2. QueueInv'
    BY <1>9 DEF PlaceInv, QueueInv
  <2>3. PendingInv'
    BY <1>9 DEF PlaceInv, PendingInv
  <2>4. StoredInv'
    BY <1>9 DEF PlaceInv, StoredInv
  <2>5. WorkerInv'
    BY <1>9 DEF PlaceInv, WorkerInv, WorkOf, HandInv
  <2> QED BY <2>1, <2>2, <2>3, <2>4, <2>5 DEF PlaceInv
<1>10. CASE Crash
  BY <1>10 DEF Crash, PlaceInv, IdInv, QueueInv, PendingInv, StoredInv, WorkerInv, WorkOf
<1>11. CASE UNCHANGED vars
  BY <1>11 DEF vars, PlaceInv, IdInv, QueueInv, PendingInv, StoredInv, WorkerInv, WorkOf
<1>12. ASSUME NEW w \in Workers,
              \/ BuildFails(w) \/ CallDruid(w) \/ CreateFails(w)
              \/ CreateCSV(w) \/ Spill(w) \/ WriteFails(w) \/ RowsDone(w)
              \/ CloseCSV(w) \/ DruidReplies(w)
       PROVE PlaceInv'
  <2> WorkerInv
    BY DEF PlaceInv
  <2> QED BY <1>8, <1>12, QuietSteps
<1> QED
  BY <1>1, <1>2, <1>3, <1>4, <1>5, <1>7, <1>9, <1>10, <1>11, <1>12
     DEF Next, Handler, AddPendingRequest, WorkerStep, Sleep

-----------------------------------------------------------------------------
\* With distinct ids every id is, at every moment, in one place only.
THEOREM PlaceInvariant ==
    ASSUME UniqueIds
    PROVE  Spec => []PlaceInv
<1>1. Init => PlaceInv
  BY DEF Init, PlaceInv, IdInv, QueueInv, PendingInv, StoredInv, WorkerInv,
         WorkOf, Holds, Works, Live
<1>2. TypeInv <=> TypeOK /\ HandInv
  BY DEF TypeInv
<1>3. TypeInv /\ TypeInv' /\ PlaceInv /\ [Next]_vars => PlaceInv'
  BY PlaceStep
<1> QED BY <1>1, <1>2, <1>3, TypeCorrect, PTL DEF Spec

\* NextPendingID and LoadAndDelete hand a report to one worker: no two workers
\* process, hence write the CSV file of, the same id.
THEOREM OneWorker ==
    ASSUME UniqueIds
    PROVE  Spec => []OneWorkerPerReport
<1>1. PlaceInv => OneWorkerPerReport
  BY DEF PlaceInv, WorkerInv, OneWorkerPerReport, Holds
<1> QED BY <1>1, PlaceInvariant, PTL

\* Only Mark and Publish store a status, and only for an id the worker holds.
LEMMA FinalStep ==
    ASSUME TypeInv, PlaceInv, [Next]_vars, NEW i \in Ids,
           processingRequests[i] \in Terminal
    PROVE  processingRequests'[i] = processingRequests[i] \/ crashes' # crashes
<1> USE DEF TypeInv, TypeOK, Terminal, callVars, queueVars, workVars
<1>1. ASSUME NEW w \in Workers, Mark(w) \/ Publish(w)
      PROVE  processingRequests'[i] = processingRequests[i]
  <2>1. wid[w] # i
    BY <1>1 DEF Mark, Publish, PlaceInv, WorkerInv, WorkOf, Works
  <2> QED BY <1>1, <2>1 DEF Mark, Publish
<1>2. CASE Crash
  BY <1>2 DEF Crash
<1>3. ASSUME NEW r \in Requests, Handler(r)
      PROVE  processingRequests'[i] = processingRequests[i]
  BY <1>3 DEF Handler, Reject, AddPendingRequest, StoreRequest, QueueRequest
<1>4. ASSUME NEW w \in Workers,
             \/ NextPendingID(w) \/ Take(w) \/ BuildFails(w)
             \/ CallDruid(w) \/ CreateFails(w) \/ CreateCSV(w) \/ Spill(w)
             \/ WriteFails(w) \/ RowsDone(w) \/ CloseCSV(w) \/ DruidReplies(w)
             \/ Sleep(w)
      PROVE  processingRequests'[i] = processingRequests[i]
  BY <1>4 DEF NextPendingID, Take, BuildFails, CallDruid,
      CreateFails, CreateCSV, Spill, WriteFails, RowsDone, CloseCSV,
      DruidReplies, DruidFails, DruidAnswers, Sleep, vars
<1> QED BY <1>1, <1>2, <1>3, <1>4 DEF Next, WorkerStep, vars

\* A published outcome is not revised by a later worker: complete and error
\* stay until the process that holds them dies.
THEOREM OutcomeIsFinal ==
    ASSUME UniqueIds
    PROVE  Spec => TerminalStatusIsFinal
<1>1. TypeInv /\ PlaceInv /\ [Next]_vars =>
         [\A i \in Ids : processingRequests[i] \in Terminal =>
             \/ processingRequests'[i] = processingRequests[i]
             \/ crashes' # crashes]_vars
  BY FinalStep
<1>2. TypeInv <=> TypeOK /\ HandInv
  BY DEF TypeInv
<1> QED
  BY <1>1, <1>2, TypeCorrect, PlaceInvariant, PTL DEF Spec, TerminalStatusIsFinal

-----------------------------------------------------------------------------
(* Refinement: the pool is a line of requests.                              *)

\* What a worker works on was answered and is not yet lost.
AnsweredInv == \A w \in Workers : Works(w) => call[wreq[w]] = "answered"

QState == [r \in Requests |-> StateOf(r)]
QLine == [k \in 1 .. Len(pendingOrder) |-> RequestOf(pendingOrder[k])]

\* A queued id belongs to a call that was answered.
LEMMA QueuedIsAnswered ==
    ASSUME TypeInv, PlaceInv, NEW k \in 1 .. Len(pendingOrder)
    PROVE  /\ pendingOrder[k] \in Ids
           /\ pendingRequests[pendingOrder[k]] \in Requests
           /\ call[pendingRequests[pendingOrder[k]]] = "answered"
           /\ rid[pendingRequests[pendingOrder[k]]] = pendingOrder[k]
<1>1. pendingOrder[k] \in Ids
  BY DEF TypeInv, TypeOK
<1> QED BY <1>1 DEF PlaceInv, QueueInv, PendingInv, Live

\* An id was drawn for one request.
LEMMA RequestOfId ==
    ASSUME PlaceInv, NEW q \in Requests, rid[q] # None
    PROVE  RequestOf(rid[q]) = q
BY DEF PlaceInv, IdInv, RequestOf

\* The request of the k-th id in the queue waits in the map.
LEMMA LineElement ==
    ASSUME TypeInv, PlaceInv, NEW k \in 1 .. Len(pendingOrder)
    PROVE  /\ QLine[k] = pendingRequests[pendingOrder[k]]
           /\ QLine[k] \in Requests
           /\ call[QLine[k]] = "answered"
           /\ rid[QLine[k]] = pendingOrder[k]
<1>1. PICK q \in Requests : q = pendingRequests[pendingOrder[k]]
  BY QueuedIsAnswered
<1>2. call[q] = "answered" /\ rid[q] = pendingOrder[k] /\ pendingOrder[k] \in Ids
  BY <1>1, QueuedIsAnswered
<1>3. RequestOf(rid[q]) = q
  BY <1>2, RequestOfId, NoneAssumption
<1> QED BY <1>1, <1>2, <1>3 DEF QLine

LEMMA LineIsSeq ==
    ASSUME TypeInv, PlaceInv
    PROVE  /\ QLine \in Seq(Requests)
           /\ Len(QLine) = Len(pendingOrder)
           /\ Len(pendingOrder) \in Nat
           /\ QLine # <<>> <=> pendingOrder # <<>>
<1>1. Len(pendingOrder) \in Nat
  BY DEF TypeInv, TypeOK
<1>2. \A k \in 1 .. Len(pendingOrder) : RequestOf(pendingOrder[k]) \in Requests
  BY LineElement DEF QLine
<1>3. QLine \in [1 .. Len(pendingOrder) -> Requests]
  BY <1>2 DEF QLine
<1>4. QLine \in Seq(Requests)
  BY <1>1, <1>3, SeqDef
<1>5. Len(QLine) = Len(pendingOrder)
  BY <1>1, <1>3, <1>4, LenProperties
<1>6. pendingOrder # <<>> <=> Len(pendingOrder) # 0
  BY DEF TypeInv, TypeOK
<1>7. QLine # <<>> <=> Len(QLine) # 0
  BY <1>4
<1> QED BY <1>1, <1>4, <1>5, <1>6, <1>7

\* The request of a worker stays answered until the process dies.
LEMMA AnsweredStep ==
    ASSUME TypeInv, PlaceInv, AnsweredInv, [Next]_vars
    PROVE  AnsweredInv'
<1> SUFFICES ASSUME NEW v \in Workers, Works(v)' PROVE call'[wreq'[v]] = "answered"
  BY DEF AnsweredInv
<1> USE DEF TypeInv, TypeOK, callVars, queueVars, workVars, Goto, Return, Works
<1>0. Works(v) => call[wreq[v]] = "answered" /\ wreq[v] \in Requests
  BY DEF AnsweredInv, HandInv
<1>1. ASSUME NEW r \in Requests, Handler(r) PROVE call'[wreq'[v]] = "answered"
  BY <1>0, <1>1 DEF Handler, Reject, AddPendingRequest, StoreRequest, QueueRequest
<1>2. CASE Take(v)
  <2>1. wid[v] \in Ids /\ pendingRequests[wid[v]] # None
    BY <1>2 DEF Take, HandInv, Holds, PlaceInv, WorkerInv, WorkOf
  <2>2. PICK q \in Requests : q = pendingRequests[wid[v]]
    BY <2>1
  <2>3. q \in Live /\ rid[q] = wid[v]
    BY <2>1, <2>2 DEF PlaceInv, PendingInv
  <2>4. call[q] # "stored"
    BY <1>2, <2>3 DEF Take, PlaceInv, StoredInv, Holds
  <2> QED BY <1>2, <2>1, <2>2, <2>3, <2>4 DEF Take, Live
<1>3. ASSUME NEW w \in Workers, Take(w), w # v PROVE call'[wreq'[v]] = "answered"
  BY <1>0, <1>3 DEF Take
<1>4. ASSUME NEW w \in Workers,
             \/ NextPendingID(w) \/ BuildFails(w) \/ CallDruid(w) \/ Mark(w)
             \/ CreateFails(w) \/ CreateCSV(w) \/ Spill(w) \/ WriteFails(w)
             \/ RowsDone(w) \/ CloseCSV(w) \/ DruidReplies(w) \/ Sleep(w) \/ Publish(w)
      PROVE  call'[wreq'[v]] = "answered"
  BY <1>0, <1>4 DEF NextPendingID, BuildFails, CallDruid, Mark, CreateFails, CreateCSV,
     Spill, WriteFails, RowsDone, CloseCSV, DruidReplies, DruidFails, DruidAnswers, Sleep,
     Publish, vars
<1>5. CASE Crash
  BY <1>5 DEF Crash
<1>6. CASE UNCHANGED vars
  BY <1>0, <1>6 DEF vars
<1> QED BY <1>1, <1>2, <1>3, <1>4, <1>5, <1>6 DEF Next, WorkerStep

-----------------------------------------------------------------------------
(* What a step does to the state of a request and to the line.              *)

\* A request none of whose marks moved is where it was.
LEMMA StateStays ==
    ASSUME TypeInv, NEW r \in Requests, NEW i, rid[r] = i, rid'[r] = i, call'[r] = call[r],
           call[r] = "answered" =>
             /\ InQueue(i)' <=> InQueue(i)
             /\ Held(i)' <=> Held(i)
             /\ ~InQueue(i) /\ ~Held(i) => processingRequests'[i] = processingRequests[i]
    PROVE  StateOf(r)' = StateOf(r)
<1>1. (InQueue(rid[r])' <=> InQueue(i)') /\ (Held(rid[r])' <=> Held(i)')
  BY DEF InQueue, Held
<1>2. CASE call[r] = "answered"
  <2>1. InQueue(rid[r])' <=> InQueue(rid[r])
    BY <1>1, <1>2
  <2>2. Held(rid[r])' <=> Held(rid[r])
    BY <1>1, <1>2
  <2>3. ~InQueue(rid[r]) /\ ~Held(rid[r]) =>
           processingRequests[rid[r]]' = processingRequests[rid[r]]
    BY <1>2
  <2> QED BY <1>2, <2>1, <2>2, <2>3 DEF StateOf
<1>3. CASE call[r] \in {"idle", "rejected", "lost", "stored"}
  BY <1>3 DEF StateOf
<1> QED BY <1>2, <1>3 DEF TypeInv, TypeOK, CallStates

\* The line is the same when the ids in the queue and their owners are.
LEMMA LineStays ==
    ASSUME UNCHANGED <<rid, pendingOrder>>
    PROVE  UNCHANGED QLine
BY DEF QLine, RequestOf

\* One request moves and the others stay.
LEMMA MoveOf ==
    ASSUME NEW q \in Requests, NEW to, StateOf(q)' = to,
           \A r \in Requests : r # q => StateOf(r)' = StateOf(r)
    PROVE  Queue!Move(q, to)
BY DEF Queue!Move

\* Between the removal from the queue and the publication nothing is visible.
LEMMA InvisibleStep ==
    ASSUME TypeInv, PlaceInv, NEW w \in Workers,
           UNCHANGED <<call, rid, pendingOrder, wid>>,
           wpc[w] # "poll", wpc'[w] # "poll",
           \A v \in Workers : v # w => wpc'[v] = wpc[v],
           \A i \in Ids : i # wid[w] => processingRequests'[i] = processingRequests[i]
    PROVE  UNCHANGED <<QState, QLine>>
<1>1. ASSUME NEW i PROVE (Held(i)' <=> Held(i)) /\ (InQueue(i)' <=> InQueue(i))
  BY DEF Held, InQueue
<1>2. ASSUME NEW r \in Requests PROVE StateOf(r)' = StateOf(r)
  <2>1. call[r] = "answered" /\ ~Held(rid[r]) =>
           processingRequests'[rid[r]] = processingRequests[rid[r]]
    BY DEF Held, TypeInv, TypeOK, PlaceInv, IdInv, Live
  <2> QED BY <1>1, <2>1, StateStays
<1> QED BY <1>2, LineStays DEF QState

-----------------------------------------------------------------------------
(* Every step of the pool is a step of the queue, or is invisible in it.    *)

LEMMA RefuseStep ==
    ASSUME TypeInv, NEW q \in Requests, Reject(q)
    PROVE  Queue!Refuse(q)
<1> USE DEF Reject, callVars, queueVars, workVars
<1>1. StateOf(q) = "new" /\ StateOf(q)' = "refused"
  BY DEF StateOf, TypeInv, TypeOK
<1>2. ASSUME NEW r \in Requests, r # q PROVE StateOf(r)' = StateOf(r)
  BY <1>2, StateStays DEF InQueue, Held, TypeInv, TypeOK
<1>3. Queue!Move(q, "refused")
  BY <1>1, <1>2, MoveOf
<1>4. UNCHANGED <<QLine, crashes>>
  BY LineStays
<1> QED BY <1>1, <1>3, <1>4 DEF Queue!Refuse, QLine

\* The id is new: no request in the line had it.
LEMMA AcceptStep ==
    ASSUME UniqueIds, TypeInv, PlaceInv, TypeInv', PlaceInv', NEW q \in Requests, StoreRequest(q)
    PROVE  Queue!Accept(q)
<1> USE DEF StoreRequest, callVars, queueVars, workVars
<1>1. StateOf(q) = "new" /\ StateOf(q)' = "accepted"
  BY DEF StateOf, TypeInv, TypeOK
<1>2. ASSUME NEW r \in Requests, r # q PROVE StateOf(r)' = StateOf(r) /\ rid'[r] = rid[r]
  BY <1>2, StateStays DEF InQueue, Held, TypeInv, TypeOK
<1>3. Queue!Move(q, "accepted")
  BY <1>1, <1>2, MoveOf
<1>4. UNCHANGED QLine
  <2>1. ASSUME NEW k \in 1 .. Len(pendingOrder)
        PROVE  RequestOf(pendingOrder[k])' = RequestOf(pendingOrder[k])
    <3>1. PICK p \in Requests : call[p] = "answered" /\ rid[p] = pendingOrder[k] /\ rid[p] \in Ids
      BY QueuedIsAnswered
    <3>2. RequestOf(pendingOrder[k]) = p
      BY <3>1, RequestOfId, NoneAssumption
    <3>3. p # q
      BY <3>1
    <3>4. rid'[p] = pendingOrder[k]
      BY <1>2, <3>1, <3>3
    <3>5. \A r \in Requests : rid'[r] = pendingOrder[k] => r = p
      BY <3>1, <3>4, NoneAssumption DEF PlaceInv, IdInv
    <3>6. RequestOf(pendingOrder[k])' = p
      BY <3>4, <3>5 DEF RequestOf
    <3> QED BY <3>2, <3>6
  <2> QED BY <2>1 DEF QLine
<1> QED BY <1>1, <1>3, <1>4 DEF Queue!Accept, QLine

\* The id goes to the end of the queue, and so does its request.
LEMMA JoinStep ==
    ASSUME TypeInv, PlaceInv, TypeInv', PlaceInv', NEW q \in Requests, QueueRequest(q)
    PROVE  Queue!Join(q)
<1> USE DEF QueueRequest, callVars, queueVars, workVars
<1>1. rid[q] \in Ids /\ rid[q] # None
  BY NoneAssumption DEF TypeInv, HandInv
<1>2. /\ Len(pendingOrder') = Len(pendingOrder) + 1
      /\ pendingOrder'[Len(pendingOrder) + 1] = rid[q]
      /\ \A k \in 1 .. Len(pendingOrder) : pendingOrder'[k] = pendingOrder[k]
      /\ Len(pendingOrder) \in Nat
  BY <1>1 DEF TypeInv, TypeOK
<1>3. ASSUME NEW i PROVE InQueue(i)' <=> InQueue(i) \/ i = rid[q]
  BY <1>2 DEF InQueue
<1>4. StateOf(q) = "accepted" /\ StateOf(q)' = "waiting"
  <2>1. InQueue(rid[q])'
    BY <1>3 DEF InQueue
  <2> QED BY <2>1 DEF StateOf, TypeInv, TypeOK
<1>5. ASSUME NEW r \in Requests, r # q PROVE StateOf(r)' = StateOf(r)
  <2>1. rid[r] # rid[q]
    BY <1>1, <1>5 DEF PlaceInv, IdInv
  <2>2. \A i : Held(i)' <=> Held(i)
    BY DEF Held
  <2> QED BY <1>3, <1>5, <2>1, <2>2, StateStays DEF TypeInv, TypeOK
<1>6. Queue!Move(q, "waiting")
  BY <1>4, <1>5, MoveOf
<1>7. QLine' = Append(QLine, q)
  <2>1. QLine \in Seq(Requests) /\ Len(QLine) = Len(pendingOrder)
    BY LineIsSeq
  <2>3. RequestOf(rid[q]) = q
    BY <1>1, RequestOfId
  <2>4. \A i : RequestOf(i)' = RequestOf(i)
    BY DEF RequestOf
  <2>5. \A k \in 1 .. Len(pendingOrder) : QLine'[k] = QLine[k]
    BY <1>2, <2>4 DEF QLine
  <2>6. QLine'[Len(pendingOrder) + 1] = q
    BY <1>2, <2>3, <2>4 DEF QLine
  <2>2. QLine' \in Seq(Requests) /\ Len(QLine') = Len(pendingOrder')
    <3>1. \A k \in 1 .. Len(pendingOrder') : QLine'[k] \in Requests
      BY <1>2, <2>1, <2>5, <2>6
    <3>2. QLine' \in [1 .. Len(pendingOrder') -> Requests]
      BY <3>1 DEF QLine
    <3> HIDE DEF QLine
    <3> QED BY <1>2, <3>2, SeqDef, LenProperties
  <2>7. Append(QLine, q) \in Seq(Requests) /\ Len(Append(QLine, q)) = Len(QLine')
    BY <1>2, <2>1, <2>2
  <2>8. \A k \in 1 .. Len(QLine') : QLine'[k] = Append(QLine, q)[k]
    BY <1>2, <2>1, <2>2, <2>5, <2>6
  <2> HIDE DEF QLine
  <2> QED BY <2>2, <2>7, <2>8, SeqEqual
<1> QED BY <1>4, <1>6, <1>7 DEF Queue!Join, QLine

\* Who is running, and who is still new.
LEMMA StateMeans ==
    ASSUME TypeInv, PlaceInv, NEW r \in Requests
    PROVE  /\ StateOf(r) = "running" => call[r] = "answered" /\ Held(rid[r]) /\ rid[r] # None
           /\ StateOf(r) \in {"new", "refused"} <=> call[r] \in {"idle", "rejected"}
<1>1. CASE call[r] = "answered"
  <2>1. rid[r] # None /\ processingRequests[rid[r]] \in Statuses
    BY <1>1 DEF TypeInv, TypeOK, PlaceInv, IdInv, Live
  <2>2. processingRequests[rid[r]] \notin {"new", "refused", "running"}
    BY <2>1 DEF Statuses
  <2> QED BY <1>1, <2>1, <2>2 DEF StateOf
<1>2. CASE call[r] \in {"idle", "rejected", "lost", "stored"}
  BY <1>2 DEF StateOf
<1> QED BY <1>1, <1>2 DEF TypeInv, TypeOK, CallStates

\* A worker with its hands free is not serving: there is room for one more.
LEMMA RoomForOne ==
    ASSUME TypeInv, PlaceInv, NEW w \in Workers, wpc[w] = "poll"
    PROVE  Cardinality({r \in Requests : StateOf(r) = "running"}) < Cardinality(Workers)
<1> DEFINE Run == {r \in Requests : StateOf(r) = "running"}
           Hand(r) == CHOOSE v \in Workers : wpc[v] # "poll" /\ wid[v] = rid[r]
           f == [r \in Run |-> Hand(r)]
<1>1. ASSUME NEW r \in Run
      PROVE  rid[r] # None /\ Hand(r) \in Workers /\ wpc[Hand(r)] # "poll" /\ wid[Hand(r)] = rid[r]
  <2>1. call[r] = "answered" /\ Held(rid[r])
    BY StateMeans
  <2> QED BY <2>1, StateMeans DEF Held
<1>2. f \in [Run -> Workers \ {w}]
  BY <1>1
<1>3. \A q, r \in Run : f[q] = f[r] => q = r
  BY <1>1 DEF PlaceInv, IdInv
<1>4. f \in Injection(Run, Workers \ {w})
  BY <1>2, <1>3 DEF Injection, IsInjective
<1> HIDE DEF f, Run
<1>5. IsFiniteSet(Workers \ {w}) /\ Cardinality(Workers \ {w}) = Cardinality(Workers) - 1
  BY WorkersAssumption, FS_RemoveElement
<1>6. Cardinality(Run) <= Cardinality(Workers \ {w})
  BY <1>4, <1>5, FS_Injection
<1>7. IsFiniteSet(Run)
  BY <1>4, <1>5, FS_Injection
<1>8. Cardinality(Workers) \in Nat /\ Cardinality(Run) \in Nat
  BY <1>7, WorkersAssumption, FS_CardinalityType
<1> QED BY <1>5, <1>6, <1>8 DEF Run

\* The worker takes the id at the head, and so the request at the head.
LEMMA ClaimStep ==
    ASSUME TypeInv, PlaceInv, TypeInv', NEW w \in Workers, NextPendingID(w)
    PROVE  Queue!Claim
<1> USE DEF NextPendingID, callVars, queueVars, workVars, Goto
<1>1. /\ pendingOrder # <<>> /\ 1 \in 1 .. Len(pendingOrder)
      /\ Len(pendingOrder) \in Nat
      /\ wid'[w] = pendingOrder[1] /\ wpc[w] = "poll" /\ wpc'[w] = "take"
      /\ pendingOrder' = Tail(pendingOrder)
      /\ Len(Tail(pendingOrder)) = Len(pendingOrder) - 1
      /\ \A k \in 1 .. Len(Tail(pendingOrder)) :
            k + 1 \in 2 .. Len(pendingOrder) /\ Tail(pendingOrder)[k] = pendingOrder[k + 1]
  BY TailFacts DEF TypeInv, TypeOK
<1>2. PICK q \in Requests : q = QLine[1] /\ call[q] = "answered" /\ rid[q] = pendingOrder[1]
  BY <1>1, LineElement
<1>3. QLine \in Seq(Requests) /\ Len(QLine) = Len(pendingOrder) /\ QLine # <<>>
  BY <1>1, LineIsSeq
<1>4. Head(QLine) = q
  BY <1>2, <1>3
<1>5. ASSUME NEW i PROVE InQueue(i)' <=> InQueue(i) /\ i # pendingOrder[1]
  <2>1. InQueue(i) <=> \E k \in 1 .. Len(pendingOrder) : pendingOrder[k] = i
    BY DEF InQueue
  <2>2. InQueue(i)' <=> \E k \in 1 .. Len(Tail(pendingOrder)) : Tail(pendingOrder)[k] = i
    BY DEF InQueue
  <2>3. \A k \in 1 .. Len(pendingOrder) : k # 1 => pendingOrder[k] # pendingOrder[1]
    BY <1>1 DEF PlaceInv, QueueInv
  <2>4. \A k \in 1 .. Len(pendingOrder) : k # 1 =>
           k - 1 \in 1 .. Len(Tail(pendingOrder)) /\ Tail(pendingOrder)[k - 1] = pendingOrder[k]
    BY <1>1
  <2> QED BY <1>1, <2>1, <2>2, <2>3, <2>4
<1>6. ASSUME NEW i PROVE Held(i)' <=> Held(i) \/ i = pendingOrder[1]
  BY <1>1 DEF Held, TypeInv, TypeOK
<1>7. StateOf(q) = "waiting" /\ StateOf(q)' = "running"
  <2>1. InQueue(rid[q])
    BY <1>1, <1>2 DEF InQueue
  <2>2. ~InQueue(rid[q])' /\ Held(rid[q])'
    BY <1>2, <1>5, <1>6 DEF InQueue, Held
  <2> QED BY <1>2, <2>1, <2>2 DEF StateOf
<1>8. ASSUME NEW r \in Requests, r # q PROVE StateOf(r)' = StateOf(r)
  <2>1. call[r] = "answered" => rid[r] # pendingOrder[1]
    BY <1>2, <1>8 DEF PlaceInv, IdInv, Live
  <2> QED BY <1>5, <1>6, <2>1, StateStays
<1>9. Queue!Move(q, "running")
  BY <1>2, <1>7, <1>8, MoveOf
<1>10. QLine' = Tail(QLine)
  <2>1. \A i : RequestOf(i)' = RequestOf(i)
    BY DEF RequestOf
  <2>2. \A k \in 1 .. Len(pendingOrder') : QLine'[k] = QLine[k + 1] /\ QLine[k + 1] \in Requests
    <3>1. \A k \in 1 .. Len(pendingOrder') : QLine'[k] = RequestOf(pendingOrder'[k])
      BY <2>1 DEF QLine
    <3>2. \A k \in 1 .. Len(pendingOrder) : QLine[k] = RequestOf(pendingOrder[k])
      BY DEF QLine
    <3> QED BY <1>1, <1>3, <3>1, <3>2
  <2>3. QLine' \in [1 .. Len(pendingOrder') -> Requests]
    BY <2>2 DEF QLine
  <2>4. QLine' \in Seq(Requests) /\ Len(QLine') = Len(pendingOrder')
    <3>1. Len(pendingOrder') \in Nat
      BY <1>1
    <3> QED BY ONLY <2>3, <3>1, SeqDef, LenProperties
  <2>5. /\ Tail(QLine) \in Seq(Requests) /\ Len(Tail(QLine)) = Len(QLine) - 1
        /\ \A k \in 1 .. Len(Tail(QLine)) : Tail(QLine)[k] = QLine[k + 1]
    BY <1>3, HeadTailProperties
  <2> QED BY <1>1, <1>3, <2>2, <2>4, <2>5, SeqEqual, SMTT(30)
<1>11. Cardinality(Queue!Running) < Cardinality(Workers)
  BY <1>1, RoomForOne DEF Queue!Running
<1>12. Queue!Move(Head(QLine), "running")
  BY <1>4, <1>9
<1>14. Queue!Cardinality(Queue!Running) = Cardinality(Queue!Running)
  BY ONLY DEF Queue!Cardinality, Cardinality
<1>13. UNCHANGED crashes
  OBVIOUS
<1> QED BY ONLY <1>3, <1>10, <1>11, <1>12, <1>13, <1>14 DEF Queue!Claim, QLine

\* The worker publishes the outcome of the request it has in hand.
LEMMA FinishStep ==
    ASSUME TypeInv, PlaceInv, AnsweredInv, NEW w \in Workers, Publish(w)
    PROVE  Queue!Finish(wreq[w])
<1> USE DEF Publish, callVars, queueVars, workVars, Goto
<1>1. PICK q \in Requests :
        /\ q = wreq[w] /\ call[q] = "answered" /\ rid[q] = wid[w]
        /\ wid[w] \in Ids /\ wpc[w] = "publish" /\ wpc'[w] = "poll"
        /\ wout[w] \in {"complete", "error"}
  BY DEF AnsweredInv, Works, Holds, TypeInv, TypeOK, HandInv, PlaceInv, WorkerInv, WorkOf, Terminal
<1>2. ~InQueue(wid[w]) /\ Held(wid[w])
  BY <1>1 DEF InQueue, Held, PlaceInv, QueueInv, Holds
<1>3. ASSUME NEW i PROVE (InQueue(i)' <=> InQueue(i)) /\ (Held(i)' <=> Held(i) /\ i # wid[w])
  BY <1>1 DEF InQueue, Held, PlaceInv, WorkerInv, Holds, TypeInv, TypeOK
<1>4. StateOf(q) = "running" /\ StateOf(q)' = wout[w]
  <2>1. rid'[q] = wid[w]
    BY <1>1
  <2>2. ~InQueue(rid[q])'
    BY <1>2, <1>3, <2>1 DEF InQueue
  <2>3. ~Held(rid[q])'
    BY <1>3, <2>1 DEF Held
  <2>4. processingRequests'[rid'[q]] = wout[w]
    BY <1>1, <2>1 DEF TypeInv, TypeOK
  <2> QED BY <1>1, <1>2, <2>2, <2>3, <2>4 DEF StateOf
<1>5. ASSUME NEW r \in Requests, r # q PROVE StateOf(r)' = StateOf(r)
  <2>1. call[r] = "answered" => rid[r] # wid[w]
    BY <1>1, <1>5 DEF PlaceInv, IdInv, Live
  <2>2. call[r] = "answered" => processingRequests'[rid[r]] = processingRequests[rid[r]]
    BY <2>1 DEF TypeInv, TypeOK, PlaceInv, IdInv, Live
  <2> QED BY <1>3, <2>1, <2>2, StateStays
<1>6. Queue!Move(q, wout[w])
  BY <1>1, <1>4, <1>5, MoveOf
<1>7. UNCHANGED <<QLine, crashes>>
  BY LineStays
<1> QED BY <1>1, <1>4, <1>6, <1>7 DEF Queue!Finish, QLine

\* A crash forgets whatever the handlers had accepted.
LEMMA RestartStep ==
    ASSUME TypeInv, PlaceInv, Crash
    PROVE  Queue!Restart
<1>1. ASSUME NEW r \in Requests
      PROVE  StateOf(r)' = IF StateOf(r) \in {"new", "refused"} THEN StateOf(r) ELSE "lost"
  <2>1. CASE call[r] \in {"idle", "rejected"}
    <3>1. StateOf(r)' = StateOf(r)
      BY <2>1 DEF StateOf, Crash
    <3> QED BY <2>1, <3>1, StateMeans
  <2>2. CASE call[r] \in {"stored", "answered", "lost"}
    <3>1. StateOf(r)' = "lost"
      BY <2>2 DEF StateOf, Crash
    <3> QED BY <2>2, <3>1, StateMeans
  <2> QED BY <2>1, <2>2 DEF TypeInv, TypeOK, CallStates
<1>2. QLine' = <<>>
  <2>1. QLine' \in [1 .. 0 -> Requests]
    BY DEF QLine, Crash
  <2> HIDE DEF QLine
  <2>2. QLine' \in Seq(Requests) /\ Len(QLine') = 0
    BY <2>1, SeqDef, LenProperties
  <2> QED BY <2>2, EmptySeq
<1>3. crashes' = crashes + 1
  BY DEF Crash
<1> QED BY <1>1, <1>2, <1>3 DEF Queue!Restart, QLine

LEMMA QueueStep ==
    ASSUME UniqueIds, TypeInv, TypeInv', PlaceInv, PlaceInv', AnsweredInv, [Next]_vars
    PROVE  [Queue!Next]_(Queue!qvars)
<1>0. UNCHANGED <<QState, QLine, crashes>> => UNCHANGED Queue!qvars
  BY DEF QState, QLine, Queue!qvars
<1>1. ASSUME NEW r \in Requests, Handler(r) PROVE Queue!Next
  <2>1. Queue!Refuse(r) \/ Queue!Accept(r) \/ Queue!Join(r)
    BY <1>1, RefuseStep, AcceptStep, JoinStep DEF Handler, AddPendingRequest
  <2> QED BY <2>1 DEF Queue!Next
<1>2. ASSUME NEW w \in Workers, NextPendingID(w) PROVE Queue!Next
  BY <1>2, ClaimStep DEF Queue!Next
<1>3. ASSUME NEW w \in Workers, Publish(w) PROVE Queue!Next
  <2>1. wreq[w] \in Requests
    BY <1>3 DEF Publish, TypeInv, HandInv, Works
  <2> QED BY <1>3, <2>1, FinishStep DEF Queue!Next
<1>4. CASE Crash
  BY <1>4, RestartStep DEF Queue!Next
<1>5. ASSUME NEW w \in Workers, Take(w) \/ Mark(w) PROVE UNCHANGED <<QState, QLine, crashes>>
  <2>1. Holds(w) => wpc[w] # "take" \/ pendingRequests[wid[w]] # None
    BY DEF PlaceInv, WorkerInv, WorkOf
  <2>2. /\ UNCHANGED <<call, rid, pendingOrder, wid, crashes>>
        /\ wpc[w] # "poll" /\ wpc'[w] # "poll"
        /\ \A v \in Workers : v # w => wpc'[v] = wpc[v]
        /\ \A i \in Ids : i # wid[w] => processingRequests'[i] = processingRequests[i]
    BY <1>5, <2>1 DEF Take, Mark, Goto, Holds, callVars, queueVars, workVars, TypeInv, TypeOK
  <2> QED BY <2>2, InvisibleStep
<1>6. ASSUME NEW w \in Workers,
             \/ BuildFails(w) \/ CallDruid(w) \/ CreateFails(w) \/ CreateCSV(w) \/ Spill(w)
             \/ WriteFails(w) \/ RowsDone(w) \/ CloseCSV(w) \/ DruidReplies(w)
      PROVE  UNCHANGED <<QState, QLine, crashes>>
  <2>1. Quiet(w)
    BY <1>6, QuietSteps DEF PlaceInv
  <2>2. UNCHANGED crashes
    BY <1>6 DEF BuildFails, CallDruid, CreateFails, CreateCSV, Spill, WriteFails, RowsDone,
       CloseCSV, DruidReplies, DruidFails, DruidAnswers
  <2> QED BY <2>1, <2>2, InvisibleStep DEF Quiet
<1>7. CASE UNCHANGED vars
  <2>1. \A r \in Requests : StateOf(r)' = StateOf(r)
    BY <1>7 DEF vars, callVars, queueVars, workVars, StateOf, InQueue, Held
  <2> QED BY <1>0, <1>7, <2>1, LineStays DEF vars, callVars, queueVars, QState
<1> QED
  BY <1>0, <1>1, <1>2, <1>3, <1>4, <1>5, <1>6, <1>7 DEF Next, WorkerStep, Sleep

\* With distinct ids the pool is the line of requests that ReportQueue promises:
\* each request is served once, in the order in which it was queued, no more at
\* a time than there are workers, and settled once; only a crash forgets it.
THEOREM PoolIsAQueue ==
    ASSUME UniqueIds
    PROVE  Spec => ImplementsQueue
<1>1. Init => Queue!Init
  <2> SUFFICES ASSUME Init PROVE Queue!Init
    OBVIOUS
  <2>1. \A r \in Requests : StateOf(r) = "new"
    BY DEF Init, StateOf
  <2>2. [k \in 1 .. Len(pendingOrder) |-> RequestOf(pendingOrder[k])] = <<>>
    <3> DEFINE L == [k \in 1 .. Len(pendingOrder) |-> RequestOf(pendingOrder[k])]
    <3>1. L \in [1 .. 0 -> Requests]
      BY DEF Init
    <3> HIDE DEF L
    <3>2. L \in Seq(Requests) /\ Len(L) = 0
      BY <3>1, SeqDef, LenProperties
    <3> QED BY <3>2, EmptySeq DEF L
  <2> QED BY <2>1, <2>2 DEF Init, Queue!Init
<1>2. Init => AnsweredInv
  BY DEF Init, AnsweredInv, Works
<1>3. TypeInv /\ PlaceInv /\ AnsweredInv /\ [Next]_vars => AnsweredInv'
  BY AnsweredStep
<1>4. TypeInv /\ TypeInv' /\ PlaceInv /\ PlaceInv' /\ AnsweredInv /\ [Next]_vars
        => [Queue!Next]_(Queue!qvars)
  BY QueueStep
<1>5. TypeInv <=> TypeOK /\ HandInv
  BY DEF TypeInv
<1> QED
  BY <1>1, <1>2, <1>3, <1>4, <1>5, TypeCorrect, PlaceInvariant, PTL
     DEF Spec, ImplementsQueue, Queue!Spec

-----------------------------------------------------------------------------
(* Files: with distinct ids and a disk that accepts writes.                 *)

\* A worker that has created its file touches nobody else's: neither that of
\* another worker nor that of a report published complete.
LEMMA OwnFile ==
    ASSUME TypeInv, PlaceInv, NEW w \in Workers, Works(w), wpc[w] # "mark"
    PROVE  /\ \A v \in Workers : v # w /\ Works(v) => wid[v] # wid[w]
           /\ \A r \in Requests :
                rid[r] # None /\ processingRequests[rid[r]] = "complete" =>
                    rid[r] # wid[w]
           /\ \A r \in Requests : rid[r] = wid[w] => r = wreq[w]
           /\ wid[w] \in Ids /\ wreq[w] \in Requests
BY NoneAssumption
   DEF TypeInv, TypeOK, HandInv, PlaceInv, WorkerInv, WorkOf, IdInv, Works, Holds

\* Every step keeps the files whole.
LEMMA FileStep ==
    ASSUME UniqueIds, ~FlushMayFail, TypeInv, TypeInv', PlaceInv, PlaceInv',
           FileInv, [Next]_vars
    PROVE  FileInv'
<1> USE NoneAssumption DEF TypeInv, TypeOK, callVars, queueVars, workVars,
        Goto, Return, Files, WholeFile
<1>0. /\ \A v \in Workers : FileOf(v)
      /\ \A r \in Requests : PublishedOf(r)
  BY DEF FileInv
<1>1. ASSUME NEW r \in Requests, Handler(r) PROVE FileInv'
  <2>1. \A v \in Workers : FileOf(v)'
    BY <1>0, <1>1 DEF Handler, Reject, AddPendingRequest, StoreRequest,
       QueueRequest, FileOf
  <2>2. \A q \in Requests : PublishedOf(q)'
    <3>1. CASE StoreRequest(r)
      BY <1>0, <3>1 DEF StoreRequest, GenerateRequestID, PublishedOf, PlaceInv,
         IdInv
    <3>2. CASE Reject(r) \/ QueueRequest(r)
      BY <1>0, <3>2 DEF Reject, QueueRequest, PublishedOf
    <3> QED BY <1>1, <3>1, <3>2 DEF Handler, AddPendingRequest
  <2> QED BY <2>1, <2>2 DEF FileInv
<1>2. ASSUME NEW w \in Workers,
             NextPendingID(w) \/ Take(w) \/ Mark(w)
      PROVE  FileInv'
  <2>1. \A v \in Workers : FileOf(v)'
    <3> SUFFICES ASSUME NEW v \in Workers PROVE FileOf(v)'
      OBVIOUS
    <3> USE DEF NextPendingID, Take, Mark
    <3>1. CASE v = w
      BY <1>2, <3>1 DEF FileOf, Steps
    <3>2. CASE v # w
      <4>1. UNCHANGED <<wpc[v], wid[v], wreq[v], wout[v], csv>>
        BY <1>2, <3>2
      <4> QED BY <1>0, <4>1 DEF FileOf
    <3> QED BY <3>1, <3>2
  <2>2. \A r \in Requests : PublishedOf(r)'
    BY <1>0, <1>2 DEF NextPendingID, Take, Mark, PublishedOf
  <2> QED BY <2>1, <2>2 DEF FileInv
<1>3. ASSUME NEW w \in Workers,
             \/ BuildFails(w) \/ CallDruid(w) \/ DruidReplies(w) \/ RowsDone(w)
      PROVE  FileInv'
  <2> USE DEF BuildFails, CallDruid, DruidReplies, DruidFails, DruidAnswers,
          RowsDone
  <2>1. \A v \in Workers : FileOf(v)'
    <3> SUFFICES ASSUME NEW v \in Workers PROVE FileOf(v)'
      OBVIOUS
    <3>1. CASE v = w
      BY <1>0, <1>3, <3>1 DEF FileOf, Steps
    <3>2. CASE v # w
      <4>1. UNCHANGED <<wpc[v], wid[v], wreq[v], wout[v], csv>>
        BY <1>3, <3>2
      <4> QED BY <1>0, <4>1 DEF FileOf
    <3> QED BY <3>1, <3>2
  <2>2. \A r \in Requests : PublishedOf(r)'
    BY <1>0, <1>3 DEF PublishedOf
  <2> QED BY <2>1, <2>2 DEF FileInv
<1>4. ASSUME NEW w \in Workers, CreateFails(w) \/ WriteFails(w) PROVE FileInv'
  <2> USE DEF CreateFails, WriteFails
  <2>1. \A v \in Workers : FileOf(v)'
    <3> SUFFICES ASSUME NEW v \in Workers PROVE FileOf(v)'
      OBVIOUS
    <3>1. CASE v = w
      BY <1>0, <1>4, <3>1 DEF FileOf, Steps
    <3>2. CASE v # w
      <4>1. UNCHANGED <<wpc[v], wid[v], wreq[v], wout[v], csv>>
        BY <1>4, <3>2
      <4> QED BY <1>0, <4>1 DEF FileOf
    <3> QED BY <3>1, <3>2
  <2>2. \A r \in Requests : PublishedOf(r)'
    BY <1>0, <1>4 DEF PublishedOf
  <2> QED BY <2>1, <2>2 DEF FileInv
<1>5. ASSUME NEW w \in Workers, NEW file,
             Works(w), wpc[w] # "mark",
             UNCHANGED <<rid, processingRequests, wid, wreq>>,
             \A v \in Workers : v # w => wpc'[v] = wpc[v] /\ wout'[v] = wout[v],
             csv' = [csv EXCEPT ![wid[w]] = file],
             FileOf(w)'
      PROVE  FileInv'
  <2>1. \A v \in Workers : FileOf(v)'
    <3> SUFFICES ASSUME NEW v \in Workers, v # w PROVE FileOf(v)'
      BY <1>5
    <3>1. Works(v) => csv'[wid[v]] = csv[wid[v]]
      <4>1. Works(v) => wid[v] # wid[w]
        BY <1>5, OwnFile
      <4>2. Works(v) => wid[v] \in Ids
        BY DEF HandInv, Holds, Works
      <4>3. csv' = [csv EXCEPT ![wid[w]] = file] /\ csv \in [Ids -> Files]
        BY <1>5
      <4> QED BY ONLY <4>1, <4>2, <4>3
    <3>2. UNCHANGED <<wpc[v], wid[v], wreq[v], wout[v]>>
      BY <1>5
    <3> QED BY <1>0, <3>1, <3>2 DEF FileOf, Works
  <2>2. \A r \in Requests : PublishedOf(r)'
    <3> SUFFICES ASSUME NEW r \in Requests,
                        rid[r] # None, processingRequests[rid[r]] = "complete"
                 PROVE  WholeFile(rid[r], r)'
      BY <1>5 DEF PublishedOf
    <3>1. rid[r] # wid[w] /\ rid' = rid
      BY <1>5, OwnFile
    <3>2. csv' = [csv EXCEPT ![wid[w]] = file] /\ csv \in [Ids -> Files]
      BY <1>5
    <3>3. rid[r] \in Ids
      OBVIOUS
    <3>4. csv'[rid[r]] = csv[rid[r]]
      BY ONLY <3>1, <3>2, <3>3
    <3>5. WholeFile(rid[r], r)
      BY <1>0 DEF PublishedOf
    <3> QED BY ONLY <3>1, <3>4, <3>5 DEF WholeFile
  <2> QED BY <2>1, <2>2 DEF FileInv
<1>6. ASSUME NEW w \in Workers, CreateCSV(w) PROVE FileInv'
  <2>1. Works(w) /\ wpc[w] # "mark"
    BY <1>6 DEF CreateCSV, Works
  <2>2. FileOf(w)'
    <3>1. wid[w] \in Ids
      BY <2>1 DEF HandInv, Holds, Works
    <3>2. csv'[wid[w]].owners = {wreq[w]}
      BY <1>6, <3>1 DEF CreateCSV
    <3>3. wpc'[w] # "publish" /\ UNCHANGED <<wid, wreq>>
      BY <1>6 DEF CreateCSV
    <3> QED BY ONLY <3>2, <3>3 DEF FileOf
  <2> QED BY <1>5, <1>6, <2>1, <2>2, ZenonT(40) DEF CreateCSV
<1>7. ASSUME NEW w \in Workers, Spill(w) PROVE FileInv'
  <2>1. Works(w) /\ wpc[w] # "mark"
    BY <1>7 DEF Spill, Works
  <2>2. FileOf(w)'
    BY <1>0, <1>7, <2>1, OwnFile DEF Spill, WriteRecords, FileOf
  <2> QED BY <1>5, <1>7, <2>1, <2>2 DEF Spill, WriteRecords
<1>8. ASSUME NEW w \in Workers, CloseCSV(w) PROVE FileInv'
  <2>1. Works(w) /\ wpc[w] # "mark"
    BY <1>8 DEF CloseCSV, Works
  <2> DEFINE left == csv[wid[w]].total - csv[wid[w]].written
  <2>2. CASE wout[w] = "complete"
    <3>1. WriteRecords(w, left)
      BY <1>8, <2>2 DEF CloseCSV
    <3>2. FileOf(w)'
      BY <1>0, <1>8, <2>1, <3>1, OwnFile DEF CloseCSV, WriteRecords, FileOf, Steps
    <3> QED BY <1>5, <1>8, <2>1, <3>1, <3>2 DEF CloseCSV, WriteRecords
  <2>3. CASE wout[w] # "complete"
    <3>1. UNCHANGED csv
      BY <1>8, <2>3 DEF CloseCSV
    <3>2. \A v \in Workers : FileOf(v)'
      BY <1>0, <1>8, <2>3, <3>1 DEF CloseCSV, FileOf
    <3>3. \A r \in Requests : PublishedOf(r)'
      BY <1>0, <1>8, <3>1 DEF CloseCSV, PublishedOf
    <3> QED BY <3>2, <3>3 DEF FileInv
  <2> QED BY <2>2, <2>3
<1>9. ASSUME NEW w \in Workers, Publish(w) PROVE FileInv'
  <2>1. Works(w) /\ wpc[w] # "mark"
    BY <1>9 DEF Publish, Works
  <2>2. \A v \in Workers : FileOf(v)'
    BY <1>0, <1>9 DEF Publish, FileOf
  <2>3. \A r \in Requests : PublishedOf(r)'
    <3> SUFFICES ASSUME NEW r \in Requests PROVE PublishedOf(r)'
      OBVIOUS
    <3>1. CASE rid[r] = wid[w]
      <4>1. r = wreq[w] /\ wid[w] \in Ids
        BY <2>1, <3>1, OwnFile
      <4>2. processingRequests'[rid[r]] = wout[w]
        BY <1>9, <3>1, <4>1 DEF Publish
      <4>3. wout[w] = "complete" => WholeFile(wid[w], r)
        BY <1>0, <1>9, <4>1 DEF Publish, FileOf
      <4> QED BY <1>9, <3>1, <4>2, <4>3 DEF Publish, PublishedOf
    <3>2. CASE rid[r] # wid[w]
      BY <1>0, <1>9, <3>2 DEF Publish, PublishedOf
    <3> QED BY <3>1, <3>2
  <2> QED BY <2>2, <2>3 DEF FileInv
<1>10. CASE Crash
  BY <1>10 DEF Crash, FileInv, FileOf, PublishedOf
<1>11. CASE UNCHANGED vars
  BY <1>0, <1>11 DEF vars, FileInv, FileOf, PublishedOf
<1> QED
  BY <1>1, <1>2, <1>3, <1>4, <1>6, <1>7, <1>8, <1>9, <1>10, <1>11
     DEF Next, WorkerStep, Sleep

\* With distinct ids and a disk that accepts writes, a worker's open file and a
\* published file hold what FileInv says.
THEOREM FileInvariant ==
    ASSUME UniqueIds, ~FlushMayFail
    PROVE  Spec => []FileInv
<1>1. Init => FileInv
  BY DEF Init, FileInv, FileOf, PublishedOf
<1>2. TypeInv <=> TypeOK /\ HandInv
  BY DEF TypeInv
<1>3. TypeInv /\ TypeInv' /\ PlaceInv /\ PlaceInv' /\ FileInv /\ [Next]_vars
        => FileInv'
  BY FileStep
<1> QED BY <1>1, <1>2, <1>3, TypeCorrect, PlaceInvariant, PTL DEF Spec

\* When the status of a call says complete, its CSV file holds every record of
\* the answer and no record of another request.
THEOREM CompleteIsWhole ==
    ASSUME UniqueIds, ~FlushMayFail
    PROVE  Spec => []CompleteMeansWholeCSV
<1>1. PlaceInv /\ FileInv => CompleteMeansWholeCSV
  BY DEF PlaceInv, IdInv, Live, FileInv, PublishedOf, WholeFile, Status,
         CompleteMeansWholeCSV
<1> QED BY <1>1, PlaceInvariant, FileInvariant, PTL

\* With distinct ids and a disk that accepts writes, what TLC checks as IInv on
\* small instances is an invariant: hands, queue, maps and files agree.
THEOREM PoolInvariant ==
    ASSUME UniqueIds, ~FlushMayFail
    PROVE  Spec => []IInv
<1>1. HandInv /\ PlaceInv /\ FileInv => IInv
  BY DEF IInv
<1> QED BY <1>1, TypeCorrect, PlaceInvariant, FileInvariant, PTL

-----------------------------------------------------------------------------
(* The pool inside the API.                                                 *)

\* A step of the API is a step of the pool, or of a page that leaves the pool
\* alone, or the crash that both notice.
LEMMA ApiSteps ==
    ASSUME [ApiNext]_allVars
    PROVE  \/ [Next]_vars /\ UNCHANGED apiVars
           \/ UNCHANGED vars /\ \E r \in Requests : PageStep(r) \/ Expire(r) \/ Download(r)
           \/ ApiCrash
<1>1. CASE PoolStep
  BY <1>1 DEF PoolStep, Next
<1>2. ASSUME NEW r \in Requests, PageStep(r) \/ Expire(r) \/ Download(r)
      PROVE  UNCHANGED vars
  BY <1>2 DEF PageStep, Submitted, StatusPending, StatusProcessing, Fetch, Expire, Download
<1>3. CASE UNCHANGED allVars
  BY <1>3 DEF allVars
<1> QED BY <1>1, <1>2, <1>3 DEF ApiNext

\* Whatever the pages do, the pool keeps to its own specification, so that every
\* theorem about it holds of the API as well.
LEMMA PoolWithin == ApiSpec => Spec
<1>1. ApiInit => Init
  BY DEF ApiInit
<1>2. [ApiNext]_allVars => [Next]_vars
  <2> SUFFICES ASSUME [ApiNext]_allVars PROVE [Next]_vars
    OBVIOUS
  <2>1. CASE ApiCrash
    BY <2>1 DEF ApiCrash, Next
  <2> QED BY <2>1, ApiSteps
<1> QED BY <1>1, <1>2, PTL DEF ApiSpec, Spec

-----------------------------------------------------------------------------
(* Types.                                                                   *)

PageTypes ==
    /\ client \in [Requests -> ClientStates]
    /\ seen \in [Requests -> Answers]
    /\ got \in [Requests -> Files]
    /\ early \in [Requests -> Files]

\* A call that was given an id keeps it, and no page asks for a report before.
CallInv ==
    \A r \in Requests :
        /\ call[r] = "idle" => rid[r] = None
        /\ call[r] \in {"stored", "answered", "lost"} => rid[r] \in Ids
        /\ client[r] \in {"poll", "looked", "fetch"} \/ seen[r] # "none" =>
              call[r] \in {"answered", "lost"}

ApiTypeInv == TypeInv /\ PageTypes /\ CallInv

\* The id of a call stays, and so does what its caller was told.
LEMMA CallStays ==
    ASSUME TypeInv, NEW r \in Requests, call[r] = "idle" => rid[r] = None, [Next]_vars
    PROVE  /\ rid[r] \in Ids => rid'[r] = rid[r]
           /\ call[r] \in {"answered", "lost"} => call'[r] \in {"answered", "lost"}
           /\ call'[r] = "idle" => call[r] = "idle" /\ rid'[r] = rid[r]
           /\ call'[r] \in {"stored", "answered", "lost"} =>
                 rid'[r] \in Ids \/ call[r] \in {"stored", "answered", "lost"}
<1> USE NoneAssumption DEF TypeInv, TypeOK, callVars, queueVars, workVars
<1>1. ASSUME NEW q \in Requests, Reject(q) \/ QueueRequest(q)
      PROVE  /\ rid' = rid
             /\ \/ call' = [call EXCEPT ![q] = "rejected"] /\ call[q] = "idle"
                \/ call' = [call EXCEPT ![q] = "answered"] /\ call[q] = "stored"
  BY <1>1 DEF Reject, QueueRequest
<1>2. ASSUME NEW q \in Requests, StoreRequest(q)
      PROVE  /\ call[q] = "idle"
             /\ call' = [call EXCEPT ![q] = "stored"]
             /\ \E i \in Ids : rid' = [rid EXCEPT ![q] = i]
  BY <1>2 DEF StoreRequest, GenerateRequestID
<1>3. CASE Crash
  BY <1>3 DEF Crash
<1>4. ASSUME NEW w \in Workers, WorkerStep(w) \/ DruidReplies(w) \/ Sleep(w)
      PROVE  UNCHANGED <<call, rid>>
  BY <1>4 DEF WorkerStep, NextPendingID, Take, Mark, BuildFails, CallDruid, CreateFails,
      CreateCSV, Spill, WriteFails, RowsDone, CloseCSV, Publish, DruidReplies, DruidFails,
      DruidAnswers, Sleep, vars
<1>5. CASE UNCHANGED <<call, rid>>
  BY <1>5
<1>6. ASSUME NEW q \in Requests, Handler(q)
      PROVE  /\ rid[r] \in Ids => rid'[r] = rid[r]
             /\ call[r] \in {"answered", "lost"} => call'[r] \in {"answered", "lost"}
             /\ call'[r] = "idle" => call[r] = "idle" /\ rid'[r] = rid[r]
             /\ call'[r] \in {"stored", "answered", "lost"} =>
                   rid'[r] \in Ids \/ call[r] \in {"stored", "answered", "lost"}
  BY <1>1, <1>2, <1>6, ZenonT(40) DEF Handler, AddPendingRequest
<1>7. CASE UNCHANGED vars
  BY <1>7 DEF vars
<1> QED BY <1>3, <1>4, <1>5, <1>6, <1>7 DEF Next

\* A page step writes one field of each variable of the pages.
LEMMA PageChanges ==
    ASSUME TypeInv, PageTypes, NEW r \in Requests,
           call[r] \in {"answered", "lost"} => rid[r] \in Ids,
           \/ call[r] \in {"answered", "lost"}
           \/ client[r] = "submit" /\ Turn(r, "failed") /\ UNCHANGED seen,
           PageStep(r) \/ Expire(r) \/ Download(r)
    PROVE  /\ \E t \in ClientStates : client' = [client EXCEPT ![r] = t]
           /\ \E s \in Answers : seen' = [seen EXCEPT ![r] = s]
           /\ \E g \in Files : got' = [got EXCEPT ![r] = g]
           /\ \E e \in Files : early' = [early EXCEPT ![r] = e]
<1>1. /\ UNCHANGED client => \E t \in ClientStates : client' = [client EXCEPT ![r] = t]
      /\ UNCHANGED seen => \E s \in Answers : seen' = [seen EXCEPT ![r] = s]
      /\ UNCHANGED got => \E g \in Files : got' = [got EXCEPT ![r] = g]
      /\ UNCHANGED early => \E e \in Files : early' = [early EXCEPT ![r] = e]
  <2>1. client[r] \in ClientStates /\ client = [client EXCEPT ![r] = client[r]]
    BY DEF PageTypes
  <2>2. seen[r] \in Answers /\ seen = [seen EXCEPT ![r] = seen[r]]
    BY DEF PageTypes
  <2>3. got[r] \in Files /\ got = [got EXCEPT ![r] = got[r]]
    BY DEF PageTypes
  <2>4. early[r] \in Files /\ early = [early EXCEPT ![r] = early[r]]
    BY DEF PageTypes
  <2> QED BY <2>1, <2>2, <2>3, <2>4, Zenon
<1>2. rid[r] \in Ids => csv[rid[r]] \in Files /\ processingRequests[rid[r]] \in Statuses
  BY DEF TypeInv, TypeOK
<1>3. CASE Submitted(r)
  <2>1. \E t \in ClientStates : client' = [client EXCEPT ![r] = t]
    BY <1>3 DEF Submitted, Turn, ClientStates
  <2> QED BY <1>1, <1>3, <2>1 DEF Submitted
<1>4. CASE StatusPending(r)
  <2>1. \E t \in ClientStates : client' = [client EXCEPT ![r] = t]
    BY <1>4 DEF StatusPending, Digest, Turn, ClientStates
  <2>2. \E s \in Answers : seen' = [seen EXCEPT ![r] = s]
    BY <1>1, <1>4 DEF StatusPending, Digest, Answers
  <2> QED BY <1>1, <1>4, <2>1, <2>2 DEF StatusPending
<1>5. CASE StatusProcessing(r)
  <2>0. rid[r] \in Ids
    BY <1>5 DEF StatusProcessing, Turn, PageTypes
  <2>1. PICK s \in {"processing", "complete", "error", "unknown"} : Digest(r, s)
    BY <1>2, <1>5, <2>0 DEF StatusProcessing, Statuses
  <2>2. s \in Answers /\ seen' = [seen EXCEPT ![r] = s]
    BY <2>1 DEF Digest, Answers, Statuses
  <2>3. \E t \in ClientStates : client' = [client EXCEPT ![r] = t]
    BY <2>1 DEF Digest, Turn, ClientStates
  <2> QED BY <1>1, <1>5, <2>2, <2>3 DEF StatusProcessing
<1>6. CASE Fetch(r)
  <2>1. \E t \in ClientStates : client' = [client EXCEPT ![r] = t]
    BY <1>6 DEF Fetch, Turn, ClientStates
  <2>2. \E g \in Files : got' = [got EXCEPT ![r] = g]
    BY <1>1, <1>2, <1>6 DEF Fetch, Turn, PageTypes
  <2> QED BY <1>1, <1>6, <2>1, <2>2 DEF Fetch
<1>7. CASE Expire(r)
  <2>1. \E t \in ClientStates : client' = [client EXCEPT ![r] = t]
    BY <1>7 DEF Expire, Turn, ClientStates
  <2> QED BY <1>1, <1>7, <2>1 DEF Expire
<1>8. CASE Download(r)
  <2>1. \E e \in Files : early' = [early EXCEPT ![r] = e]
    BY <1>2, <1>8 DEF Download
  <2> QED BY <1>1, <1>8, <2>1 DEF Download
<1> QED BY <1>3, <1>4, <1>5, <1>6, <1>7, <1>8 DEF PageStep

LEMMA ApiTypeStep == ApiTypeInv /\ TypeInv' /\ [ApiNext]_allVars => ApiTypeInv'
<1> SUFFICES ASSUME ApiTypeInv, TypeInv', [ApiNext]_allVars PROVE PageTypes' /\ CallInv'
  BY DEF ApiTypeInv
<1> USE DEF ApiTypeInv
<1>1. CASE [Next]_vars /\ UNCHANGED apiVars
  <2>1. PageTypes'
    BY <1>1 DEF PageTypes, apiVars
  <2>2. CallInv'
    <3> SUFFICES ASSUME NEW r \in Requests
                 PROVE  /\ call'[r] = "idle" => rid'[r] = None
                        /\ call'[r] \in {"stored", "answered", "lost"} => rid'[r] \in Ids
                        /\ client'[r] \in {"poll", "looked", "fetch"} \/ seen'[r] # "none" =>
                              call'[r] \in {"answered", "lost"}
      BY DEF CallInv
    <3>1. call[r] = "idle" => rid[r] = None
      BY DEF CallInv
    <3>2. UNCHANGED <<client, seen>>
      BY <1>1 DEF apiVars
    <3> QED BY <1>1, <3>1, <3>2, CallStays DEF CallInv
  <2> QED BY <2>1, <2>2
<1>2. ASSUME UNCHANGED vars, NEW r \in Requests, PageStep(r) \/ Expire(r) \/ Download(r)
      PROVE  PageTypes' /\ CallInv'
  <2>1. UNCHANGED <<call, rid, csv, pendingRequests, processingRequests>>
    BY <1>2 DEF vars, callVars, queueVars
  <2>2. \/ call[r] \in {"answered", "lost"}
        \/ client[r] = "submit" /\ Turn(r, "failed") /\ UNCHANGED seen
    BY <1>2 DEF PageStep, Submitted, StatusPending, StatusProcessing, Fetch, Expire,
       Download, CallInv
  <2>3. call[r] \in {"answered", "lost"} => rid[r] \in Ids
    BY DEF CallInv
  <2>4. /\ \E t \in ClientStates : client' = [client EXCEPT ![r] = t]
        /\ \E s \in Answers : seen' = [seen EXCEPT ![r] = s]
        /\ \E g \in Files : got' = [got EXCEPT ![r] = g]
        /\ \E e \in Files : early' = [early EXCEPT ![r] = e]
    BY <1>2, <2>2, <2>3, PageChanges
  <2>5. PageTypes'
    BY <2>4 DEF PageTypes
  <2>6. CallInv'
    <3> SUFFICES ASSUME NEW q \in Requests,
                        client'[q] \in {"poll", "looked", "fetch"} \/ seen'[q] # "none"
                 PROVE  call[q] \in {"answered", "lost"}
      BY <2>1 DEF CallInv
    <3>1. CASE q = r
      <4>1. ASSUME call[r] \notin {"answered", "lost"}, Turn(r, "failed"), UNCHANGED seen PROVE FALSE
        BY <3>1, <4>1 DEF CallInv, Turn, PageTypes
      <4> QED BY <2>2, <3>1, <4>1
    <3>2. CASE q # r
      BY <2>4, <3>2 DEF CallInv, PageTypes
    <3> QED BY <3>1, <3>2
  <2> QED BY <2>5, <2>6
<1>3. CASE ApiCrash
  <2>1. PageTypes'
    BY <1>3 DEF ApiCrash, PageTypes, ClientStates
  <2>2. CallInv'
    <3> SUFFICES ASSUME NEW r \in Requests
                 PROVE  /\ call'[r] = "idle" => rid'[r] = None
                        /\ call'[r] \in {"stored", "answered", "lost"} => rid'[r] \in Ids
                        /\ client'[r] \in {"poll", "looked", "fetch"} \/ seen'[r] # "none" =>
                              call'[r] \in {"answered", "lost"}
      BY DEF CallInv
    <3>1. call[r] = "idle" => rid[r] = None
      BY DEF CallInv
    <3>2. [Next]_vars
      BY <1>3 DEF ApiCrash, Next
    <3>3. seen' = seen /\ (client'[r] \in {"poll", "looked", "fetch"} => client'[r] = client[r])
      BY <1>3 DEF ApiCrash
    <3> QED BY <3>1, <3>2, <3>3, CallStays DEF CallInv
  <2> QED BY <2>1, <2>2
<1> QED BY <1>1, <1>2, <1>3, ApiSteps

LEMMA ApiTypeInvariant == ApiSpec => []ApiTypeInv
<1>1. ApiInit => PageTypes /\ CallInv
  BY NoneAssumption DEF ApiInit, Init, PageTypes, CallInv, ClientStates, Answers, Statuses,
     NoFile, Files
<1>2. TypeInv <=> TypeOK /\ HandInv
  BY DEF TypeInv
<1>3. ApiTypeInv <=> TypeInv /\ PageTypes /\ CallInv
  BY DEF ApiTypeInv
<1> QED BY <1>1, <1>2, <1>3, ApiTypeStep, PoolWithin, TypeCorrect, PTL DEF ApiSpec

\* The page's variables and the pool's keep their types, with colliding ids, with
\* disks that fail and over any number of restarts.
THEOREM ApiTypes == ApiSpec => []ApiTypeOK
<1>1. ApiTypeInv => ApiTypeOK
  BY DEF ApiTypeInv, TypeInv, PageTypes, ApiTypeOK
<1> QED BY <1>1, ApiTypeInvariant, PTL

-----------------------------------------------------------------------------
(* What a page may rely on, whatever the pool does between two of its reads. *)

\* A worker took the request of id i, and nobody will draw i again.
Gone(i) == i \in issued /\ pendingRequests[i] = None

\* Nobody has the id in hand, or will ever have it again.
Settled(i) == Gone(i) /\ \A w \in Workers : Holds(w) => wid[w] # i

\* A page that saw its report leave the map of pending requests was right.
PageInv ==
    \A r \in Requests :
        seen[r] = "processing" \/ client[r] = "looked" => Gone(rid[r])

\* A page that saw "complete" finds a whole file that nobody writes to.
FetchInv ==
    \A r \in Requests :
        /\ client[r] = "fetch" => Settled(rid[r]) /\ Whole(csv[rid[r]], r)
        /\ client[r] = "done" => Whole(got[r], r)

\* The file of an id holds records of the request the id was drawn for.
OwnersInv == \A i \in Ids : \A q \in csv[i].owners : rid[q] = i

\* A request that is served is in one of the two maps, or in the hands of a
\* worker that stands between them.
HandoverInv ==
    \A r \in Requests :
        /\ call[r] = "lost" => crashes # 0
        /\ r \in Live =>
             \/ pendingRequests[rid[r]] # None
             \/ processingRequests[rid[r]] # "none"
             \/ \E w \in Workers : wpc[w] = "mark" /\ wreq[w] = r

\* A page's request has an id.
LEMMA PageHasId ==
    ASSUME ApiTypeInv, NEW r \in Requests,
           client[r] \in {"poll", "looked", "fetch"} \/ seen[r] # "none"
    PROVE  rid[r] \in Ids
BY DEF ApiTypeInv, CallInv

\* No handler draws an issued id again, and only a handler fills the map.
LEMMA GoneStays ==
    ASSUME UniqueIds, TypeInv, NEW i \in Ids, Gone(i), [Next]_vars
    PROVE  Gone(i)'
<1> USE DEF TypeInv, TypeOK, Gone, callVars, queueVars, workVars
<1>1. ASSUME NEW r \in Requests, Handler(r) PROVE Gone(i)'
  BY <1>1 DEF Handler, Reject, AddPendingRequest, StoreRequest, QueueRequest,
     GenerateRequestID
<1>2. ASSUME NEW w \in Workers, Take(w) PROVE Gone(i)'
  BY <1>2 DEF Take
<1>3. ASSUME NEW w \in Workers,
             \/ NextPendingID(w) \/ Mark(w) \/ BuildFails(w)
             \/ CallDruid(w) \/ CreateFails(w) \/ CreateCSV(w) \/ Spill(w)
             \/ WriteFails(w) \/ RowsDone(w) \/ CloseCSV(w) \/ Publish(w)
             \/ DruidReplies(w) \/ Sleep(w)
      PROVE  Gone(i)'
  BY <1>3 DEF NextPendingID, Mark, BuildFails, CallDruid, CreateFails, CreateCSV, Spill,
     WriteFails, RowsDone, CloseCSV, Publish, DruidReplies, DruidFails, DruidAnswers,
     Sleep, vars
<1>4. CASE Crash
  BY <1>4 DEF Crash
<1> QED BY <1>1, <1>2, <1>3, <1>4 DEF Next, WorkerStep, vars

\* The file of an id changes only under the pen of the worker that has the id.
LEMMA FileChanges ==
    ASSUME TypeInv, NEW i \in Ids, [Next]_vars, csv'[i] # csv[i]
    PROVE  \E w \in Workers : Works(w) /\ wid[w] = i /\ csv'[i].owners \subseteq csv[i].owners \cup {wreq[w]}
<1> USE DEF TypeInv, TypeOK, callVars, queueVars, workVars
<1>1. ASSUME NEW w \in Workers, NEW n, WriteRecords(w, n), Works(w)
      PROVE  wid[w] = i /\ csv'[i].owners = csv[i].owners \cup {wreq[w]}
  BY <1>1 DEF WriteRecords
<1>2. ASSUME NEW w \in Workers, CreateCSV(w) PROVE Works(w) /\ wid[w] = i /\ csv'[i].owners = {wreq[w]}
  BY <1>2 DEF CreateCSV, Works
<1>3. ASSUME NEW w \in Workers, Spill(w) \/ CloseCSV(w)
      PROVE  Works(w) /\ \E n : WriteRecords(w, n)
  BY <1>3 DEF Spill, CloseCSV, Works
<1>4. ASSUME NEW r \in Requests, Handler(r) PROVE FALSE
  BY <1>4 DEF Handler, Reject, AddPendingRequest, StoreRequest, QueueRequest
<1>5. ASSUME NEW w \in Workers,
             \/ NextPendingID(w) \/ Take(w) \/ Mark(w) \/ BuildFails(w)
             \/ CallDruid(w) \/ CreateFails(w) \/ WriteFails(w) \/ RowsDone(w)
             \/ Publish(w) \/ DruidReplies(w) \/ Sleep(w)
      PROVE  FALSE
  BY <1>5 DEF NextPendingID, Take, Mark, BuildFails, CallDruid, CreateFails, WriteFails,
     RowsDone, Publish, DruidReplies, DruidFails, DruidAnswers, Sleep, vars
<1>6. CASE Crash
  BY <1>6 DEF Crash
<1> QED BY <1>1, <1>2, <1>3, <1>4, <1>5, <1>6 DEF Next, WorkerStep, vars

\* A settled id comes into no worker's hands again.
LEMMA SettledStays ==
    ASSUME UniqueIds, TypeInv, PlaceInv, NEW i \in Ids, Settled(i), [Next]_vars
    PROVE  Settled(i)' /\ csv'[i] = csv[i]
<1> USE DEF TypeInv, TypeOK, callVars, queueVars, workVars
<1>1. csv'[i] = csv[i]
  BY FileChanges DEF Settled, Holds, Works
<1>2. Gone(i)'
  BY GoneStays DEF Settled
<1>3. \A w \in Workers : Holds(w)' => wid'[w] # i
  <2> SUFFICES ASSUME NEW w \in Workers, Holds(w)' PROVE wid'[w] # i
    OBVIOUS
  <2>0. Holds(w) => wid[w] # i
    BY DEF Settled
  <2>1. CASE NextPendingID(w)
    <3>1. wid'[w] = pendingOrder[1] /\ 1 \in 1 .. Len(pendingOrder)
      BY <2>1, TailFacts DEF NextPendingID
    <3>2. pendingRequests[pendingOrder[1]] # None
      BY <3>1 DEF PlaceInv, QueueInv
    <3> QED BY <3>1, <3>2 DEF Settled, Gone
  <2>2. CASE Crash
    BY <2>2 DEF Crash, Holds
  <2>3. ASSUME NEW v \in Workers, NextPendingID(v), v # w PROVE wid'[w] # i
    BY <2>0, <2>3 DEF NextPendingID, Holds, Goto
  <2>4. ASSUME NEW v \in Workers,
               \/ Take(v) \/ Mark(v) \/ BuildFails(v) \/ CallDruid(v)
               \/ CreateFails(v) \/ CreateCSV(v) \/ Spill(v) \/ WriteFails(v)
               \/ RowsDone(v) \/ CloseCSV(v) \/ Publish(v)
               \/ DruidReplies(v) \/ Sleep(v)
        PROVE  wid'[w] # i
    BY <2>0, <2>4 DEF Take, Mark, BuildFails, CallDruid, CreateFails, CreateCSV, Spill,
       WriteFails, RowsDone, CloseCSV, Publish, DruidReplies, DruidFails, DruidAnswers,
       Sleep, vars, Holds, Goto, Return
  <2>5. ASSUME NEW r \in Requests, Handler(r) PROVE wid'[w] # i
    BY <2>0, <2>5 DEF Handler, Reject, AddPendingRequest, StoreRequest, QueueRequest, Holds
  <2>6. CASE UNCHANGED vars
    BY <2>0, <2>6 DEF vars, Holds
  <2> QED BY <2>1, <2>2, <2>3, <2>4, <2>5, <2>6 DEF Next, WorkerStep
<1> QED BY <1>1, <1>2, <1>3 DEF Settled

\* An id with an outcome is settled, and so is nobody's business but the reader's.
LEMMA OutcomeIsSettled ==
    ASSUME TypeInv, PlaceInv, NEW i \in Ids, processingRequests[i] \in Terminal
    PROVE  Settled(i)
<1>1. Gone(i)
  BY DEF PlaceInv, IdInv, PendingInv, Gone, Terminal
<1>2. \A w \in Workers : Holds(w) => wid[w] # i
  BY <1>1 DEF PlaceInv, WorkerInv, WorkOf, Holds, Works, Gone, Terminal
<1> QED BY <1>1, <1>2 DEF Settled

-----------------------------------------------------------------------------
(* Two reads without a lock.                                                *)

\* What the handler finds absent from pendingRequests stays absent.
LEMMA PageInvStep ==
    ASSUME UniqueIds, ApiTypeInv, PlaceInv, PageInv, [ApiNext]_allVars
    PROVE  PageInv'
<1> SUFFICES ASSUME NEW r \in Requests, seen'[r] = "processing" \/ client'[r] = "looked"
             PROVE  Gone(rid[r])'
  BY DEF PageInv, Gone
<1>0. [Next]_vars
  BY ApiSteps DEF ApiCrash, Next
<1>1. ASSUME seen[r] = "processing" \/ client[r] = "looked" PROVE Gone(rid[r])'
  <2>1. rid[r] \in Ids
    BY <1>1, PageHasId
  <2>2. rid'[r] = rid[r]
    BY <1>0, <2>1, CallStays DEF ApiTypeInv, CallInv
  <2>3. Gone(rid[r])
    BY <1>1 DEF PageInv
  <2> QED BY <1>0, <2>1, <2>2, <2>3, GoneStays DEF ApiTypeInv, Gone
<1>2. ASSUME seen[r] # "processing", client[r] # "looked"
      PROVE  StatusPending(r) /\ pendingRequests[rid[r]] = None /\ UNCHANGED vars
  <2>1. ~UNCHANGED <<seen, client>>
    BY <1>2
  <2>2. ASSUME NEW q \in Requests, PageStep(q) \/ Expire(q) \/ Download(q)
        PROVE  StatusPending(r) /\ pendingRequests[rid[r]] = None
    BY <1>2, <2>2 DEF PageStep, Submitted, StatusPending, StatusProcessing, Digest, Turn,
       Fetch, Expire, Download, ApiTypeInv, PageTypes
  <2>3. ~ApiCrash
    BY <1>2 DEF ApiCrash
  <2> QED BY <2>1, <2>2, <2>3, ApiSteps DEF apiVars
<1>3. ASSUME StatusPending(r), pendingRequests[rid[r]] = None, UNCHANGED vars
      PROVE  Gone(rid[r])'
  <2>1. rid[r] \in Ids
    BY <1>3, PageHasId DEF StatusPending
  <2>2. rid[r] \in issued
    BY <2>1, NoneAssumption DEF PlaceInv, IdInv
  <2> QED BY <1>3, <2>2 DEF vars, callVars, queueVars, Gone
<1> QED BY <1>1, <1>2, <1>3

\* The handler answers that a report is processing only to a page that found
\* nothing pending.
LEMMA NoRegressStep ==
    ASSUME ApiTypeInv, PageInv, [ApiNext]_allVars, NEW r \in Requests,
           seen[r] = "processing"
    PROVE  seen'[r] # "waiting"
<1>1. Gone(rid[r])
  BY DEF PageInv
<1>2. ASSUME NEW q \in Requests, PageStep(q) \/ Expire(q) \/ Download(q)
      PROVE  seen'[r] # "waiting"
  BY <1>1, <1>2 DEF PageStep, Submitted, StatusPending, StatusProcessing, Digest, Turn,
     Fetch, Expire, Download, ApiTypeInv, PageTypes, TypeInv, TypeOK, Statuses, Gone
<1> QED BY <1>2, ApiSteps DEF apiVars, ApiCrash

\* With distinct ids a page never sees its report go back from processing to
\* waiting, although the handler reads the two maps at different moments.
THEOREM NoRegress ==
    ASSUME UniqueIds
    PROVE  ApiSpec => StatusNeverRegresses
<1>1. ApiInit => PageInv
  BY DEF ApiInit, PageInv
<1>2. ApiTypeInv /\ PlaceInv /\ PageInv /\ [ApiNext]_allVars => PageInv'
  BY PageInvStep
<1>3. ApiTypeInv /\ PageInv /\ [ApiNext]_allVars =>
         [\A r \in Requests : seen[r] = "processing" => seen'[r] # "waiting"]_allVars
  BY NoRegressStep
<1> QED
  BY <1>1, <1>2, <1>3, ApiTypeInvariant, PlaceInvariant, PoolWithin, PTL
     DEF ApiSpec, StatusNeverRegresses

-----------------------------------------------------------------------------
(* The download that follows "complete".                                    *)

\* Between the answer "complete" and the download nobody writes to the file.
LEMMA FetchInvStep ==
    ASSUME UniqueIds, ApiTypeInv, PlaceInv, FileInv, FetchInv, [ApiNext]_allVars
    PROVE  FetchInv'
<1> SUFFICES ASSUME NEW r \in Requests
             PROVE  /\ client'[r] = "fetch" => Settled(rid[r])' /\ Whole(csv[rid[r]], r)'
                    /\ client'[r] = "done" => Whole(got[r], r)'
  BY DEF FetchInv
<1>0. [Next]_vars
  BY ApiSteps DEF ApiCrash, Next
<1>1. ASSUME client[r] = "fetch" PROVE Settled(rid[r])' /\ Whole(csv[rid[r]], r)'
  <2>1. rid[r] \in Ids
    BY <1>1, PageHasId
  <2>2. rid'[r] = rid[r]
    BY <1>0, <2>1, CallStays DEF ApiTypeInv, CallInv
  <2>3. PICK i \in Ids : i = rid[r]
    BY <2>1
  <2>4. Settled(i) /\ Whole(csv[i], r)
    BY <1>1, <2>3 DEF FetchInv
  <2>5. Settled(i)' /\ csv'[i] = csv[i]
    BY <1>0, <2>4, SettledStays DEF ApiTypeInv
  <2> QED BY <2>2, <2>3, <2>4, <2>5 DEF Settled, Gone, Whole
<1>2. ASSUME StatusProcessing(r), client'[r] = "fetch"
      PROVE  Settled(rid[r])' /\ Whole(csv[rid[r]], r)'
  <2>1. rid[r] \in Ids
    BY <1>2, PageHasId DEF StatusProcessing
  <2>2. processingRequests[rid[r]] = "complete"
    BY <1>2, <2>1 DEF StatusProcessing, Digest, Turn, ApiTypeInv, PageTypes, TypeInv,
       TypeOK, Statuses
  <2>3. Settled(rid[r])
    BY <2>1, <2>2, OutcomeIsSettled DEF ApiTypeInv, Terminal
  <2>4. Whole(csv[rid[r]], r)
    BY <2>1, <2>2, NoneAssumption DEF FileInv, PublishedOf, WholeFile, Whole
  <2> QED BY <1>2, <2>3, <2>4 DEF StatusProcessing, vars, callVars, queueVars, workVars,
             Settled, Gone, Holds, Whole
<1>3. ASSUME Fetch(r) PROVE client'[r] = "done" => Whole(got[r], r)'
  BY <1>3 DEF Fetch, Turn, FetchInv, Whole, ApiTypeInv, PageTypes
<1>4. ASSUME client'[r] = "fetch", client[r] # "fetch" PROVE StatusProcessing(r)
  <2>1. ASSUME NEW q \in Requests, PageStep(q) \/ Expire(q) \/ Download(q)
        PROVE  StatusProcessing(r)
    BY <1>4, <2>1 DEF PageStep, Submitted, StatusPending, StatusProcessing, Digest, Turn,
       Fetch, Expire, Download, ApiTypeInv, PageTypes
  <2> QED BY <1>4, <2>1, ApiSteps DEF apiVars, ApiCrash
<1>5. ASSUME client'[r] = "done"
      PROVE  Fetch(r) \/ (client[r] = "done" /\ got'[r] = got[r])
  <2>1. ASSUME NEW q \in Requests, PageStep(q) \/ Expire(q) \/ Download(q)
        PROVE  Fetch(r) \/ (client[r] = "done" /\ got'[r] = got[r])
    <3>0. StatusProcessing(r) => rid[r] \in Ids
      BY PageHasId DEF StatusProcessing
    <3>1. CASE q = r
      BY <1>5, <2>1, <3>0, <3>1 DEF PageStep, Submitted, StatusPending, StatusProcessing,
         Digest, Turn, Expire, Download, ApiTypeInv, PageTypes, TypeInv, TypeOK, Statuses
    <3>2. CASE q # r
      BY <1>5, <2>1, <3>2 DEF PageStep, Submitted, StatusPending, StatusProcessing,
         Digest, Turn, Fetch, Expire, Download, ApiTypeInv, PageTypes
    <3> QED BY <3>1, <3>2
  <2> QED BY <1>5, <2>1, ApiSteps DEF apiVars, ApiCrash
<1>6. client'[r] = "done" => Whole(got[r], r)'
  BY <1>3, <1>5 DEF FetchInv, Whole
<1> QED BY <1>1, <1>2, <1>4, <1>6

\* With distinct ids and a disk that accepts writes, a page that polls to
\* "complete" and then downloads is given every record of its own report,
\* whatever the workers do and even when the process restarts in between.
THEOREM WholeDownload ==
    ASSUME UniqueIds, ~FlushMayFail
    PROVE  ApiSpec => []BrowserGetsWholeCSV
<1>1. ApiInit => FetchInv
  BY DEF ApiInit, FetchInv
<1>2. ApiTypeInv /\ PlaceInv /\ FileInv /\ FetchInv /\ [ApiNext]_allVars => FetchInv'
  BY FetchInvStep
<1>3. FetchInv => BrowserGetsWholeCSV
  BY DEF FetchInv, BrowserGetsWholeCSV
<1> QED
  BY <1>1, <1>2, <1>3, ApiTypeInvariant, PlaceInvariant, FileInvariant, PoolWithin, PTL
     DEF ApiSpec

-----------------------------------------------------------------------------
(* The download by id, at any moment.                                       *)

\* Nothing but the worker of a report writes to its file, and no handler draws
\* the id of an existing file.
LEMMA OwnersStep ==
    ASSUME UniqueIds, TypeInv, PlaceInv, OwnersInv, [Next]_vars
    PROVE  OwnersInv'
<1> SUFFICES ASSUME NEW i \in Ids, NEW q \in csv'[i].owners PROVE rid'[q] = i
  BY DEF OwnersInv
<1>1. q \in csv[i].owners => rid[q] = i
  BY DEF OwnersInv
<1>2. q \notin csv[i].owners =>
         \E w \in Workers : Works(w) /\ wid[w] = i /\ q = wreq[w]
  BY FileChanges
<1>3. rid[q] = i
  BY <1>1, <1>2 DEF PlaceInv, WorkerInv, WorkOf
<1>4. q \in Requests
  <2>1. q \in csv[i].owners => q \in Requests
    BY DEF TypeInv, TypeOK, Files
  <2> QED BY <1>2, <2>1 DEF TypeInv, HandInv
<1> QED BY <1>3, <1>4, CallStays DEF PlaceInv, IdInv

\* What the page and the direct caller were given is their own.
LEMMA DownloadStep ==
    ASSUME ApiTypeInv, PlaceInv, OwnersInv, DownloadIsOwn, [ApiNext]_allVars
    PROVE  DownloadIsOwn'
<1>1. ASSUME NEW r \in Requests, rid[r] \in Ids PROVE csv[rid[r]].owners \subseteq {r}
  <2> SUFFICES ASSUME NEW q \in csv[rid[r]].owners PROVE q = r
    OBVIOUS
  <2>1. q \in Requests
    BY <1>1 DEF ApiTypeInv, TypeInv, TypeOK, Files
  <2>2. rid[q] = rid[r]
    BY <1>1 DEF OwnersInv
  <2> QED BY <1>1, <2>1, <2>2, NoneAssumption DEF PlaceInv, IdInv
<1>2. ASSUME NEW r \in Requests, PageStep(r) \/ Expire(r) \/ Download(r)
      PROVE  DownloadIsOwn'
  <2>1. Fetch(r) \/ Download(r) => rid[r] \in Ids
    BY PageHasId DEF Fetch, Download, ApiTypeInv, CallInv
  <2>2. CASE Fetch(r)
    BY <1>1, <2>1, <2>2, ZenonT(40) DEF Fetch, DownloadIsOwn, ApiTypeInv, PageTypes
  <2>3. CASE Download(r)
    BY <1>1, <2>1, <2>3 DEF Download, DownloadIsOwn, ApiTypeInv, PageTypes
  <2>4. CASE UNCHANGED <<got, early>>
    BY <2>4 DEF DownloadIsOwn
  <2> QED BY <1>2, <2>2, <2>3, <2>4 DEF PageStep, Submitted, StatusPending, StatusProcessing, Expire
<1>3. CASE UNCHANGED <<got, early>>
  BY <1>3 DEF DownloadIsOwn
<1> QED BY <1>2, <1>3, ApiSteps DEF apiVars, ApiCrash

\* With distinct ids whoever downloads by the id of a call, at whatever moment
\* and after whatever restart, is given no record of another call.
THEOREM OwnDownload ==
    ASSUME UniqueIds
    PROVE  ApiSpec => []DownloadIsOwn
<1>1. ApiInit => OwnersInv /\ DownloadIsOwn
  BY DEF ApiInit, Init, OwnersInv, DownloadIsOwn, NoFile
<1>2. TypeInv /\ PlaceInv /\ OwnersInv /\ [Next]_vars => OwnersInv'
  BY OwnersStep
<1>3. ApiTypeInv /\ PlaceInv /\ OwnersInv /\ DownloadIsOwn /\ [ApiNext]_allVars
        => DownloadIsOwn'
  BY DownloadStep
<1>4. ApiTypeInv => TypeInv
  BY DEF ApiTypeInv
<1>5. ApiSpec => [][Next]_vars
  BY PoolWithin, PTL DEF Spec
<1> QED
  BY <1>1, <1>2, <1>3, <1>4, <1>5, ApiTypeInvariant, PlaceInvariant, PoolWithin, PTL
     DEF ApiSpec

-----------------------------------------------------------------------------
(* The answer "unknown".                                                    *)

\* A request leaves the first map for the hands of a worker, and these for the
\* second map.
LEMMA HandoverStep ==
    ASSUME UniqueIds, TypeInv, TypeInv', PlaceInv, PlaceInv', HandoverInv, [Next]_vars
    PROVE  HandoverInv'
<1> USE NoneAssumption, CrashAssumption
    DEF TypeInv, TypeOK, callVars, queueVars, workVars, Goto, Return
<1> DEFINE Somewhere(r) == \/ pendingRequests[rid[r]] # None
                           \/ processingRequests[rid[r]] # "none"
                           \/ \E w \in Workers : wpc[w] = "mark" /\ wreq[w] = r
<1> SUFFICES ASSUME NEW r \in Requests
             PROVE  /\ call'[r] = "lost" => crashes' # 0
                    /\ r \in Live' => Somewhere(r)'
  BY DEF HandoverInv
<1>0. /\ call[r] = "lost" => crashes # 0
      /\ r \in Live => Somewhere(r)
      /\ r \in Live => rid[r] \in Ids
  BY DEF HandoverInv, PlaceInv, IdInv, Live
<1>1. CASE Crash
  BY <1>1 DEF Crash, Live
<1>2. ASSUME NEW q \in Requests, Reject(q) \/ QueueRequest(q)
      PROVE  /\ call'[r] = "lost" => crashes' # 0
             /\ r \in Live' => Somewhere(r)'
  BY <1>0, <1>2 DEF Reject, QueueRequest, Live
<1>3. ASSUME NEW q \in Requests, StoreRequest(q)
      PROVE  /\ call'[r] = "lost" => crashes' # 0
             /\ r \in Live' => Somewhere(r)'
  <2> PICK i \in Ids \ issued :
        /\ rid' = [rid EXCEPT ![q] = i]
        /\ pendingRequests' = [pendingRequests EXCEPT ![i] = q]
    BY <1>3 DEF StoreRequest, GenerateRequestID
  <2>1. CASE r = q
    BY <1>3, <2>1 DEF StoreRequest
  <2>2. CASE r # q
    BY <1>0, <1>3, <2>2 DEF StoreRequest, Live
  <2> QED BY <2>1, <2>2
<1>4. ASSUME NEW v \in Workers, Take(v) PROVE r \in Live => Somewhere(r)'
  <2> HAVE r \in Live
  <2>1. CASE wid[v] # rid[r]
    BY <1>0, <1>4, <2>1 DEF Take
  <2>2. CASE wid[v] = rid[r]
    <3>1. rid[r] \in Ids /\ pendingRequests[rid[r]] # None
      BY <1>0, <1>4, <2>2 DEF Take, PlaceInv, WorkerInv, WorkOf
    <3>2. pendingRequests[rid[r]] = r
      BY <3>1 DEF PlaceInv, PendingInv, IdInv, Live
    <3>3. wpc'[v] = "mark" /\ wreq'[v] = r
      BY <1>4, <2>2, <3>2 DEF Take
    <3> QED BY <3>3
  <2> QED BY <2>1, <2>2
<1>5. ASSUME NEW v \in Workers, Mark(v) PROVE r \in Live => Somewhere(r)'
  <2> HAVE r \in Live
  <2>1. CASE wreq[v] = r
    BY <1>0, <1>5, <2>1 DEF Mark, PlaceInv, WorkerInv, WorkOf, Works
  <2>2. CASE wreq[v] # r
    BY <1>0, <1>5, <2>2 DEF Mark
  <2> QED BY <2>1, <2>2
<1>6. ASSUME NEW v \in Workers, Publish(v) PROVE r \in Live => Somewhere(r)'
  <2>1. wout[v] # "none"
    BY <1>6 DEF Publish, PlaceInv, WorkerInv, WorkOf, Terminal
  <2> QED BY <1>0, <1>6, <2>1 DEF Publish
<1>7. ASSUME NEW v \in Workers, WorkerStep(v) \/ DruidReplies(v) \/ Sleep(v)
      PROVE  UNCHANGED <<call, rid, crashes>>
  BY <1>7 DEF WorkerStep, NextPendingID, Take, Mark, BuildFails, CallDruid, CreateFails,
      CreateCSV, Spill, WriteFails, RowsDone, CloseCSV, Publish, DruidReplies, DruidFails,
      DruidAnswers, Sleep, vars
<1>8. ASSUME NEW v \in Workers,
             \/ NextPendingID(v) \/ BuildFails(v) \/ CallDruid(v)
             \/ CreateFails(v) \/ CreateCSV(v) \/ Spill(v) \/ WriteFails(v)
             \/ RowsDone(v) \/ CloseCSV(v) \/ DruidReplies(v) \/ Sleep(v)
      PROVE  r \in Live => Somewhere(r)'
  BY <1>0, <1>8 DEF NextPendingID, BuildFails, CallDruid, CreateFails, CreateCSV, Spill,
     WriteFails, RowsDone, CloseCSV, DruidReplies, DruidFails, DruidAnswers, Sleep, vars, Live
<1>9. ASSUME NEW v \in Workers, WorkerStep(v) \/ DruidReplies(v) \/ Sleep(v)
      PROVE  /\ call'[r] = "lost" => crashes' # 0
             /\ r \in Live' => Somewhere(r)'
  <2>1. r \in Live => Somewhere(r)'
    BY <1>4, <1>5, <1>6, <1>8, <1>9 DEF WorkerStep
  <2> QED BY <1>0, <1>7, <1>9, <2>1 DEF Live
<1>10. CASE UNCHANGED vars
  BY <1>0, <1>10 DEF vars, Live
<1> QED BY <1>1, <1>2, <1>3, <1>9, <1>10 DEF Next, Handler, AddPendingRequest

\* Whoever is answered "unknown" was in neither map at the second read, and had
\* left the first before.
LEMMA UnknownStep ==
    ASSUME ApiTypeInv, PageInv, HandoverInv, [ApiNext]_allVars, NEW r \in Requests,
           seen[r] # "unknown", seen'[r] = "unknown", crashes = 0
    PROVE  \E w \in Workers : wpc[w] = "mark" /\ wreq[w] = r
<1>1. ASSUME NEW q \in Requests, PageStep(q) \/ Expire(q) \/ Download(q)
      PROVE  StatusProcessing(r)
  BY <1>1 DEF PageStep, Submitted, StatusPending, StatusProcessing, Digest, Turn,
     Fetch, Expire, Download, ApiTypeInv, PageTypes
<1>2. StatusProcessing(r)
  BY <1>1, ApiSteps DEF apiVars, ApiCrash
<1>3. rid[r] \in Ids /\ call[r] \in {"answered", "lost"}
  BY <1>2 DEF StatusProcessing, ApiTypeInv, CallInv
<1>4. processingRequests[rid[r]] = "none"
  BY <1>2, <1>3 DEF StatusProcessing, Digest, ApiTypeInv, PageTypes, TypeInv, TypeOK,
     Statuses
<1>5. pendingRequests[rid[r]] = None
  BY <1>2 DEF StatusProcessing, PageInv, Gone
<1>6. r \in Live
  BY <1>3 DEF HandoverInv, Live
<1> QED BY <1>4, <1>5, <1>6 DEF HandoverInv

\* Without a restart and with distinct ids, "unknown" is only ever answered while
\* a worker stands between LoadAndDelete and Store with the request in its hands.
THEOREM UnknownHandover ==
    ASSUME UniqueIds
    PROVE  ApiSpec => UnknownIsHandover
<1>1. ApiInit => PageInv /\ HandoverInv
  BY DEF ApiInit, Init, PageInv, HandoverInv, Live
<1>2. ApiTypeInv /\ PlaceInv /\ PageInv /\ [ApiNext]_allVars => PageInv'
  BY PageInvStep
<1>3. TypeInv /\ TypeInv' /\ PlaceInv /\ PlaceInv' /\ HandoverInv /\ [Next]_vars
        => HandoverInv'
  BY HandoverStep
<1>4. ApiTypeInv => TypeInv
  BY DEF ApiTypeInv
<1>5. ApiSpec => [][Next]_vars
  BY PoolWithin, PTL DEF Spec
<1>6. ApiTypeInv /\ PageInv /\ HandoverInv /\ [ApiNext]_allVars =>
         [\A r \in Requests :
            seen[r] # "unknown" /\ seen'[r] = "unknown" /\ crashes = 0 =>
              \E w \in Workers : wpc[w] = "mark" /\ wreq[w] = r]_allVars
  BY UnknownStep
<1> QED
  BY <1>1, <1>2, <1>3, <1>4, <1>5, <1>6, ApiTypeInvariant, PlaceInvariant, PoolWithin, PTL
     DEF ApiSpec, UnknownIsHandover
=============================================================================
