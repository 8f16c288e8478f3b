---------------------------- MODULE ReportQueue ----------------------------
(***************************************************************************)
(* What the report service promises to its callers, apart from maps, ids   *)
(* and goroutines: "FIFO queue, workers, status polling" (README.md).      *)
(* A request that is accepted stands in one line, is claimed once, from    *)
(* the front of the line, by one of Capacity servers, and ends complete or *)
(* in error; only a crash of the process forgets it.                       *)
(***************************************************************************)
EXTENDS Naturals, Sequences, FiniteSets

CONSTANTS Requests, Capacity

VARIABLES
    state,      \* what has become of each request
    line,       \* the waiting requests, oldest first
    restarts    \* how often the process was restarted

qvars == <<state, line, restarts>>

States == {"new", "refused", "accepted", "waiting", "running",
           "complete", "error", "lost"}

Init ==
    /\ state = [r \in Requests |-> "new"]
    /\ line = <<>>
    /\ restarts = 0

Move(r, to) == state' = [state EXCEPT ![r] = to]

Refuse(r) == state[r] = "new" /\ Move(r, "refused") /\ UNCHANGED <<line, restarts>>

Accept(r) == state[r] = "new" /\ Move(r, "accepted") /\ UNCHANGED <<line, restarts>>

Join(r) ==
    /\ state[r] = "accepted"
    /\ Move(r, "waiting")
    /\ line' = Append(line, r)
    /\ UNCHANGED restarts

Running == {r \in Requests : state[r] = "running"}

Claim ==
    /\ line # <<>>
    /\ Cardinality(Running) < Capacity
    /\ Move(Head(line), "running")
    /\ line' = Tail(line)
    /\ UNCHANGED restarts

Finish(r) ==
    /\ state[r] = "running"
    /\ \E outcome \in {"complete", "error"} : Move(r, outcome)
    /\ UNCHANGED <<line, restarts>>

Restart ==
    /\ state' = [r \in Requests |->
                  IF state[r] \in {"new", "refused"} THEN state[r] ELSE "lost"]
    /\ line' = <<>>
    /\ restarts' = restarts + 1

Next ==
    \/ \E r \in Requests : Refuse(r) \/ Accept(r) \/ Join(r) \/ Finish(r)
    \/ Claim
    \/ Restart

Spec == Init /\ [][Next]_qvars

\* The line moves, and whoever is claimed is served.
Promise ==
    /\ WF_qvars(Claim)
    /\ \A r \in Requests : WF_qvars(Join(r)) /\ WF_qvars(Finish(r))

FairSpec == Spec /\ Promise
=============================================================================
