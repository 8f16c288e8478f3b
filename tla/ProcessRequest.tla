--------------------------- MODULE ProcessRequest ---------------------------
(***************************************************************************)
(* One report from the execute handler to the query sent to Druid:         *)
(* CheckRights, then in a worker the first half of ProcessRequest          *)
(* (src/worker/pool.go), which computes the intervals (module Intervals)   *)
(* and only then looks up the datasource and builds the query (module      *)
(* Query).  Dates that do not parse end the report before that.            *)
(***************************************************************************)
EXTENDS Query, Intervals

CONSTANTS
    Periods(_),     \* payload -> the [start, end, compare] it may come with
    Missing         \* the dates of a payload without a usable pair of dates

ASSUME PeriodsAssumption ==
    \A w \in Worlds : \A p \in Periods(w.payload) :
        \/ p.start = Missing
        \/ p.start \in Days \cup {Unparsable} /\ p.end \in Days \cup {Unparsable}

prVars == <<quVars, ivVars>>

Uncomputed == [main |-> <<>>, comparison |-> <<>>, err |-> FALSE, done |-> FALSE]

PrInit ==
    /\ Init
    /\ \E p \in Periods(req) : start = p.start /\ end = p.end /\ compare = p.compare
    /\ result = Uncomputed

Checked == Execute /\ UNCHANGED ivVars

Edited == EditAccess /\ UNCHANGED ivVars

\* Without a pair of dates the query has no interval at all.
Intervalled ==
    /\ verdict = "accepted"
    /\ ~result.done
    /\ \E computed \in {IF start = Missing THEN Uncomputed
                         ELSE ComputeIntervals(start, end, compare)} :
        /\ result' = [main |-> computed.main, comparison |-> computed.comparison,
                      err |-> computed.err, done |-> TRUE]
        /\ verdict' = IF computed.err THEN "undated" ELSE verdict
    /\ UNCHANGED <<confVars, access, query, start, end, compare>>

Built ==
    /\ result.done
    /\ Build
    /\ UNCHANGED ivVars

PrNext == Checked \/ Edited \/ Intervalled \/ Built

PrSpec == PrInit /\ [][PrNext]_prVars
=============================================================================
