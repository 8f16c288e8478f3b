-------------------------- MODULE MCProcessRequest --------------------------
(***************************************************************************)
(* ProcessRequest for TLC.  Dates and selections meet nowhere but in the   *)
(* order of the steps, so one of the two is varied at a time: all periods  *)
(* for one payload, one period and one date that does not parse for the    *)
(* others.                                                                 *)
(***************************************************************************)
EXTENDS MCQuery, ProcessRequest

\* The payload that is sent with every period.
DatedCall == [Call0 EXCEPT !.admin = TRUE, !.dims = <<"time", "country">>]

PrWorlds == McWorlds \cup {World("file", {SumOfA}, DatedCall)}

Period(first, last, cmp) == [start |-> first, end |-> last, compare |-> cmp]

\* Every day of 2023 and 2024 begins periods around each limit of the code, a
\* reversed one included.
Firsts == DayNumber(2023, 1, 1) .. DayNumber(2024, 12, 31)
Lengths == {-2, 0, 1, 2, 6, 7, 26, 27, 28, 30, 31, 363, 364, 365, 366}
Compares == {"", "prev_day", "prev_week", "prev_month", "prev_year"}

McPeriods(p) ==
    IF p = DatedCall
    THEN {Period(n, n + l, c) : n \in Firsts, l \in Lengths, c \in Compares}
           \cup {Period(Unparsable, YearStart[2023], ""),
                 Period(YearStart[2023], Unparsable, "prev_day"),
                 Period(Missing, Missing, "")}
    ELSE {Period(YearStart[2024], YearStart[2024] + 6, "prev_week")}
=============================================================================
