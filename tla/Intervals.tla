----------------------------- MODULE Intervals -----------------------------
(***************************************************************************)
(* ComputeIntervals (src/worker/pool.go): the period a report covers and   *)
(* the earlier period it is compared with, as Druid intervals, whose end   *)
(* is exclusive.                                                           *)
(*                                                                         *)
(* A day is its number since 1 January FirstYear; layout and parsing of    *)
(* the dates are abstracted to that number, or to Unparsable.  The         *)
(* calendar (time.AddDate, with its normalisation of 31 February) is       *)
(* modelled by what it does.                                               *)
(***************************************************************************)
EXTENDS Integers

CONSTANTS
    FirstYear, LastYear,    \* the calendar
    Unparsable              \* a date time.Parse refuses

ASSUME YearsAssumption == FirstYear \in Nat /\ LastYear \in Nat /\ FirstYear < LastYear

VARIABLES
    start, end, compare,    \* dates and compare of the payload
    result                  \* what ComputeIntervals made of them

ivVars == <<start, end, compare, result>>

-----------------------------------------------------------------------------
(* The calendar.                                                            *)

Years == FirstYear .. LastYear
Months == 1 .. 12

Leap(y) == y % 4 = 0 /\ (y % 100 # 0 \/ y % 400 = 0)

MonthDays(y, m) ==
    CASE m = 2 -> IF Leap(y) THEN 29 ELSE 28
      [] m \in {4, 6, 9, 11} -> 30
      [] OTHER -> 31

YearDays(y) == IF Leap(y) THEN 366 ELSE 365

YearStart[y \in FirstYear .. LastYear + 1] ==
    IF y = FirstYear THEN 0 ELSE YearStart[y - 1] + YearDays(y - 1)

DaysBefore == <<0, 31, 59, 90, 120, 151, 181, 212, 243, 273, 304, 334>>

MonthStart(y, m) ==
    YearStart[y] + DaysBefore[m] + IF m > 2 /\ Leap(y) THEN 1 ELSE 0

\* The day number of the d-th day of a month, which may lie beyond its end.
DayNumber(y, m, d) == MonthStart(y, m) + d - 1

Date == [n \in 0 .. YearStart[LastYear + 1] - 1 |->
    LET y == CHOOSE y \in Years : YearStart[y] <= n /\ n < YearStart[y + 1]
        m == CHOOSE m \in Months : MonthStart(y, m) <= n
                                   /\ n < MonthStart(y, m) + MonthDays(y, m)
    IN [year |-> y, month |-> m, day |-> n - MonthStart(y, m) + 1]]

\* t.AddDate(years, months, days): the month is normalised first, then a day
\* beyond the end of its month runs over into the next.
AddDate(n, years, months, days) ==
    LET count == Date[n].month - 1 + months
    IN DayNumber(Date[n].year + years + (count \div 12), (count % 12) + 1,
                 Date[n].day + days)

\* The days that leave room in the calendar for a year before and a day after.
Days == YearStart[FirstYear + 1] .. YearStart[LastYear + 1] - 2

-----------------------------------------------------------------------------
(* ComputeIntervals.                                                        *)

Failed == [main |-> <<>>, comparison |-> <<>>, err |-> TRUE]

\* Seeded fault: the period before begins a day late.
BeforeLate(until, duration) == <<until - duration + 1, until>>

\* The period that ends where `until` begins and lasts as long as the main one.
Before(until, duration) == <<until - duration, until>>

\* Seeded fault: the last day of a report is left out.
Exclusive(first, last) == <<first, last>>

\* "2023-01-01/2023-02-01" for the days from first to last.
MainInterval(first, last) == <<first, AddDate(last, 0, 0, 1)>>

\* Seeded fault: a long period is moved by the step like a short one.
ShiftedLong(years, months, days, limit, first, until) ==
    <<AddDate(first, years, months, days), AddDate(until, years, months, days)>>

\* prev_week, prev_month, prev_year: a period no longer than the step is moved
\* by the step, a longer one is moved before the step.
Shifted(years, months, days, limit, first, until) ==
    IF until - first > limit
    THEN Before(AddDate(first, years, months, days), until - first)
    ELSE <<AddDate(first, years, months, days), AddDate(until, years, months, days)>>

Comparison(cmp, first, until) ==
    CASE cmp = "prev_day"   -> Before(first, until - first)
      [] cmp = "prev_week"  -> Shifted(0, 0, -7, 7, first, until)
      [] cmp = "prev_month" -> Shifted(0, -1, 0, 28, first, until)
      [] cmp = "prev_year"  -> Shifted(-1, 0, 0, 365, first, until)
      [] OTHER -> <<>>

ComputeIntervals(first, last, cmp) ==
    IF first = Unparsable \/ last = Unparsable THEN Failed
    ELSE LET main == MainInterval(first, last)
         IN [main |-> main, comparison |-> Comparison(cmp, main[1], main[2]),
             err |-> FALSE]

-----------------------------------------------------------------------------
(* Properties.                                                              *)

Computed == result.main # <<>>
Compared == Computed /\ result.comparison # <<>>
Length(interval) == interval[2] - interval[1]
Ordered == start <= end

\* The interval asked of Druid holds exactly the days picked, the last one
\* included: "Pour couvrir toute la journee end incluse".
MainCoversPickedDays ==
    Computed => result.main[1] .. result.main[2] - 1 = start .. end

\* The comparison period shares no day with the report, at the end of
\* every month and around 29 February as well.
ComparisonPrecedes ==
    Compared /\ Ordered => result.comparison[2] <= result.main[1]

\* "convention Druid end exclusive": the comparison of a period that begins by
\* the 28th begins before it ends, or Druid would refuse the whole query.  From
\* the 29th on AddDate may fold the days of a long month onto the first ones
\* of the next: 2023-03-30 to 31 has no comparison with the month before.
ComparisonIsInterval ==
    Compared /\ Ordered /\ Date[start].day <= 28 => Length(result.comparison) > 0
=============================================================================
