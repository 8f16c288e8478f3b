------------------------ MODULE ProcessRequestProofs ------------------------
(***************************************************************************)
(* Theorems about the way from a call to its query, for any calendar, schema,*)
(* rights, filters and formulas.  What a loop of the code has made, and    *)
(* what the calendar adds up to, are recursive functions; they are defined *)
(* for every length, and what they return is shown, by looking at the least*)
(* number for which it would not be so.  What the compiler makes of a      *)
(* formula is proved in FormulaProofs.                                     *)
(***************************************************************************)
EXTENDS ProcessRequest, FormulaProofs

-----------------------------------------------------------------------------
(* The calendar.                                                            *)

\* The days of the years up to n years after the first, by that definition.
LEMMA YearStartDef ==
    \A y \in FirstYear .. LastYear + 1 :
        YearStart[y] = IF y = FirstYear THEN 0 ELSE YearStart[y - 1] + YearDays(y - 1)
<1> DEFINE Good(n, g) == g = [y \in FirstYear .. FirstYear + n |->
                IF y = FirstYear THEN 0 ELSE g[y - 1] + YearDays(y - 1)]
           Bad == {n \in Nat : ~ \E g : Good(n, g)}
<1> USE YearsAssumption
<1>1. ASSUME NEW n \in Bad, \A k \in Bad : n <= k PROVE FALSE
  <2>1. CASE n = 0
    <3>1. Good(0, [y \in FirstYear .. FirstYear + 0 |-> 0])
      OBVIOUS
    <3> QED BY <1>1, <2>1, <3>1
  <2>2. CASE n # 0
    <3>1. n \in Nat /\ n - 1 \in Nat
      BY <2>2
    <3>2. n - 1 \notin Bad
      <4> HIDE DEF Bad
      <4> QED BY <1>1, <3>1
    <3>3. PICK g : Good(n - 1, g)
      BY <3>1, <3>2
    <3> DEFINE h == [y \in FirstYear .. FirstYear + n |->
                 IF y = FirstYear + n THEN g[y - 1] + YearDays(y - 1) ELSE g[y]]
    <3>4. \A y \in FirstYear .. FirstYear + n :
             h[y] = IF y = FirstYear THEN 0 ELSE h[y - 1] + YearDays(y - 1)
      BY <3>1, <3>3, <2>2
    <3>5. Good(n, h)
      BY <3>4
    <3> QED BY <1>1, <3>5
  <2> QED BY <2>1, <2>2
<1>2. Bad = {}
  <2>1. Bad \subseteq Nat
    OBVIOUS
  <2> HIDE DEF Bad
  <2> QED BY <1>1, <2>1, LeastNat
<1>3. LastYear + 1 - FirstYear \in Nat /\ FirstYear + (LastYear + 1 - FirstYear) = LastYear + 1
  OBVIOUS
<1>4. PICK g : Good(LastYear + 1 - FirstYear, g)
  BY <1>2, <1>3
<1>5. g = [y \in FirstYear .. LastYear + 1 |->
             IF y = FirstYear THEN 0 ELSE g[y - 1] + YearDays(y - 1)]
  BY <1>3, <1>4
<1>6. YearStart = [y \in FirstYear .. LastYear + 1 |->
             IF y = FirstYear THEN 0 ELSE YearStart[y - 1] + YearDays(y - 1)]
  BY <1>5, Zenon DEF YearStart
<1> QED BY <1>6

\* A year that begins after another one begins at least 365 days later.
LEMMA YearsGrow ==
    \A y \in FirstYear .. LastYear + 1 :
        /\ YearStart[y] \in Nat
        /\ \A z \in FirstYear .. y - 1 : YearStart[z] + YearDays(z) <= YearStart[y]
<1> DEFINE P(y) == /\ YearStart[y] \in Nat
                   /\ \A z \in FirstYear .. y - 1 : YearStart[z] + YearDays(z) <= YearStart[y]
           Bad == {y \in FirstYear .. LastYear + 1 : ~P(y)}
<1> USE YearsAssumption
<1>1. \A y \in Nat : YearDays(y) \in {365, 366}
  BY DEF YearDays
<1>2. ASSUME NEW y \in Bad, \A k \in Bad : y <= k PROVE FALSE
  <2>0. y \in FirstYear .. LastYear + 1 /\ y \in Nat
    OBVIOUS
  <2>1. CASE y = FirstYear
    <3>1. P(y)
      BY <2>1, YearStartDef
    <3> QED BY <3>1
  <2>2. CASE y # FirstYear
    <3>1. y - 1 \in FirstYear .. LastYear + 1 /\ y - 1 \notin Bad
      <4> HIDE DEF Bad
      <4> QED BY <1>2, <2>0, <2>2
    <3>2. P(y - 1)
      BY <3>1
    <3>3. YearStart[y] = YearStart[y - 1] + YearDays(y - 1) /\ YearDays(y - 1) \in {365, 366}
      BY <1>1, <2>0, <2>2, YearStartDef
    <3>4. YearStart[y] \in Nat
      BY <3>2, <3>3
    <3>5. ASSUME NEW z \in FirstYear .. y - 1 PROVE YearStart[z] + YearDays(z) <= YearStart[y]
      <4>1. CASE z = y - 1
        BY <3>2, <3>3, <4>1
      <4>2. CASE z # y - 1
        <5>1. z \in FirstYear .. (y - 1) - 1 /\ z \in FirstYear .. LastYear + 1
          BY <2>0, <4>2
        <5>2. YearStart[z] + YearDays(z) <= YearStart[y - 1]
          BY <3>2, <5>1
        <5>3. YearDays(z) \in {365, 366} /\ YearStart[y - 1] \in Nat
          BY <1>1, <3>2, <2>0
        <5>4. z \notin Bad /\ z \in FirstYear .. LastYear + 1
          <6> HIDE DEF Bad
          <6> QED BY <1>2, <2>0, <4>2
        <5>5. YearStart[z] \in Nat
          BY <5>4
        <5> QED BY <3>3, <5>2, <5>3, <5>5
      <4> QED BY <4>1, <4>2
    <3> QED BY <3>4, <3>5
  <2> QED BY <2>1, <2>2
<1>3. Bad = {}
  <2>1. Bad \subseteq Nat
    OBVIOUS
  <2> HIDE DEF Bad
  <2> QED BY <1>2, <2>1, LeastNat
<1> QED BY <1>3

\* The months of a year follow each other.
LEMMA MonthTable ==
    ASSUME NEW y \in Years, NEW m \in Months
    PROVE  /\ MonthDays(y, m) \in 28 .. 31
           /\ MonthStart(y, m) \in Nat
           /\ MonthStart(y, 1) = YearStart[y]
           /\ MonthStart(y, 12) + MonthDays(y, 12) = YearStart[y + 1]
           /\ m < 12 => MonthStart(y, m + 1) = MonthStart(y, m) + MonthDays(y, m)
<1> USE YearsAssumption
<1>1. y \in Nat /\ YearStart[y] \in Nat /\ YearStart[y + 1] = YearStart[y] + YearDays(y)
  BY YearStartDef, YearsGrow DEF Years
<1>2. \A k \in Months : MonthStart(y, k) =
         YearStart[y] + DaysBefore[k] + IF k > 2 /\ Leap(y) THEN 1 ELSE 0
  BY DEF MonthStart
<1>3. /\ DaysBefore[1] = 0 /\ DaysBefore[2] = 31 /\ DaysBefore[3] = 59 /\ DaysBefore[4] = 90
      /\ DaysBefore[5] = 120 /\ DaysBefore[6] = 151 /\ DaysBefore[7] = 181 /\ DaysBefore[8] = 212
      /\ DaysBefore[9] = 243 /\ DaysBefore[10] = 273 /\ DaysBefore[11] = 304 /\ DaysBefore[12] = 334
  BY DEF DaysBefore
<1>4. /\ MonthDays(y, 2) = IF Leap(y) THEN 29 ELSE 28
      /\ \A k \in {4, 6, 9, 11} : MonthDays(y, k) = 30
      /\ \A k \in {1, 3, 5, 7, 8, 10, 12} : MonthDays(y, k) = 31
  BY DEF MonthDays
<1>5. m \in {1, 2, 3, 4, 5, 6, 7, 8, 9, 10, 11, 12}
  BY DEF Months
<1>6. YearDays(y) = IF Leap(y) THEN 366 ELSE 365
  BY DEF YearDays
<1>7. MonthDays(y, m) \in 28 .. 31
  BY <1>4, <1>5
<1>8. MonthStart(y, m) \in Nat
  BY <1>1, <1>2, <1>3, <1>5 DEF Months
<1>9. MonthStart(y, 1) = YearStart[y] /\ MonthStart(y, 12) + MonthDays(y, 12) = YearStart[y + 1]
  BY <1>1, <1>2, <1>3, <1>4, <1>6 DEF Months
<1>10. m < 12 => MonthStart(y, m + 1) = MonthStart(y, m) + MonthDays(y, m)
  BY <1>1, <1>2, <1>3, <1>4, <1>5 DEF Months
<1> QED BY <1>7, <1>8, <1>9, <1>10

\* A later month of a year begins when an earlier one is over.
LEMMA MonthsOfYear ==
    ASSUME NEW y \in Years, NEW k \in Months, NEW m \in Months, k < m
    PROVE  MonthStart(y, k) + MonthDays(y, k) <= MonthStart(y, m)
<1>1. \A i \in Months : MonthStart(y, i) \in Nat /\ MonthDays(y, i) \in 28 .. 31
  BY MonthTable
<1>2. \A i \in 1 .. 11 : MonthStart(y, i + 1) = MonthStart(y, i) + MonthDays(y, i)
  BY MonthTable DEF Months
<1>3. /\ MonthStart(y, 2) <= MonthStart(y, 3) /\ MonthStart(y, 3) <= MonthStart(y, 4)
      /\ MonthStart(y, 4) <= MonthStart(y, 5) /\ MonthStart(y, 5) <= MonthStart(y, 6)
      /\ MonthStart(y, 6) <= MonthStart(y, 7) /\ MonthStart(y, 7) <= MonthStart(y, 8)
      /\ MonthStart(y, 8) <= MonthStart(y, 9) /\ MonthStart(y, 9) <= MonthStart(y, 10)
      /\ MonthStart(y, 10) <= MonthStart(y, 11) /\ MonthStart(y, 11) <= MonthStart(y, 12)
  BY <1>1, <1>2 DEF Months
<1>4. \A i \in 2 .. 12 : MonthStart(y, i) \in Nat
  BY <1>1 DEF Months
<1>5. k + 1 \in 2 .. 12 /\ m \in 2 .. 12 /\ k + 1 <= m
  BY DEF Months
<1>6. ASSUME NEW i \in 2 .. 12, NEW j \in 2 .. 12, i <= j
      PROVE  MonthStart(y, i) <= MonthStart(y, j)
  <2>1. i \in {2, 3, 4, 5, 6, 7, 8, 9, 10, 11, 12} /\ j \in {2, 3, 4, 5, 6, 7, 8, 9, 10, 11, 12}
    OBVIOUS
  <2> QED BY <1>3, <1>4, <1>6, <2>1
<1>7. MonthStart(y, k + 1) = MonthStart(y, k) + MonthDays(y, k)
  BY <1>2, <1>5 DEF Months
<1> QED BY <1>5, <1>6, <1>7

\* So does a month of a later year.
LEMMA MonthsApart ==
    ASSUME NEW y \in Years, NEW m \in Months, NEW z \in Years, NEW k \in Months,
           z < y \/ (z = y /\ k < m)
    PROVE  MonthStart(z, k) + MonthDays(z, k) <= MonthStart(y, m)
<1>1. CASE z = y
  BY <1>1, MonthsOfYear DEF Years
<1>2. CASE z < y
  <2>0. /\ \A i \in Months : /\ MonthStart(y, i) \in Nat /\ MonthDays(y, i) \in 28 .. 31
                             /\ MonthStart(z, i) \in Nat /\ MonthDays(z, i) \in 28 .. 31
        /\ MonthStart(y, 1) = YearStart[y]
        /\ MonthStart(z, 12) + MonthDays(z, 12) = YearStart[z + 1]
        /\ 1 \in Months /\ 12 \in Months
    BY MonthTable DEF Months
  <2>1. YearStart[z + 1] <= YearStart[y]
    <3>1. z \in Nat /\ y \in Nat
      BY YearsAssumption DEF Years
    <3>2. YearStart[z] \in Nat /\ YearStart[y] \in Nat /\ YearStart[z] + YearDays(z) <= YearStart[y]
      BY <1>2, <3>1, YearsAssumption, YearsGrow DEF Years
    <3>3. YearStart[z + 1] = YearStart[z] + YearDays(z)
      BY <3>1, YearsAssumption, YearStartDef DEF Years
    <3> QED BY <3>2, <3>3
  <2>2. MonthStart(z, k) + MonthDays(z, k) <= YearStart[z + 1]
    <3>1. CASE k = 12
      BY <2>0, <3>1
    <3>2. CASE k # 12
      <4>1. k < 12
        BY <3>2 DEF Months
      <4>2. MonthStart(z, k) + MonthDays(z, k) <= MonthStart(z, 12)
        BY <2>0, <4>1, MonthsOfYear
      <4> QED BY <2>0, <4>2
    <3> QED BY <3>1, <3>2
  <2>3. MonthStart(y, 1) <= MonthStart(y, m)
    <3>1. CASE m = 1
      BY <2>0, <3>1
    <3>2. CASE m # 1
      <4>1. 1 < m
        BY <3>2 DEF Months
      <4>2. MonthStart(y, 1) + MonthDays(y, 1) <= MonthStart(y, m)
        BY <2>0, <4>1, MonthsOfYear
      <4> QED BY <2>0, <4>2
    <3> QED BY <3>1, <3>2
  <2>4. YearStart[z + 1] \in Nat /\ YearStart[y] \in Nat
    BY <2>0
  <2> QED BY <2>0, <2>1, <2>2, <2>3, <2>4
<1> QED BY <1>1, <1>2 DEF Years

\* Every day of the calendar has a date, and the date its number.
LEMMA DateOfDay ==
    ASSUME NEW n \in 0 .. YearStart[LastYear + 1] - 1
    PROVE  /\ Date[n].year \in Years /\ Date[n].month \in Months
           /\ Date[n].day \in 1 .. MonthDays(Date[n].year, Date[n].month)
           /\ n = MonthStart(Date[n].year, Date[n].month) + Date[n].day - 1
<1> USE YearsAssumption
<1>1. n \in Nat /\ n < YearStart[LastYear + 1]
  BY YearsGrow
<1>2. \E y \in Years : YearStart[y] <= n /\ n < YearStart[y + 1]
  <2> DEFINE T == {y \in Years : n < YearStart[y + 1]}
  <2>1. T \subseteq Nat
    BY DEF Years
  <2>2. LastYear \in T
    BY <1>1 DEF Years
  <2>3. PICK y \in T : \A k \in T : y <= k
    <3> HIDE DEF T
    <3> QED BY <2>1, <2>2, LeastNat
  <2>4. y \in Nat /\ y \in Years
    BY <2>1
  <2>5. CASE y = FirstYear
    BY <1>1, <2>4, <2>5, YearStartDef DEF Years
  <2>6. CASE y # FirstYear
    <3>1. y - 1 \in Years /\ (y - 1) + 1 = y
      BY <2>4, <2>6 DEF Years
    <3>2. y - 1 \notin T
      <4> HIDE DEF T
      <4> QED BY <2>3, <2>4
    <3>3. ~(n < YearStart[y])
      BY <3>1, <3>2
    <3>4. YearStart[y] \in Nat
      BY <2>4, YearsGrow DEF Years
    <3> QED BY <1>1, <2>4, <3>3, <3>4
  <2> QED BY <2>5, <2>6
<1> DEFINE year == CHOOSE y \in Years : YearStart[y] <= n /\ n < YearStart[y + 1]
<1>3. year \in Years /\ YearStart[year] <= n /\ n < YearStart[year + 1]
  BY <1>2
<1> HIDE DEF year
<1>4. \E m \in Months : MonthStart(year, m) <= n /\ n < MonthStart(year, m) + MonthDays(year, m)
  <2>1. /\ \A i \in Months : MonthDays(year, i) \in 28 .. 31 /\ MonthStart(year, i) \in Nat
        /\ \A i \in 1 .. 11 : MonthStart(year, i + 1) = MonthStart(year, i) + MonthDays(year, i)
        /\ MonthStart(year, 1) <= n
        /\ n < MonthStart(year, 12) + MonthDays(year, 12)
    BY <1>3, MonthTable DEF Months
  <2> DEFINE T == {m \in Months : n < MonthStart(year, m) + MonthDays(year, m)}
  <2>2. T \subseteq Nat /\ 12 \in T
    BY <2>1 DEF Months
  <2>3. PICK m \in T : \A k \in T : m <= k
    <3> HIDE DEF T
    <3> QED BY <2>2, LeastNat
  <2>4. m \in Months /\ n < MonthStart(year, m) + MonthDays(year, m)
    OBVIOUS
  <2>5. CASE m = 1
    BY <2>1, <2>4, <2>5
  <2>6. CASE m # 1
    <3>1. m - 1 \in Months /\ m - 1 \in 1 .. 11
      BY <2>4, <2>6 DEF Months
    <3>2. m - 1 \notin T
      <4> HIDE DEF T
      <4> QED BY <2>3, <2>4, <3>1 DEF Months
    <3>3. ~(n < MonthStart(year, m - 1) + MonthDays(year, m - 1))
      BY <3>1, <3>2
    <3>4. MonthStart(year, m) = MonthStart(year, m - 1) + MonthDays(year, m - 1)
      <4>1. (m - 1) + 1 = m
        BY <2>4 DEF Months
      <4> QED BY <2>1, <3>1, <4>1
    <3>5. MonthStart(year, m) <= n
      BY <1>1, <2>1, <2>4, <3>3, <3>4
    <3> QED BY <2>4, <3>5
  <2> QED BY <2>5, <2>6
<1> DEFINE month == CHOOSE m \in Months : MonthStart(year, m) <= n
                                 /\ n < MonthStart(year, m) + MonthDays(year, m)
<1>5. month \in Months /\ MonthStart(year, month) <= n
      /\ n < MonthStart(year, month) + MonthDays(year, month)
  BY <1>4
<1>6. Date[n] = [year |-> year, month |-> month, day |-> n - MonthStart(year, month) + 1]
  BY DEF Date, year
<1> HIDE DEF month
<1>7. MonthStart(year, month) \in Nat /\ MonthDays(year, month) \in 28 .. 31
  BY <1>3, <1>5, MonthTable
<1> QED BY <1>1, <1>3, <1>5, <1>6, <1>7

\* The days that have a day a year earlier.
Span == YearStart[FirstYear + 1] .. YearStart[LastYear + 1] - 1

LEMMA SpanDays ==
    ASSUME NEW n \in Span
    PROVE  /\ n \in Nat /\ n \in 0 .. YearStart[LastYear + 1] - 1
           /\ Date[n].year \in Years /\ Date[n].year - 1 \in Years
           /\ Date[n].month \in Months /\ Date[n].day \in Nat \ {0}
           /\ Date[n].day <= MonthDays(Date[n].year, Date[n].month)
           /\ n = MonthStart(Date[n].year, Date[n].month) + Date[n].day - 1
<1> USE YearsAssumption
<1>1. /\ YearStart[FirstYear + 1] \in Nat /\ YearStart[LastYear + 1] \in Nat
  BY YearsGrow
<1>2. n \in Nat /\ n \in 0 .. YearStart[LastYear + 1] - 1 /\ YearStart[FirstYear + 1] <= n
  BY <1>1 DEF Span
<1> DEFINE y == Date[n].year
           m == Date[n].month
           d == Date[n].day
<1>3. y \in Years /\ m \in Months /\ d \in 1 .. MonthDays(y, m) /\ n = MonthStart(y, m) + d - 1
  BY <1>2, DateOfDay
<1> HIDE DEF y, m, d
<1>4. MonthDays(y, m) \in 28 .. 31 /\ MonthStart(y, m) \in Nat
  BY <1>3, MonthTable
<1>5. y # FirstYear
  <2> SUFFICES ASSUME y = FirstYear PROVE FALSE
    OBVIOUS
  <2>1. FirstYear + 1 \in Years /\ 1 \in Months /\ y < FirstYear + 1
    BY <1>3 DEF Years, Months
  <2>2. MonthStart(y, m) + MonthDays(y, m) <= MonthStart(FirstYear + 1, 1)
    BY <1>3, <2>1, MonthsApart
  <2>3. MonthStart(FirstYear + 1, 1) = YearStart[FirstYear + 1]
    BY <2>1, MonthTable
  <2> QED BY <1>1, <1>2, <1>3, <1>4, <2>2, <2>3
<1>6. y - 1 \in Years
  BY <1>3, <1>5 DEF Years
<1> QED BY <1>2, <1>3, <1>4, <1>6 DEF y, m, d

-----------------------------------------------------------------------------
(* AddDate.                                                                 *)

\* A date so many days later, or earlier.
LEMMA AddDays ==
    ASSUME NEW n \in Span, NEW k \in Int
    PROVE  AddDate(n, 0, 0, k) = n + k
<1>1. /\ Date[n].year \in Nat /\ Date[n].month \in 1 .. 12 /\ Date[n].day \in Nat /\ n \in Nat
      /\ n = MonthStart(Date[n].year, Date[n].month) + Date[n].day - 1
      /\ MonthStart(Date[n].year, Date[n].month) \in Nat
  BY SpanDays, MonthTable, YearsAssumption DEF Months, Years
<1>2. (Date[n].month - 1 + 0) \div 12 = 0 /\ (Date[n].month - 1 + 0) % 12 = Date[n].month - 1
  BY <1>1
<1>3. AddDate(n, 0, 0, k) = DayNumber(Date[n].year + 0 + 0, Date[n].month - 1 + 1, Date[n].day + k)
  BY <1>2 DEF AddDate
<1>4. AddDate(n, 0, 0, k) = MonthStart(Date[n].year, Date[n].month) + (Date[n].day + k) - 1
  BY <1>1, <1>3 DEF DayNumber
<1> QED BY <1>1, <1>4

\* The month before the m-th of year y.
YearOfPrev(y, m) == IF m = 1 THEN y - 1 ELSE y
MonthOfPrev(m) == IF m = 1 THEN 12 ELSE m - 1

LEMMA PrevMonth ==
    ASSUME NEW y \in Years, y - 1 \in Years, NEW m \in Months
    PROVE  /\ YearOfPrev(y, m) \in Years /\ MonthOfPrev(m) \in Months
           /\ MonthStart(YearOfPrev(y, m), MonthOfPrev(m)) +
                 MonthDays(YearOfPrev(y, m), MonthOfPrev(m)) = MonthStart(y, m)
<1>1. CASE m = 1
  <2>1. 12 \in Months /\ y - 1 + 1 = y
    BY YearsAssumption DEF Months, Years
  <2>2. MonthStart(y - 1, 12) + MonthDays(y - 1, 12) = YearStart[y - 1 + 1]
    BY <2>1, MonthTable
  <2>3. MonthStart(y, 1) = YearStart[y]
    BY <1>1, MonthTable
  <2> QED BY <1>1, <2>1, <2>2, <2>3 DEF YearOfPrev, MonthOfPrev
<1>2. CASE m # 1
  <2>1. m - 1 \in Months /\ m - 1 < 12 /\ m - 1 + 1 = m
    BY <1>2 DEF Months
  <2>2. MonthStart(y, m - 1 + 1) = MonthStart(y, m - 1) + MonthDays(y, m - 1)
    BY <2>1, MonthTable
  <2> QED BY <1>2, <2>1, <2>2 DEF YearOfPrev, MonthOfPrev
<1> QED BY <1>1, <1>2

\* The day of the same number in the month before, or beyond its end.
LEMMA MonthEarlier ==
    ASSUME NEW n \in Span
    PROVE  AddDate(n, 0, -1, 0) =
             MonthStart(YearOfPrev(Date[n].year, Date[n].month), MonthOfPrev(Date[n].month))
               + Date[n].day - 1
<1>1. Date[n].year \in Nat /\ Date[n].month \in 1 .. 12 /\ Date[n].day \in Nat
  BY SpanDays, YearsAssumption DEF Months, Years
<1> DEFINE y == Date[n].year
           m == Date[n].month
           d == Date[n].day
<1>2. AddDate(n, 0, -1, 0) =
        MonthStart(y + 0 + ((m - 1 + (-1)) \div 12), ((m - 1 + (-1)) % 12) + 1) + (d + 0) - 1
  BY DEF AddDate, DayNumber
<1>3. y \in Nat /\ m \in 1 .. 12 /\ d \in Nat
  BY <1>1
<1> HIDE DEF y, m, d
<1>4. y + 0 + ((m - 1 + (-1)) \div 12) = YearOfPrev(y, m)
  BY <1>3 DEF YearOfPrev
<1>5. ((m - 1 + (-1)) % 12) + 1 = MonthOfPrev(m)
  BY <1>3 DEF MonthOfPrev
<1>6. d + 0 = d
  BY <1>3
<1> QED BY <1>2, <1>4, <1>5, <1>6 DEF y, m, d

\* The day of the same date in the year before, or the day that follows.
LEMMA YearEarlier ==
    ASSUME NEW n \in Span
    PROVE  AddDate(n, -1, 0, 0) =
             MonthStart(Date[n].year - 1, Date[n].month) + Date[n].day - 1
<1>1. Date[n].year \in Nat /\ Date[n].month \in 1 .. 12 /\ Date[n].day \in Nat
  BY SpanDays, YearsAssumption DEF Months, Years
<1> DEFINE y == Date[n].year
           m == Date[n].month
           d == Date[n].day
<1>2. AddDate(n, -1, 0, 0) =
        MonthStart(y + (-1) + ((m - 1 + 0) \div 12), ((m - 1 + 0) % 12) + 1) + (d + 0) - 1
  BY DEF AddDate, DayNumber
<1>3. y \in Nat /\ m \in 1 .. 12 /\ d \in Nat
  BY <1>1
<1> HIDE DEF y, m, d
<1>4. y + (-1) + ((m - 1 + 0) \div 12) = y - 1 /\ ((m - 1 + 0) % 12) + 1 = m /\ d + 0 = d
  BY <1>3
<1> QED BY <1>2, <1>4 DEF y, m, d

\* A month began 365 or 366 days earlier in the year before.
LEMMA YearApart ==
    ASSUME NEW y \in Years, y - 1 \in Years, NEW m \in Months
    PROVE  MonthStart(y, m) - MonthStart(y - 1, m) \in {365, 366}
<1>1. YearStart[y] = YearStart[y - 1] + IF Leap(y - 1) THEN 366 ELSE 365
  BY YearsAssumption, YearStartDef DEF Years, YearDays
<1>2. YearStart[y] \in Nat /\ YearStart[y - 1] \in Nat
  BY YearsAssumption, YearsGrow DEF Years
<1>3. DaysBefore[m] \in Nat
  BY DEF Months, DaysBefore
<1>4. Leap(y) => ~Leap(y - 1)
  BY YearsAssumption DEF Years, Leap
<1> QED BY <1>1, <1>2, <1>3, <1>4 DEF MonthStart

\* How far a month and a year take a day back.
LEMMA Distances ==
    ASSUME NEW n \in Span
    PROVE  /\ AddDate(n, 0, -1, 0) \in n - 31 .. n - 28
           /\ AddDate(n, -1, 0, 0) \in n - 366 .. n - 365
<1> DEFINE y == Date[n].year
           m == Date[n].month
           d == Date[n].day
           py == YearOfPrev(y, m)
           pm == MonthOfPrev(m)
<1>1. /\ n \in Nat /\ y \in Years /\ y - 1 \in Years /\ m \in Months /\ d \in Nat
      /\ n = MonthStart(y, m) + d - 1
  BY SpanDays
<1>2. /\ AddDate(n, 0, -1, 0) = MonthStart(py, pm) + d - 1
      /\ AddDate(n, -1, 0, 0) = MonthStart(y - 1, m) + d - 1
  BY MonthEarlier, YearEarlier
<1> HIDE DEF y, m, d
<1>3. py \in Years /\ pm \in Months /\ MonthStart(py, pm) + MonthDays(py, pm) = MonthStart(y, m)
  BY <1>1, PrevMonth
<1> HIDE DEF py, pm
<1>4. /\ MonthDays(py, pm) \in 28 .. 31 /\ MonthStart(py, pm) \in Nat
      /\ MonthStart(y, m) \in Nat /\ MonthStart(y - 1, m) \in Nat
  BY <1>1, <1>3, MonthTable
<1>5. MonthStart(y, m) - MonthStart(y - 1, m) \in {365, 366}
  BY <1>1, YearApart
<1> QED BY <1>1, <1>2, <1>3, <1>4, <1>5

\* Two days in order are in months in order.
LEMMA MonthsInOrder ==
    ASSUME NEW a \in Span, NEW b \in Span, a < b
    PROVE  \/ Date[a].year < Date[b].year
           \/ Date[a].year = Date[b].year /\ Date[a].month < Date[b].month
           \/ /\ Date[a].year = Date[b].year /\ Date[a].month = Date[b].month
              /\ Date[a].day < Date[b].day
<1> DEFINE y == Date[a].year
           m == Date[a].month
           d == Date[a].day
           z == Date[b].year
           k == Date[b].month
           e == Date[b].day
<1>1. /\ a \in Nat /\ y \in Years /\ m \in Months /\ d \in Nat \ {0}
      /\ a = MonthStart(y, m) + d - 1
  BY SpanDays
<1>2. /\ b \in Nat /\ z \in Years /\ k \in Months /\ e \in Nat \ {0}
      /\ b = MonthStart(z, k) + e - 1 /\ e <= MonthDays(z, k)
  BY SpanDays
<1> HIDE DEF y, m, d, z, k, e
<1>3. MonthStart(y, m) \in Nat /\ MonthStart(z, k) \in Nat /\ MonthDays(z, k) \in 28 .. 31
  BY <1>1, <1>2, MonthTable
<1>4. y \in Nat /\ z \in Nat /\ m \in Nat /\ k \in Nat
  BY <1>1, <1>2, YearsAssumption DEF Years, Months
<1>5. ~ (z < y \/ (z = y /\ k < m))
  <2> SUFFICES ASSUME z < y \/ (z = y /\ k < m) PROVE FALSE
    OBVIOUS
  <2>1. MonthStart(z, k) + MonthDays(z, k) <= MonthStart(y, m)
    BY <1>1, <1>2, MonthsApart
  <2> QED BY <1>1, <1>2, <1>3, <2>1
<1>6. y = z /\ m = k => d < e
  BY <1>1, <1>2, <1>3
<1>7. y < z \/ (y = z /\ m < k) \/ (y = z /\ m = k)
  BY <1>4, <1>5
<1> QED BY <1>6, <1>7 DEF y, m, d, z, k, e

\* From the first 28 days of a month on, going back a month, or a year, keeps
\* days in order.
LEMMA EarlierInOrder ==
    ASSUME NEW a \in Span, NEW b \in Span, a < b, Date[a].day <= 28
    PROVE  /\ AddDate(a, 0, -1, 0) < AddDate(b, 0, -1, 0)
           /\ AddDate(a, -1, 0, 0) < AddDate(b, -1, 0, 0)
<1> DEFINE y == Date[a].year
           m == Date[a].month
           d == Date[a].day
           py == YearOfPrev(y, m)
           pm == MonthOfPrev(m)
           z == Date[b].year
           k == Date[b].month
           e == Date[b].day
           pz == YearOfPrev(z, k)
           pk == MonthOfPrev(k)
<1>1. y \in Years /\ y - 1 \in Years /\ m \in Months /\ d \in Nat \ {0} /\ d <= 28
  BY SpanDays
<1>2. z \in Years /\ z - 1 \in Years /\ k \in Months /\ e \in Nat \ {0}
  BY SpanDays
<1>3. /\ AddDate(a, 0, -1, 0) = MonthStart(py, pm) + d - 1
      /\ AddDate(a, -1, 0, 0) = MonthStart(y - 1, m) + d - 1
      /\ AddDate(b, 0, -1, 0) = MonthStart(pz, pk) + e - 1
      /\ AddDate(b, -1, 0, 0) = MonthStart(z - 1, k) + e - 1
  BY MonthEarlier, YearEarlier
<1>4. y < z \/ (y = z /\ m < k) \/ (y = z /\ m = k /\ d < e)
  BY MonthsInOrder
<1> HIDE DEF y, m, d, z, k, e
<1>5. py \in Years /\ pm \in Months /\ MonthStart(py, pm) + MonthDays(py, pm) = MonthStart(y, m)
  BY <1>1, PrevMonth
<1>6. pz \in Years /\ pk \in Months /\ MonthStart(pz, pk) + MonthDays(pz, pk) = MonthStart(z, k)
  BY <1>2, PrevMonth
<1>7. y \in Nat /\ z \in Nat /\ m \in 1 .. 12 /\ k \in 1 .. 12
  BY <1>1, <1>2, YearsAssumption DEF Years, Months
<1>8. /\ MonthDays(py, pm) \in 28 .. 31 /\ MonthStart(py, pm) \in Nat
      /\ MonthStart(y, m) \in Nat /\ MonthStart(y - 1, m) \in Nat /\ MonthDays(y, m) \in 28 .. 31
      /\ MonthDays(y - 1, m) \in 28 .. 31
      /\ MonthDays(pz, pk) \in 28 .. 31 /\ MonthStart(pz, pk) \in Nat
      /\ MonthStart(z, k) \in Nat /\ MonthStart(z - 1, k) \in Nat
  BY <1>1, <1>2, <1>5, <1>6, MonthTable
<1>9. CASE y = z /\ m = k /\ d < e
  BY <1>1, <1>2, <1>3, <1>8, <1>9
<1>10. CASE y < z \/ (y = z /\ m < k)
  <2>1. MonthStart(y, m) <= MonthStart(pz, pk)
    <3>1. (y = pz /\ m = pk) \/ y < pz \/ (y = pz /\ m < pk)
      BY <1>7, <1>10 DEF YearOfPrev, MonthOfPrev
    <3>2. CASE y = pz /\ m = pk
      BY <1>8, <3>2
    <3>3. CASE y < pz \/ (y = pz /\ m < pk)
      <4> HIDE DEF pz, pk
      <4>1. MonthStart(y, m) + MonthDays(y, m) <= MonthStart(pz, pk)
        BY <1>1, <1>6, <3>3, MonthsApart
      <4> QED BY <1>8, <4>1
    <3> QED BY <3>1, <3>2, <3>3
  <2>2. MonthStart(y - 1, m) + MonthDays(y - 1, m) <= MonthStart(z - 1, k)
    <3>1. y - 1 < z - 1 \/ (y - 1 = z - 1 /\ m < k)
      BY <1>7, <1>10
    <3> QED BY <1>1, <1>2, <3>1, MonthsApart
  <2> HIDE DEF pz, pk, py, pm
  <2> QED BY <1>1, <1>2, <1>3, <1>5, <1>8, <2>1, <2>2
<1> QED BY <1>4, <1>9, <1>10

\* What ComputeIntervals compares a period with ends by its beginning, and is
\* not empty when the period begins by the 28th.
LEMMA ComparisonOf ==
    ASSUME NEW first \in Span, NEW until \in Span, first < until, NEW cmp,
           Comparison(cmp, first, until) # <<>>
    PROVE  /\ Comparison(cmp, first, until)[2] <= first
           /\ Date[first].day <= 28 => Length(Comparison(cmp, first, until)) > 0
<1>1. first \in Nat /\ until \in Nat
  BY SpanDays
<1>2. cmp \in {"prev_day", "prev_week", "prev_month", "prev_year"}
  BY DEF Comparison
<1>3. CASE cmp = "prev_day"
  BY <1>1, <1>3 DEF Comparison, Before, Length
<1>4. CASE cmp = "prev_week"
  <2>1. AddDate(first, 0, 0, -7) = first + (-7) /\ AddDate(until, 0, 0, -7) = until + (-7)
    BY AddDays
  <2>2. Comparison(cmp, first, until) = Shifted(0, 0, -7, 7, first, until)
    BY <1>4 DEF Comparison
  <2> QED BY <1>1, <2>1, <2>2 DEF Shifted, Before, Length
<1>5. CASE cmp = "prev_month"
  <2>1. Comparison(cmp, first, until) = Shifted(0, -1, 0, 28, first, until)
    BY <1>5 DEF Comparison
  <2>2. /\ AddDate(first, 0, -1, 0) \in first - 31 .. first - 28
        /\ AddDate(until, 0, -1, 0) \in until - 31 .. until - 28
    BY Distances
  <2>3. Date[first].day <= 28 => AddDate(first, 0, -1, 0) < AddDate(until, 0, -1, 0)
    BY EarlierInOrder
  <2> QED BY <1>1, <2>1, <2>2, <2>3 DEF Shifted, Before, Length
<1>6. CASE cmp = "prev_year"
  <2>1. Comparison(cmp, first, until) = Shifted(-1, 0, 0, 365, first, until)
    BY <1>6 DEF Comparison
  <2>2. /\ AddDate(first, -1, 0, 0) \in first - 366 .. first - 365
        /\ AddDate(until, -1, 0, 0) \in until - 366 .. until - 365
    BY Distances
  <2>3. Date[first].day <= 28 => AddDate(first, -1, 0, 0) < AddDate(until, -1, 0, 0)
    BY EarlierInOrder
  <2> QED BY <1>1, <2>1, <2>2, <2>3 DEF Shifted, Before, Length
<1> QED BY <1>2, <1>3, <1>4, <1>5, <1>6

-----------------------------------------------------------------------------
(* The periods of a report.                                                 *)

\* The dates of a call stay what they were; intervals there are only those of
\* two dates that parse.
PeriodInv ==
    /\ start = Missing \/ (start \in Days \cup {Unparsable} /\ end \in Days \cup {Unparsable})
    /\ Computed =>
         /\ start \in Days /\ end \in Days
         /\ result.main = MainInterval(start, end)
         /\ result.comparison = Comparison(compare, result.main[1], result.main[2])

LEMMA PeriodInvariant == PrSpec => []PeriodInv
<1>1. PrInit => PeriodInv
  <2> SUFFICES ASSUME PrInit PROVE PeriodInv
    OBVIOUS
  <2>1. PICK w \in Worlds : req = w.payload
    BY DEF PrInit, Init
  <2>2. PICK p \in Periods(w.payload) : start = p.start /\ end = p.end
    BY <2>1 DEF PrInit
  <2>3. ~Computed
    BY DEF PrInit, Uncomputed, Computed
  <2> QED BY <2>2, <2>3, PeriodsAssumption DEF PeriodInv
<1>2. PeriodInv /\ [PrNext]_prVars => PeriodInv'
  <2> SUFFICES ASSUME PeriodInv, [PrNext]_prVars PROVE PeriodInv'
    OBVIOUS
  <2>1. CASE UNCHANGED ivVars
    BY <2>1 DEF PeriodInv, Computed, ivVars
  <2>2. CASE Intervalled
    <3>0. UNCHANGED <<start, end, compare>>
      BY <2>2 DEF Intervalled
    <3>1. CASE start = Missing
      <4>1. result'.main = <<>>
        BY <2>2, <3>1 DEF Intervalled, Uncomputed
      <4> QED BY <3>0, <4>1 DEF PeriodInv, Computed
    <3>2. CASE start # Missing
      <4>1. result'.main = ComputeIntervals(start, end, compare).main
            /\ result'.comparison = ComputeIntervals(start, end, compare).comparison
        BY <2>2, <3>2 DEF Intervalled
      <4>2. CASE start = Unparsable \/ end = Unparsable
        <5>1. result'.main = <<>>
          BY <4>1, <4>2 DEF ComputeIntervals, Failed
        <5> QED BY <3>0, <5>1 DEF PeriodInv, Computed
      <4>3. CASE ~(start = Unparsable \/ end = Unparsable)
        <5>1. /\ result'.main = MainInterval(start, end)
              /\ result'.comparison = Comparison(compare, result'.main[1], result'.main[2])
          BY <4>1, <4>3 DEF ComputeIntervals
        <5>2. start \in Days /\ end \in Days
          BY <3>2, <4>3 DEF PeriodInv
        <5> HIDE DEF Days
        <5> QED BY <3>0, <5>1, <5>2 DEF PeriodInv, Computed, MainInterval, AddDate, Comparison,
               Before, Shifted
      <4> QED BY <4>2, <4>3
    <3> QED BY <3>1, <3>2
  <2> QED BY <2>1, <2>2 DEF PrNext, Checked, Edited, Built, prVars
<1> QED BY <1>1, <1>2, PTL DEF PrSpec

\* The two ends of a report's period.
LEMMA Bounds ==
    ASSUME PeriodInv, Computed
    PROVE  /\ start \in Span /\ end \in Span /\ end + 1 \in Span
           /\ start \in Nat /\ end \in Nat
           /\ result.main = <<start, end + 1>>
           /\ result.comparison = Comparison(compare, start, end + 1)
<1> USE YearsAssumption
<1>1. YearStart[FirstYear + 1] \in Nat /\ YearStart[LastYear + 1] \in Nat
  BY YearsGrow
<1>2. start \in Days /\ end \in Days
  BY DEF PeriodInv
<1>3. start \in Span /\ end \in Span /\ end + 1 \in Span /\ start \in Nat /\ end \in Nat
  BY <1>1, <1>2 DEF Days, Span
<1>4. result.main = <<start, end + 1>>
  BY <1>3, AddDays DEF PeriodInv, MainInterval
<1> QED BY <1>3, <1>4 DEF PeriodInv

\* Druid is asked for exactly the days picked, whatever the calendar.
THEOREM MainCovers == PrSpec => []MainCoversPickedDays
<1>1. PeriodInv => MainCoversPickedDays
  BY Bounds DEF MainCoversPickedDays
<1> QED BY <1>1, PeriodInvariant, PTL

\* The period compared with is over when the report's begins.
THEOREM ComparisonIsEarlier == PrSpec => []ComparisonPrecedes
<1>1. PeriodInv => ComparisonPrecedes
  <2> SUFFICES ASSUME PeriodInv, Compared, Ordered
               PROVE  result.comparison[2] <= result.main[1]
    BY DEF ComparisonPrecedes
  <2>1. start < end + 1
    BY Bounds DEF Compared, Ordered
  <2> QED BY <2>1, Bounds, ComparisonOf DEF Compared
<1> QED BY <1>1, PeriodInvariant, PTL

\* A period that begins by the 28th is compared with one that has days.
THEOREM ComparisonHasDays == PrSpec => []ComparisonIsInterval
<1>1. PeriodInv => ComparisonIsInterval
  <2> SUFFICES ASSUME PeriodInv, Compared, Ordered, Date[start].day <= 28
               PROVE  Length(result.comparison) > 0
    BY DEF ComparisonIsInterval
  <2>1. start < end + 1
    BY Bounds DEF Compared, Ordered
  <2> QED BY <2>1, Bounds, ComparisonOf DEF Compared
<1> QED BY <1>1, PeriodInvariant, PTL

-----------------------------------------------------------------------------
(* The loops of BuildAggsAndPostAggs.                                       *)

\* The turns of the loop over the metrics.
LEMMA MetricLoop ==
    ASSUME NEW p, Len(p.metrics) \in Nat
    PROVE  \E turn :
             /\ BuildAggsAndPostAggs(p) = turn[Len(p.metrics)]
             /\ turn[0] = NoAggs
             /\ \A k \in 1 .. Len(p.metrics) : turn[k] = AddMetric(p, turn[k - 1], p.metrics[k])
<1> DEFINE size == Len(p.metrics)
           Good(n, g) == g = [k \in 0 .. n |->
                IF k = 0 THEN NoAggs ELSE AddMetric(p, g[k - 1], p.metrics[k])]
           Done == {n \in Nat : \E g : Good(n, g)}
<1>1. 0 \in Done
  <2>1. Good(0, [k \in 0 .. 0 |-> NoAggs])
    OBVIOUS
  <2> QED BY <2>1
<1>2. ASSUME NEW n \in Nat, n \in Done PROVE n + 1 \in Done
  <2>1. PICK g : Good(n, g)
    BY <1>2
  <2> DEFINE h == [k \in 0 .. n + 1 |->
               IF k = n + 1 THEN AddMetric(p, g[k - 1], p.metrics[k]) ELSE g[k]]
  <2>2. \A k \in 0 .. n + 1 :
           h[k] = IF k = 0 THEN NoAggs ELSE AddMetric(p, h[k - 1], p.metrics[k])
    BY <2>1
  <2>3. Good(n + 1, h)
    BY <2>2
  <2>4. \E f : Good(n + 1, f)
    BY <2>3
  <2> QED BY <2>4
<1>3. PICK g : Good(size, g)
  <2>1. size \in Done
    <3> HIDE DEF Done
    <3> QED BY <1>1, <1>2, EveryNat
  <2> QED BY <2>1
<1> DEFINE turn == CHOOSE f : f = [k \in 0 .. size |->
                IF k = 0 THEN NoAggs ELSE AddMetric(p, f[k - 1], p.metrics[k])]
<1>4. turn = [k \in 0 .. size |->
                IF k = 0 THEN NoAggs ELSE AddMetric(p, turn[k - 1], p.metrics[k])]
  BY <1>3, Zenon
<1>5. BuildAggsAndPostAggs(p) = turn[size]
  BY Zenon DEF BuildAggsAndPostAggs
<1> HIDE DEF turn
<1>6. /\ turn[0] = NoAggs
      /\ \A k \in 1 .. size : turn[k] = AddMetric(p, turn[k - 1], p.metrics[k])
  BY <1>4
<1> QED BY <1>5, <1>6

\* The turns of the loop over the fields of a formula.
LEMMA LeafLoop ==
    ASSUME NEW p, NEW aggs, NEW leaves, Len(leaves) \in Nat
    PROVE  \E turn :
             /\ AddLeaves(p, aggs, leaves) = turn[Len(leaves)]
             /\ turn[0] = aggs
             /\ \A k \in 1 .. Len(leaves) :
                  turn[k] = AddAgg(turn[k - 1], SumName(leaves[k]), Mets(p)[leaves[k]].druid)
<1> DEFINE size == Len(leaves)
           Step(k, acc) == AddAgg(acc, SumName(leaves[k]), Mets(p)[leaves[k]].druid)
           Good(n, g) == g = [k \in 0 .. n |-> IF k = 0 THEN aggs ELSE Step(k, g[k - 1])]
           Done == {n \in Nat : \E g : Good(n, g)}
<1>1. 0 \in Done
  <2>1. Good(0, [k \in 0 .. 0 |-> aggs])
    OBVIOUS
  <2> QED BY <2>1
<1>2. ASSUME NEW n \in Nat, n \in Done PROVE n + 1 \in Done
  <2> HIDE DEF Step
  <2>1. PICK g : Good(n, g)
    BY <1>2
  <2> DEFINE h == [k \in 0 .. n + 1 |-> IF k = n + 1 THEN Step(k, g[k - 1]) ELSE g[k]]
  <2>2. \A k \in 0 .. n + 1 : h[k] = IF k = 0 THEN aggs ELSE Step(k, h[k - 1])
    BY <2>1
  <2>3. Good(n + 1, h)
    BY <2>2
  <2>4. \E f : Good(n + 1, f)
    BY <2>3
  <2> QED BY <2>4
<1>3. PICK g : Good(size, g)
  <2>1. size \in Done
    <3> HIDE DEF Done
    <3> QED BY <1>1, <1>2, EveryNat
  <2> QED BY <2>1
<1> DEFINE turn == CHOOSE f : f = [k \in 0 .. size |-> IF k = 0 THEN aggs ELSE Step(k, f[k - 1])]
<1>4. turn = [k \in 0 .. size |-> IF k = 0 THEN aggs ELSE Step(k, turn[k - 1])]
  BY <1>3, Zenon
<1>5. AddLeaves(p, aggs, leaves) = turn[size]
  BY Zenon DEF AddLeaves
<1> HIDE DEF turn
<1>6. turn[0] = aggs /\ \A k \in 1 .. size : turn[k] = Step(k, turn[k - 1])
  <2> HIDE DEF Step
  <2> QED BY <1>4
<1> QED BY <1>5, <1>6

\* The aggregations a query may have: those of the metrics asked for, and the
\* sums of fields.
AggsOf(p) ==
    {[name |-> m, column |-> Mets(p)[m].druid] : m \in ToSet(p.metrics)}
      \cup {[name |-> SumName(f), column |-> Mets(p)[f].druid] : f \in DOMAIN Mets(p)}

\* No name is there twice.
Distinct(aggs) ==
    \A i, j \in 1 .. Len(aggs) : aggs[i].name = aggs[j].name => i = j

Aggregates(aggs, name) == \E k \in 1 .. Len(aggs) : aggs[k].name = name

\* Adding an aggregation keeps the others and adds the name once.
LEMMA AddOne ==
    ASSUME NEW S, NEW aggs \in Seq(S), Distinct(aggs),
           NEW name, NEW column, [name |-> name, column |-> column] \in S
    PROVE  /\ AddAgg(aggs, name, column) \in Seq(S)
           /\ Distinct(AddAgg(aggs, name, column))
           /\ Aggregates(AddAgg(aggs, name, column), name)
           /\ \A other : Aggregates(aggs, other) => Aggregates(AddAgg(aggs, name, column), other)
<1>1. CASE Aggregates(aggs, name)
  BY <1>1 DEF AddAgg, Aggregates
<1>2. CASE ~Aggregates(aggs, name)
  <2> DEFINE more == Append(aggs, [name |-> name, column |-> column])
  <2>1. AddAgg(aggs, name, column) = more
    BY <1>2 DEF AddAgg, Aggregates
  <2>2. /\ more \in Seq(S) /\ Len(more) = Len(aggs) + 1 /\ Len(aggs) \in Nat
        /\ \A k \in 1 .. Len(aggs) : more[k] = aggs[k]
        /\ more[Len(aggs) + 1].name = name
    OBVIOUS
  <2> HIDE DEF more
  <2>3. Distinct(more)
    BY <1>2, <2>2 DEF Distinct, Aggregates
  <2>4. Aggregates(more, name)
    BY <2>2 DEF Aggregates
  <2>5. \A other : Aggregates(aggs, other) => Aggregates(more, other)
    BY <2>2 DEF Aggregates
  <2> QED BY <2>1, <2>2, <2>3, <2>4, <2>5
<1> QED BY <1>1, <1>2

\* Adding the fields of a formula does so for each of them.
LEMMA AddFields ==
    ASSUME NEW p, NEW aggs \in Seq(AggsOf(p)), Distinct(aggs),
           NEW leaves \in Seq(Words), \A f \in ToSet(leaves) : f \in DOMAIN Mets(p)
    PROVE  /\ AddLeaves(p, aggs, leaves) \in Seq(AggsOf(p))
           /\ Distinct(AddLeaves(p, aggs, leaves))
           /\ \A f \in ToSet(leaves) : Aggregates(AddLeaves(p, aggs, leaves), SumName(f))
           /\ \A other : Aggregates(aggs, other) => Aggregates(AddLeaves(p, aggs, leaves), other)
<1>1. Len(leaves) \in Nat
  OBVIOUS
<1>2. PICK turn :
        /\ AddLeaves(p, aggs, leaves) = turn[Len(leaves)]
        /\ turn[0] = aggs
        /\ \A k \in 1 .. Len(leaves) :
             turn[k] = AddAgg(turn[k - 1], SumName(leaves[k]), Mets(p)[leaves[k]].druid)
  BY <1>1, LeafLoop
<1> DEFINE Good(n) == /\ turn[n] \in Seq(AggsOf(p))
                      /\ Distinct(turn[n])
                      /\ \A k \in 1 .. n : Aggregates(turn[n], SumName(leaves[k]))
                      /\ \A other : Aggregates(aggs, other) => Aggregates(turn[n], other)
           Done == {n \in Nat : n <= Len(leaves) => Good(n)}
<1>3. 0 \in Done
  BY <1>2
<1>4. ASSUME NEW n \in Nat, n \in Done PROVE n + 1 \in Done
  <2> SUFFICES ASSUME n + 1 <= Len(leaves) PROVE Good(n + 1)
    OBVIOUS
  <2>1. Good(n)
    BY <1>1, <1>4
  <2>2. n + 1 \in 1 .. Len(leaves) /\ n + 1 - 1 = n
    BY <1>1
  <2>3. turn[n + 1] = AddAgg(turn[n], SumName(leaves[n + 1]), Mets(p)[leaves[n + 1]].druid)
    BY <1>2, <2>2
  <2>4. leaves[n + 1] \in DOMAIN Mets(p)
    BY <2>2 DEF ToSet
  <2>5. [name |-> SumName(leaves[n + 1]), column |-> Mets(p)[leaves[n + 1]].druid] \in AggsOf(p)
    BY <2>4 DEF AggsOf
  <2>6. /\ turn[n + 1] \in Seq(AggsOf(p))
        /\ Distinct(turn[n + 1])
        /\ Aggregates(turn[n + 1], SumName(leaves[n + 1]))
        /\ \A other : Aggregates(turn[n], other) => Aggregates(turn[n + 1], other)
    BY <2>1, <2>3, <2>5, AddOne
  <2>7. \A k \in 1 .. n + 1 : k \in 1 .. n \/ k = n + 1
    OBVIOUS
  <2> QED BY <2>1, <2>6, <2>7
<1>5. Good(Len(leaves))
  <2>1. Len(leaves) \in Done
    <3> HIDE DEF Done
    <3> QED BY <1>1, <1>3, <1>4, EveryNat
  <2> QED BY <1>1, <2>1
<1> QED BY <1>2, <1>5 DEF ToSet

-----------------------------------------------------------------------------
(* What the loop over the metrics has made.                                 *)

\* The parts of a compiled formula.
LEMMA CompileFacts ==
    ASSUME NEW ts \in Seq(Words), Len(ts) <= MaxTokens, CompileFormula(ts).ok
    PROVE  LET node == ParseFormula(ts).node
               c == CompileFormula(ts)
           IN /\ ParseFormula(ts).ok
              /\ node \in Nodes
              /\ c.leaves = CollectLeafFields(node) /\ c.leaves \in Seq(Words)
              /\ ~c.panics => c.postAgg = <<NodeToDruidPostAgg(node)>>
<1> DEFINE p == ParseFormula(ts)
<1>1. CompileFormula(ts) =
        IF ~p.ok THEN [ok |-> FALSE]
        ELSE [ok |-> TRUE, leaves |-> CollectLeafFields(p.node), panics |-> Panics(p.node),
              postAgg |-> IF Panics(p.node) THEN <<>> ELSE <<NodeToDruidPostAgg(p.node)>>]
  BY DEF CompileFormula, Compiled
<1>2. p.ok
  <2> HIDE DEF p
  <2> QED BY <1>1
<1>3. p.node \in Nodes
  BY <1>2, FormulaSound
<1> HIDE DEF p
<1>4. CollectLeafFields(p.node) \in Seq(Words)
  BY <1>3, CollectDef
<1> QED BY <1>1, <1>2, <1>3, <1>4 DEF p

\* The metrics among those asked for whose formula can be computed.
Computable(p) ==
    {m \in ToSet(p.metrics) :
        /\ Mets(p)[m].formula # NoField
        /\ CompileFormula(Mets(p)[m].formula).ok
        /\ \A f \in ToSet(CompileFormula(Mets(p)[m].formula).leaves) : HasColumn(p, f)
        /\ ~CompileFormula(Mets(p)[m].formula).panics}

PostsOf(p) ==
    {[metric |-> m, postAgg |-> CompileFormula(Mets(p)[m].formula).postAgg] : m \in Computable(p)}

\* A formula of the call names what is not a column.
BadFormula(p) ==
    \E m \in ToSet(p.metrics) :
        /\ Mets(p)[m].formula # NoField
        /\ \/ ~CompileFormula(Mets(p)[m].formula).ok
           \/ \E f \in ToSet(CompileFormula(Mets(p)[m].formula).leaves) : ~HasColumn(p, f)

\* The fields of every formula so far are aggregated.
PostsResolved(p, posts, aggs) ==
    \A k \in 1 .. Len(posts) :
        \A f \in ToSet(CompileFormula(Mets(p)[posts[k].metric].formula).leaves) :
            Aggregates(aggs, SumName(f))

LoopInv(p, acc) ==
    /\ acc \in [outcome : {"built", "failed", "panicked"},
                aggs : Seq(AggsOf(p)), posts : Seq(PostsOf(p))]
    /\ acc.outcome = "failed" => BadFormula(p)
    /\ Distinct(acc.aggs)
    /\ PostsResolved(p, acc.posts, acc.aggs)

\* The formulas of a call's schema have sequences of fields.
FieldSeqs(p) ==
    \A m \in Computable(p) : CompileFormula(Mets(p)[m].formula).leaves \in Seq(Words)

LEMMA OneMetric ==
    ASSUME NEW p, FieldSeqs(p), NEW acc, LoopInv(p, acc), NEW m \in ToSet(p.metrics)
    PROVE  LoopInv(p, AddMetric(p, acc, m))
<1> DEFINE formula == Mets(p)[m].formula
           c == CompileFormula(formula)
           next == AddMetric(p, acc, m)
<1> SUFFICES LoopInv(p, next)
  OBVIOUS
<1>1. /\ acc = [outcome |-> acc.outcome, aggs |-> acc.aggs, posts |-> acc.posts]
      /\ acc.outcome \in {"built", "failed", "panicked"}
      /\ acc.aggs \in Seq(AggsOf(p)) /\ acc.posts \in Seq(PostsOf(p))
      /\ Distinct(acc.aggs) /\ PostsResolved(p, acc.posts, acc.aggs)
  BY DEF LoopInv
<1>2. CASE acc.outcome # "built" \/ (formula = NoField /\ Mets(p)[m].druid = NoField)
  <2>1. next = acc
    BY <1>2 DEF AddMetric
  <2> QED BY <2>1
<1>3. CASE acc.outcome = "built" /\ formula = NoField /\ Mets(p)[m].druid # NoField
  <2> DEFINE added == AddAgg(acc.aggs, m, Mets(p)[m].druid)
  <2>1. next = [acc EXCEPT !.aggs = added]
    BY <1>3 DEF AddMetric
  <2>2. [name |-> m, column |-> Mets(p)[m].druid] \in AggsOf(p)
    BY DEF AggsOf
  <2>3. /\ added \in Seq(AggsOf(p)) /\ Distinct(added)
        /\ \A other : Aggregates(acc.aggs, other) => Aggregates(added, other)
    BY <1>1, <2>2, AddOne
  <2> HIDE DEF added
  <2>4. /\ next.outcome = "built" /\ next.aggs = added /\ next.posts = acc.posts
        /\ next \in [outcome : {"built", "failed", "panicked"},
                     aggs : Seq(AggsOf(p)), posts : Seq(PostsOf(p))]
    BY <1>1, <1>3, <2>1, <2>3
  <2>5. PostsResolved(p, acc.posts, added)
    BY <1>1, <2>3 DEF PostsResolved
  <2> HIDE DEF next
  <2> QED BY <2>3, <2>4, <2>5 DEF LoopInv
<1>4. CASE /\ acc.outcome = "built" /\ formula # NoField
           /\ ~c.ok \/ \E f \in ToSet(c.leaves) : ~HasColumn(p, f)
  <2>1. next = [acc EXCEPT !.outcome = "failed"]
    BY <1>4 DEF AddMetric
  <2>2. BadFormula(p)
    BY <1>4 DEF BadFormula
  <2>3. /\ next.aggs = acc.aggs /\ next.posts = acc.posts
        /\ next \in [outcome : {"built", "failed", "panicked"},
                     aggs : Seq(AggsOf(p)), posts : Seq(PostsOf(p))]
    BY <1>1, <2>1
  <2> HIDE DEF next
  <2> QED BY <1>1, <2>2, <2>3 DEF LoopInv
<1>5. CASE /\ acc.outcome = "built" /\ formula # NoField
           /\ ~(~c.ok \/ \E f \in ToSet(c.leaves) : ~HasColumn(p, f))
  <2>1. CASE c.panics
    <3>1. next = [acc EXCEPT !.outcome = "panicked"]
      BY <1>5, <2>1 DEF AddMetric
    <3>2. /\ next.aggs = acc.aggs /\ next.posts = acc.posts /\ next.outcome = "panicked"
          /\ next \in [outcome : {"built", "failed", "panicked"},
                       aggs : Seq(AggsOf(p)), posts : Seq(PostsOf(p))]
      BY <1>1, <3>1
    <3> HIDE DEF next
    <3> QED BY <1>1, <3>2 DEF LoopInv
  <2>2. CASE ~c.panics
    <3> DEFINE added == AddLeaves(p, acc.aggs, c.leaves)
               post == [metric |-> m, postAgg |-> c.postAgg]
               posts == Append(acc.posts, post)
    <3>1. next = [acc EXCEPT !.aggs = added, !.posts = posts]
      BY <1>5, <2>2 DEF AddMetric
    <3>2. m \in Computable(p)
      BY <1>5, <2>2 DEF Computable
    <3>3. c.leaves \in Seq(Words) /\ \A f \in ToSet(c.leaves) : f \in DOMAIN Mets(p)
      BY <1>5, <3>2 DEF FieldSeqs, HasColumn
    <3>4. /\ added \in Seq(AggsOf(p)) /\ Distinct(added)
          /\ \A f \in ToSet(c.leaves) : Aggregates(added, SumName(f))
          /\ \A other : Aggregates(acc.aggs, other) => Aggregates(added, other)
      BY <1>1, <3>3, AddFields
    <3>5. post \in PostsOf(p)
      BY <3>2 DEF PostsOf
    <3>6. post.metric = m
      OBVIOUS
    <3> HIDE DEF added, post
    <3>7. /\ posts \in Seq(PostsOf(p)) /\ Len(posts) = Len(acc.posts) + 1 /\ Len(acc.posts) \in Nat
          /\ \A k \in 1 .. Len(acc.posts) : posts[k] = acc.posts[k]
          /\ posts[Len(acc.posts) + 1] = post
      BY <1>1, <3>5
    <3> HIDE DEF posts
    <3>8. PostsResolved(p, posts, added)
      <4> SUFFICES ASSUME NEW k \in 1 .. Len(posts),
                          NEW f \in ToSet(CompileFormula(Mets(p)[posts[k].metric].formula).leaves)
                   PROVE  Aggregates(added, SumName(f))
        BY DEF PostsResolved
      <4>1. CASE k = Len(acc.posts) + 1
        BY <3>4, <3>6, <3>7, <4>1
      <4>2. CASE k # Len(acc.posts) + 1
        <5>1. k \in 1 .. Len(acc.posts) /\ posts[k] = acc.posts[k]
          BY <3>7, <4>2
        <5>2. Aggregates(acc.aggs, SumName(f))
          BY <1>1, <5>1 DEF PostsResolved
        <5> QED BY <3>4, <5>2
      <4> QED BY <4>1, <4>2
    <3>9. /\ next.aggs = added /\ next.posts = posts /\ next.outcome = "built"
          /\ next \in [outcome : {"built", "failed", "panicked"},
                       aggs : Seq(AggsOf(p)), posts : Seq(PostsOf(p))]
      BY <1>1, <1>5, <3>1, <3>4, <3>7
    <3> HIDE DEF next
    <3> QED BY <3>4, <3>8, <3>9 DEF LoopInv
  <2> QED BY <2>1, <2>2
<1> QED BY <1>2, <1>3, <1>4, <1>5

\* Before the loop nothing is made.
LEMMA EmptyLoop ==
    ASSUME NEW p
    PROVE  LoopInv(p, NoAggs)
<1>1. Distinct(<<>>) /\ PostsResolved(p, <<>>, <<>>)
  BY DEF Distinct, PostsResolved
<1> QED BY <1>1 DEF LoopInv, NoAggs

\* The loop over all metrics.
LEMMA AllMetrics ==
    ASSUME NEW p, p.metrics \in Seq(STRING), FieldSeqs(p)
    PROVE  LoopInv(p, BuildAggsAndPostAggs(p))
<1>1. Len(p.metrics) \in Nat
  OBVIOUS
<1>2. PICK turn :
        /\ BuildAggsAndPostAggs(p) = turn[Len(p.metrics)]
        /\ turn[0] = NoAggs
        /\ \A k \in 1 .. Len(p.metrics) : turn[k] = AddMetric(p, turn[k - 1], p.metrics[k])
  BY <1>1, MetricLoop
<1> DEFINE Done == {n \in Nat : n <= Len(p.metrics) => LoopInv(p, turn[n])}
<1>3. 0 \in Done
  <2>1. LoopInv(p, NoAggs)
    BY EmptyLoop
  <2> QED BY <1>2, <2>1
<1>4. ASSUME NEW n \in Nat, n \in Done PROVE n + 1 \in Done
  <2> SUFFICES ASSUME n + 1 <= Len(p.metrics) PROVE LoopInv(p, turn[n + 1])
    OBVIOUS
  <2>1. LoopInv(p, turn[n])
    BY <1>1, <1>4
  <2>2. n + 1 \in 1 .. Len(p.metrics) /\ n + 1 - 1 = n
    BY <1>1
  <2>3. turn[n + 1] = AddMetric(p, turn[n], p.metrics[n + 1])
    BY <1>2, <2>2
  <2>4. p.metrics[n + 1] \in ToSet(p.metrics)
    BY <2>2 DEF ToSet
  <2> QED BY <2>1, <2>3, <2>4, OneMetric
<1>5. LoopInv(p, turn[Len(p.metrics)])
  <2>1. Len(p.metrics) \in Done
    <3> HIDE DEF Done
    <3> QED BY <1>1, <1>3, <1>4, EveryNat
  <2> QED BY <1>1, <2>1
<1> QED BY <1>2, <1>5

\* A turn that ends well can compute its metric, and follows one that ended well.
LEMMA OneComputed ==
    ASSUME NEW p, NEW acc, NEW m \in ToSet(p.metrics),
           AddMetric(p, acc, m).outcome = "built",
           acc.outcome \in {"built", "failed", "panicked"},
           acc = [outcome |-> acc.outcome, aggs |-> acc.aggs, posts |-> acc.posts]
    PROVE  acc.outcome = "built" /\ (Mets(p)[m].formula # NoField => m \in Computable(p))
<1> DEFINE formula == Mets(p)[m].formula
           c == CompileFormula(formula)
<1>1. CASE acc.outcome # "built"
  BY <1>1 DEF AddMetric
<1>2. CASE acc.outcome = "built" /\ formula = NoField
  BY <1>2
<1>3. CASE acc.outcome = "built" /\ formula # NoField
  <2>1. c.ok /\ \A f \in ToSet(c.leaves) : HasColumn(p, f)
    BY <1>3 DEF AddMetric
  <2>2. ~c.panics
    BY <1>3, <2>1 DEF AddMetric
  <2> QED BY <1>3, <2>1, <2>2 DEF Computable
<1> QED BY <1>1, <1>2, <1>3

\* A query is built when every formula asked for can be computed.
LEMMA AllComputed ==
    ASSUME NEW p, p.metrics \in Seq(STRING), FieldSeqs(p),
           BuildAggsAndPostAggs(p).outcome = "built"
    PROVE  \A m \in ToSet(p.metrics) : Mets(p)[m].formula # NoField => m \in Computable(p)
<1>1. Len(p.metrics) \in Nat
  OBVIOUS
<1>2. PICK turn :
        /\ BuildAggsAndPostAggs(p) = turn[Len(p.metrics)]
        /\ turn[0] = NoAggs
        /\ \A k \in 1 .. Len(p.metrics) : turn[k] = AddMetric(p, turn[k - 1], p.metrics[k])
  BY <1>1, MetricLoop
<1> DEFINE Told(n) == turn[n].outcome = "built" =>
                  \A k \in 1 .. n : Mets(p)[p.metrics[k]].formula # NoField
                                     => p.metrics[k] \in Computable(p)
           Done == {n \in Nat : n <= Len(p.metrics) => LoopInv(p, turn[n]) /\ Told(n)}
<1>3. 0 \in Done
  <2>1. LoopInv(p, NoAggs)
    BY EmptyLoop
  <2> QED BY <1>2, <2>1
<1>4. ASSUME NEW n \in Nat, n \in Done PROVE n + 1 \in Done
  <2> SUFFICES ASSUME n + 1 <= Len(p.metrics) PROVE LoopInv(p, turn[n + 1]) /\ Told(n + 1)
    OBVIOUS
  <2>1. LoopInv(p, turn[n]) /\ Told(n)
    BY <1>1, <1>4
  <2>2. n + 1 \in 1 .. Len(p.metrics) /\ n + 1 - 1 = n
    BY <1>1
  <2>3. turn[n + 1] = AddMetric(p, turn[n], p.metrics[n + 1])
    BY <1>2, <2>2
  <2>4. p.metrics[n + 1] \in ToSet(p.metrics)
    BY <2>2 DEF ToSet
  <2>5. LoopInv(p, turn[n + 1])
    BY <2>1, <2>3, <2>4, OneMetric
  <2>6. Told(n + 1)
    <3> SUFFICES ASSUME turn[n + 1].outcome = "built", NEW k \in 1 .. n + 1,
                        Mets(p)[p.metrics[k]].formula # NoField
                 PROVE  p.metrics[k] \in Computable(p)
      OBVIOUS
    <3>1. /\ turn[n].outcome = "built"
          /\ Mets(p)[p.metrics[n + 1]].formula # NoField => p.metrics[n + 1] \in Computable(p)
      <4>1. /\ turn[n].outcome \in {"built", "failed", "panicked"}
            /\ turn[n] = [outcome |-> turn[n].outcome, aggs |-> turn[n].aggs,
                          posts |-> turn[n].posts]
        BY <2>1 DEF LoopInv
      <4> QED BY <2>3, <2>4, <4>1, OneComputed
    <3>2. k \in 1 .. n \/ k = n + 1
      OBVIOUS
    <3> QED BY <2>1, <3>1, <3>2
  <2> QED BY <2>5, <2>6
<1>5. Told(Len(p.metrics))
  <2>1. Len(p.metrics) \in Done
    <3> HIDE DEF Done
    <3> QED BY <1>1, <1>3, <1>4, EveryNat
  <2> QED BY <1>1, <2>1
<1> QED BY <1>2, <1>5 DEF ToSet

-----------------------------------------------------------------------------
(* The query of a call.                                                     *)

\* The server booted with a schema that its world holds, and the call is one of
\* that world.
CallInv ==
    \E w \in Worlds : req = w.payload /\ \E f \in w.formulas : datasources = Schemas(f)

\* A query is built after CheckRights let the call through, and and-s the
\* filters of the call with access filters read in the same step.
RightsInv ==
    /\ verdict \in {"accepted", "built", "failed", "panicked"} => CheckRights(req)
    /\ verdict = "built" =>
         \E limits \in GetAccessFilters(req) : query.filter = Merge(req, limits)

\* Every formula asked for can be computed.
AllComputable(p) ==
    \A m \in ToSet(p.metrics) : Mets(p)[m].formula # NoField => m \in Computable(p)

\* A report fails for a formula, the loop over the metrics made what is in a
\* query, and it made it of all of them.
MadeInv ==
    /\ verdict = "failed" => BadFormula(req)
    /\ verdict = "built" => AllComputable(req)
    /\ query # NoQuery =>
         /\ CheckRights(req)
         /\ LoopInv(req, [outcome |-> "built", aggs |-> query.aggregations,
                          posts |-> query.postAggregations])

QueryInv == CallInv /\ RightsInv /\ MadeInv

\* What BuildDruidQuery puts into the filter of a query.
LEMMA BuiltFilter ==
    ASSUME NEW p, NEW limits, BuildDruidQuery(p, limits).outcome = "built"
    PROVE  BuildDruidQuery(p, limits).query.filter = Merge(p, limits)
<1>1. UnknownDims(p) = {} /\ BuildAggsAndPostAggs(p).outcome = "built"
    BY DEF BuildDruidQuery
<1> QED
    BY <1>1 DEF BuildDruidQuery

\* A filter list that holds the access filters selects rows within the rights.
LEMMA LimitsLimit ==
    ASSUME NEW limits \in GetAccessFilters(req), NEW filter, limits \subseteq filter,
           ~req.admin, access # Unreadable,
           NEW row \in Selected(req, filter), NEW d \in DOMAIN Dims(req),
           LimitedHere(req, d), access[req.user][req.datasource][d] # {}
    PROVE  Shown(req, d, row) \in access[req.user][req.datasource][d]
<1> DEFINE limit == access[req.user][req.datasource][d]
<1>1. SUFFICES Filter(d, limit) \in limits
    BY DEF Selected, Passes, Filter
<1>2. CASE backend = "file"
    BY <1>2 DEF GetAccessFilters, FromFile
<1>3. CASE backend # "file"
    <2>1. PICK last \in Order : limits = FromDB(req, last)
        BY <1>3 DEF GetAccessFilters
    <2>2. <<req.datasource, d>> \in Asked /\ req.datasource \in DOMAIN datasources
        BY <1>3 DEF LimitedHere
    <2>3. d \in AskedDims
        BY <2>2 DEF AskedDims
    <2>4. last[d] = req.datasource
        BY <1>3, <2>1, <2>3 DEF Order, LimitedHere
    <2> QED
        BY <2>1, <2>3, <2>4 DEF FromDB
<1> QED
    BY <1>2, <1>3

\* The access filters of a call depend on what the server booted with and on
\* the rights.
LEMMA RightsUnchanged ==
    ASSUME req' = req, access' = access, backend' = backend, datasources' = datasources
    PROVE  GetAccessFilters(req)' = GetAccessFilters(req)
<1>1. Asked' = Asked
    BY DEF Asked
<1>2. AskedDims' = AskedDims
    BY <1>1 DEF AskedDims
<1>3. Order' = Order
    BY <1>1, <1>2 DEF Order
<1>4. FromFile(req)' = FromFile(req)
    BY DEF FromFile, Dims, Schema
<1>5. {FromDB(req, last) : last \in Order}' = {FromDB(req, last) : last \in Order}
    BY <1>2, <1>3 DEF FromDB
<1> QED
    BY <1>4, <1>5 DEF GetAccessFilters

\* The assumptions on worlds, for the call of one.
LEMMA CallFacts ==
    ASSUME CallInv
    PROVE  /\ req = [user |-> req.user, admin |-> req.admin, datasource |-> req.datasource,
                     dims |-> req.dims, metrics |-> req.metrics,
                     filters |-> req.filters, filtersAreArray |-> req.filtersAreArray]
           /\ req.metrics \in Seq(STRING)
           /\ CheckRights(req) =>
                /\ FieldSeqs(req)
                /\ \A m \in DOMAIN Mets(req) :
                     /\ Mets(req)[m].formula # NoField =>
                            /\ Mets(req)[m].formula \in Seq(Words)
                            /\ Len(Mets(req)[m].formula) <= MaxTokens
                     /\ Mets(req)[m].druid # NoField => m \notin Punctuation
                     /\ \A n \in DOMAIN Mets(req) : SumName(m) = SumName(n) => m = n
<1>1. PICK w \in Worlds : req = w.payload /\ \E f \in w.formulas : datasources = Schemas(f)
    BY DEF CallInv
<1>2. PICK f \in w.formulas : datasources = Schemas(f)
    BY <1>1
<1>3. f \in UNION {v.formulas : v \in Worlds}
    OBVIOUS
<1>4. ASSUME CheckRights(req)
      PROVE  \A m \in DOMAIN Mets(req) :
                /\ Mets(req)[m].formula # NoField =>
                       /\ Mets(req)[m].formula \in Seq(Words)
                       /\ Len(Mets(req)[m].formula) <= MaxTokens
                /\ Mets(req)[m].druid # NoField => m \notin Punctuation
                /\ \A n \in DOMAIN Mets(req) : SumName(m) = SumName(n) => m = n
    <2>1. req.datasource \in DOMAIN Schemas(f) /\ Mets(req) = Schemas(f)[req.datasource].metrics
        BY <1>2, <1>4 DEF CheckRights, Mets, Schema
    <2> QED
        BY <1>3, <2>1, FormulasAssumption
<1>5. ASSUME CheckRights(req) PROVE \A m \in ToSet(req.metrics) : m \in DOMAIN Mets(req)
    BY <1>5 DEF CheckRights, Allowed
<1>6. ASSUME CheckRights(req) PROVE FieldSeqs(req)
    <2> SUFFICES ASSUME NEW m \in Computable(req)
                 PROVE  CompileFormula(Mets(req)[m].formula).leaves \in Seq(Words)
        BY DEF FieldSeqs
    <2> DEFINE formula == Mets(req)[m].formula
    <2>1. m \in DOMAIN Mets(req) /\ formula # NoField /\ CompileFormula(formula).ok
        BY <1>5, <1>6 DEF Computable
    <2>2. formula \in Seq(Words) /\ Len(formula) <= MaxTokens
        BY <1>4, <1>6, <2>1
    <2> HIDE DEF formula
    <2>3. CompileFormula(formula).leaves \in Seq(Words)
        BY <2>1, <2>2, CompileFacts
    <2> QED
        BY <2>3 DEF formula
<1> QED
    BY <1>1, <1>4, <1>6, CallAssumption

\* What BuildDruidQuery makes of a call that CheckRights let through.
LEMMA BuiltQuery ==
    ASSUME CallInv, CheckRights(req), NEW limits
    PROVE  LET done == BuildDruidQuery(req, limits)
           IN /\ done.outcome = "failed" => BadFormula(req)
              /\ done.outcome = "built" => AllComputable(req)
              /\ done.query # NoQuery =>
                   LoopInv(req, [outcome |-> "built", aggs |-> done.query.aggregations,
                                 posts |-> done.query.postAggregations])
<1> DEFINE made == BuildAggsAndPostAggs(req)
           done == BuildDruidQuery(req, limits)
<1> SUFFICES /\ done.outcome = "failed" => BadFormula(req)
             /\ done.outcome = "built" => AllComputable(req)
             /\ done.query # NoQuery =>
                  LoopInv(req, [outcome |-> "built", aggs |-> done.query.aggregations,
                                posts |-> done.query.postAggregations])
    OBVIOUS
<1>1. LoopInv(req, made)
    BY CallFacts, AllMetrics
<1>2. UnknownDims(req) = {}
    BY DEF CheckRights, UnknownDims, Allowed
<1>3. CASE made.outcome # "built"
    <2>1. done.outcome = made.outcome /\ done.query = NoQuery
        BY <1>2, <1>3 DEF BuildDruidQuery
    <2> QED
        BY <1>1, <1>3, <2>1 DEF LoopInv
<1>4. CASE made.outcome = "built"
    <2>1. /\ done.outcome = "built"
          /\ done.query.aggregations = made.aggs
          /\ done.query.postAggregations = made.posts
        BY <1>2, <1>4 DEF BuildDruidQuery
    <2> HIDE DEF made, done
    <2>2. made = [outcome |-> "built", aggs |-> made.aggs, posts |-> made.posts]
        BY <1>1, <1>4 DEF LoopInv
    <2>3. AllComputable(req)
        BY <1>4, CallFacts, AllComputed DEF AllComputable, made
    <2> QED
        BY <1>1, <2>1, <2>2, <2>3
<1> QED
    BY <1>3, <1>4

\* Only what the server booted with and the call matter to the loop.
LEMMA SameLoop ==
    ASSUME req' = req, datasources' = datasources
    PROVE  /\ BadFormula(req)' = BadFormula(req)
           /\ AllComputable(req)' = AllComputable(req)
           /\ CheckRights(req)' = CheckRights(req)
           /\ \A aggs, posts :
                LoopInv(req, [outcome |-> "built", aggs |-> aggs, posts |-> posts])'
                  = LoopInv(req, [outcome |-> "built", aggs |-> aggs, posts |-> posts])
<1>1. Mets(req)' = Mets(req) /\ Dims(req)' = Dims(req)
    BY DEF Mets, Dims, Schema
<1>2. BadFormula(req)' = BadFormula(req)
    BY <1>1 DEF BadFormula, HasColumn
<1>3. CheckRights(req)' = CheckRights(req)
    BY <1>1 DEF CheckRights, Allowed
<1>4. AggsOf(req)' = AggsOf(req)
    BY <1>1 DEF AggsOf
<1>5. Computable(req)' = Computable(req)
    BY <1>1 DEF Computable, HasColumn
<1>6. PostsOf(req)' = PostsOf(req) /\ AllComputable(req)' = AllComputable(req)
    BY <1>1, <1>5 DEF PostsOf, AllComputable
<1>7. ASSUME NEW aggs, NEW posts
      PROVE  LoopInv(req, [outcome |-> "built", aggs |-> aggs, posts |-> posts])'
               = LoopInv(req, [outcome |-> "built", aggs |-> aggs, posts |-> posts])
    <2>1. PostsResolved(req, posts, aggs)' = PostsResolved(req, posts, aggs)
        BY <1>1 DEF PostsResolved
    <2> QED
        BY <1>2, <1>4, <1>6, <2>1 DEF LoopInv, Distinct
<1> QED
    BY <1>2, <1>3, <1>6, <1>7

\* Execute, EditAccess and Build keep the invariant, and so does a worker that
\* finds no dates.
LEMMA QueryStep ==
    ASSUME QueryInv,
           \/ Next
           \/ UNCHANGED quVars
           \/ /\ verdict = "accepted" /\ verdict' \in {"accepted", "undated"}
              /\ UNCHANGED <<confVars, access, query>>
    PROVE  QueryInv'
<1>1. req' = req /\ datasources' = datasources /\ backend' = backend
    BY DEF Next, Execute, EditAccess, Build, quVars, confVars
<1>2. CallInv'
    BY <1>1 DEF QueryInv, CallInv
<1>3. /\ CheckRights(req)' = CheckRights(req) /\ BadFormula(req)' = BadFormula(req)
      /\ AllComputable(req)' = AllComputable(req)
    BY <1>1, SameLoop
<1>4. CASE Build
    <2>1. PICK limits \in GetAccessFilters(req) :
            /\ verdict' = BuildDruidQuery(req, limits).outcome
            /\ query' = BuildDruidQuery(req, limits).query
        BY <1>4 DEF Build
    <2>2. CheckRights(req)
        BY <1>4 DEF Build, QueryInv, RightsInv
    <2>3. RightsInv'
        <3>1. verdict' = "built" => query'.filter = Merge(req, limits)
            BY <2>1, BuiltFilter
        <3>2. limits \in GetAccessFilters(req)' /\ Merge(req, limits) = Merge(req, limits)'
            <4>1. GetAccessFilters(req)' = GetAccessFilters(req)
                BY <1>1, <1>4, RightsUnchanged DEF Build
            <4> QED
                BY <1>1, <4>1 DEF Merge
        <3> QED
            BY <1>3, <2>2, <3>1, <3>2 DEF RightsInv
    <2>4. MadeInv'
        <3>1. /\ verdict' = "failed" => BadFormula(req)
              /\ verdict' = "built" => AllComputable(req)
              /\ query' # NoQuery =>
                   LoopInv(req, [outcome |-> "built", aggs |-> query'.aggregations,
                                 posts |-> query'.postAggregations])
            BY <2>1, <2>2, BuiltQuery DEF QueryInv
        <3>2. LoopInv(req, [outcome |-> "built", aggs |-> query.aggregations,
                            posts |-> query.postAggregations])'
                = LoopInv(req, [outcome |-> "built", aggs |-> query'.aggregations,
                                posts |-> query'.postAggregations])
            BY <1>1, SameLoop
        <3> QED
            BY <1>3, <2>2, <3>1, <3>2 DEF MadeInv, NoQuery
    <2> QED
        BY <1>2, <2>3, <2>4 DEF QueryInv
<1>5. CASE ~Build
    <2>1. query' = query
        BY <1>5 DEF Next, Execute, EditAccess, quVars
    <2>2. verdict' \notin {"built", "failed", "panicked"} \/ (UNCHANGED quVars)
        BY <1>5 DEF Next, Execute, EditAccess
    <2>3. RightsInv'
        <3>1. CASE UNCHANGED quVars
            <4>1. GetAccessFilters(req)' = GetAccessFilters(req)
                BY <1>1, <3>1, RightsUnchanged DEF quVars
            <4> QED
                BY <1>1, <1>3, <3>1, <4>1 DEF quVars, QueryInv, RightsInv, Merge
        <3>2. CASE verdict' \notin {"built", "failed", "panicked"}
            <4>1. verdict' = "accepted" => CheckRights(req)
                BY <1>5 DEF Next, Execute, EditAccess, quVars, QueryInv, RightsInv
            <4> QED
                BY <1>3, <3>2, <4>1 DEF RightsInv
        <3> QED
            BY <2>2, <3>1, <3>2
    <2>4. MadeInv'
        <3>1. /\ verdict' = "failed" => BadFormula(req)
              /\ verdict' = "built" => AllComputable(req)
            BY <2>2 DEF quVars, QueryInv, MadeInv
        <3>2. query # NoQuery =>
                /\ CheckRights(req)
                /\ LoopInv(req, [outcome |-> "built", aggs |-> query.aggregations,
                                 posts |-> query.postAggregations])'
            BY <1>1, <2>1, SameLoop DEF QueryInv, MadeInv
        <3> QED
            BY <1>3, <2>1, <3>1, <3>2 DEF MadeInv, NoQuery
    <2> QED
        BY <1>2, <2>3, <2>4 DEF QueryInv
<1> QED
    BY <1>4, <1>5

\* It holds when the server has booted and a call comes in.
LEMMA QueryInit == Init => QueryInv
    BY DEF Init, QueryInv, CallInv, RightsInv, MadeInv

\* It holds of a query alone.
LEMMA QueryInvariant == Spec => []QueryInv
<1>1. QueryInv /\ [Next]_quVars => QueryInv'
    BY QueryStep
<1> QED
    BY <1>1, QueryInit, PTL DEF Spec

\* The same with the intervals computed on the way.
LEMMA ReportInvariant == PrSpec => []QueryInv
<1>1. PrInit => QueryInv
    BY QueryInit DEF PrInit
<1>2. QueryInv /\ [PrNext]_prVars => QueryInv'
    <2> SUFFICES ASSUME QueryInv, [PrNext]_prVars PROVE QueryInv'
        OBVIOUS
    <2>1. CASE Intervalled
        BY <2>1, QueryStep DEF Intervalled
    <2>2. CASE ~Intervalled
        BY <2>2, QueryStep DEF PrNext, Checked, Edited, Built, Next, prVars
    <2> QED
        BY <2>1, <2>2
<1> QED
    BY <1>1, <1>2, PTL DEF PrSpec

\* It is enough for the access rights.
LEMMA WithinAccess == QueryInv => RowsWithinAccess
<1> SUFFICES ASSUME QueryInv, verdict = "built", ~req.admin, access # Unreadable,
                    NEW row \in Selected(req, query.filter), NEW d \in DOMAIN Dims(req),
                    LimitedHere(req, d), access[req.user][req.datasource][d] # {}
             PROVE  Shown(req, d, row) \in access[req.user][req.datasource][d]
    BY DEF RowsWithinAccess
<1>1. PICK limits \in GetAccessFilters(req) : limits \subseteq query.filter
    BY DEF QueryInv, RightsInv, Merge
<1> QED
    BY <1>1, LimitsLimit

\* Whatever filters a call comes with, its query selects rows within the
\* access rights of its user.
THEOREM AccessHolds == Spec => []RowsWithinAccess
    BY WithinAccess, QueryInvariant, PTL

\* The same of a report with its dates.
THEOREM ReportWithinAccess == PrSpec => []RowsWithinAccess
    BY WithinAccess, ReportInvariant, PTL

\* A worker never meets a datasource or a dimension that the schema lacks.
THEOREM AcceptedIsKnown ==
    Spec => [](verdict = "accepted" =>
                  req.datasource \in DOMAIN datasources /\ UnknownDims(req) = {})
<1>1. QueryInv /\ verdict = "accepted" =>
          req.datasource \in DOMAIN datasources /\ UnknownDims(req) = {}
    BY DEF QueryInv, RightsInv, CheckRights, UnknownDims, Allowed
<1> QED
    BY <1>1, QueryInvariant, PTL

\* What the page offers is what the execute handler accepts, for any schema.
THEOREM OfferedAccepted == PrSpec => []OfferedIsAccepted
<1>1. QueryInv => OfferedIsAccepted
    <2> SUFFICES ASSUME QueryInv, NEW s \in DOMAIN datasources
                 PROVE  LET offered == SchemaHandler(req.admin)[s]
                            Of(dims, mets) ==
                                [req EXCEPT !.datasource = s, !.dims = dims, !.metrics = mets]
                        IN /\ \A d : CheckRights(Of(<<d>>, <<>>))
                                       <=> d \in offered.dimensions \cup {"time"}
                           /\ \A m : CheckRights(Of(<<>>, <<m>>)) <=> m \in offered.metrics
        BY DEF OfferedIsAccepted
    <2> DEFINE offered == SchemaHandler(req.admin)[s]
               Of(dims, mets) == [req EXCEPT !.datasource = s, !.dims = dims, !.metrics = mets]
    <2>1. /\ offered.dimensions = {d \in DOMAIN datasources[s].dimensions :
                                     Allowed(datasources[s].dimensions, d, req.admin)}
          /\ offered.metrics = {m \in DOMAIN datasources[s].metrics :
                                  Allowed(datasources[s].metrics, m, req.admin)}
        BY DEF SchemaHandler
    <2>2. ASSUME NEW dims, NEW mets
          PROVE  /\ Of(dims, mets).datasource = s /\ Of(dims, mets).admin = req.admin
                 /\ Of(dims, mets).dims = dims /\ Of(dims, mets).metrics = mets
        BY CallFacts DEF QueryInv
    <2> HIDE DEF offered, Of
    <2>3. ASSUME NEW dims, NEW mets
          PROVE  CheckRights(Of(dims, mets)) <=>
                   /\ \A d \in ToSet(dims) :
                        d = "time" \/ Allowed(datasources[s].dimensions, d, req.admin)
                   /\ \A m \in ToSet(mets) : Allowed(datasources[s].metrics, m, req.admin)
        BY <2>2 DEF CheckRights, Dims, Mets, Schema
    <2>4. ToSet(<<>>) = {} /\ \A x : ToSet(<<x>>) = {x}
        BY DEF ToSet
    <2>5. \A d : CheckRights(Of(<<d>>, <<>>)) <=> d \in offered.dimensions \cup {"time"}
        BY <2>1, <2>3, <2>4 DEF Allowed
    <2>6. \A m : CheckRights(Of(<<>>, <<m>>)) <=> m \in offered.metrics
        BY <2>1, <2>3, <2>4 DEF Allowed
    <2> QED
        BY <2>5, <2>6 DEF offered, Of
<1> QED
    BY <1>1, ReportInvariant, PTL

\* A worker refuses an accepted call for nothing but a formula.
THEOREM AcceptedBuilds == PrSpec => []AcceptedIsBuildable
<1>1. QueryInv => AcceptedIsBuildable
    BY DEF QueryInv, MadeInv, BadFormula, AcceptedIsBuildable
<1> QED
    BY <1>1, ReportInvariant, PTL

\* A query aggregates each field of its formulas once, whichever metrics share it.
THEOREM FieldsOnce == PrSpec => []FieldsAggregated
<1>1. QueryInv => FieldsAggregated
    <2> SUFFICES ASSUME QueryInv, NEW k \in 1 .. Len(query.postAggregations),
                        NEW f \in ToSet(CompileFormula(Mets(req)[query.postAggregations[k].metric].formula).leaves)
                 PROVE  AggregatedOnce(f)
        BY DEF FieldsAggregated
    <2> DEFINE aggs == query.aggregations
               posts == query.postAggregations
    <2>1. query # NoQuery
        BY DEF NoQuery
    <2>2. CheckRights(req) /\ LoopInv(req, [outcome |-> "built", aggs |-> aggs, posts |-> posts])
        BY <2>1 DEF QueryInv, MadeInv
    <2>3. /\ aggs \in Seq(AggsOf(req)) /\ posts \in Seq(PostsOf(req))
          /\ Distinct(aggs) /\ PostsResolved(req, posts, aggs)
        BY <2>2 DEF LoopInv
    <2>4. posts[k] \in PostsOf(req) /\ k \in 1 .. Len(posts)
        BY <2>3
    <2>5. posts[k].metric \in Computable(req)
        BY <2>4 DEF PostsOf
    <2>6. f \in DOMAIN Mets(req) /\ posts[k].metric \in ToSet(req.metrics)
        BY <2>5 DEF Computable, HasColumn
    <2>7. PICK i \in 1 .. Len(aggs) : aggs[i].name = SumName(f)
        BY <2>3, <2>4 DEF PostsResolved, Aggregates
    <2> HIDE DEF aggs, posts
    <2>8. {j \in 1 .. Len(aggs) : aggs[j].name = aggs[i].name} = {i}
        BY <2>3, <2>7 DEF Distinct
    <2>9. aggs[i] \in AggsOf(req)
        BY <2>3, <2>7
    <2>10. SumName(f) \in ToSet(req.metrics) \/ aggs[i].column = Mets(req)[f].druid
        <3>1. CASE \E m \in ToSet(req.metrics) :
                     aggs[i] = [name |-> m, column |-> Mets(req)[m].druid]
            BY <2>7, <3>1
        <3>2. CASE \E g \in DOMAIN Mets(req) :
                     aggs[i] = [name |-> SumName(g), column |-> Mets(req)[g].druid]
            <4>1. PICK g \in DOMAIN Mets(req) :
                    aggs[i] = [name |-> SumName(g), column |-> Mets(req)[g].druid]
                BY <3>2
            <4>2. SumName(g) = SumName(f)
                BY <2>7, <4>1
            <4>3. g = f
                BY <2>2, <2>6, <4>2, CallFacts DEF QueryInv
            <4> QED
                BY <4>1, <4>3
        <3> QED
            BY <2>9, <3>1, <3>2 DEF AggsOf
    <2> QED
        BY <2>7, <2>8, <2>10 DEF AggregatedOnce, aggs
<1> QED
    BY <1>1, ReportInvariant, PTL

\* What a computable formula of a call is.
LEMMA ComputableFacts ==
    ASSUME CallInv, CheckRights(req), NEW m \in Computable(req)
    PROVE  LET formula == Mets(req)[m].formula
               node == ParseFormula(formula).node
           IN /\ formula \in Seq(Words) /\ Len(formula) <= MaxTokens
              /\ ParseFormula(formula).ok /\ node \in Nodes
              /\ CompileFormula(formula).leaves = CollectLeafFields(node)
              /\ CompileFormula(formula).postAgg = <<NodeToDruidPostAgg(node)>>
              /\ ToSet(CollectLeafFields(node)) \cap Punctuation = {}
<1> DEFINE formula == Mets(req)[m].formula
<1>1. /\ m \in DOMAIN Mets(req) /\ formula # NoField
      /\ CompileFormula(formula).ok /\ ~CompileFormula(formula).panics
      /\ \A f \in ToSet(CompileFormula(formula).leaves) : HasColumn(req, f)
    BY DEF Computable, CheckRights, Allowed
<1>2. formula \in Seq(Words) /\ Len(formula) <= MaxTokens
    BY <1>1, CallFacts
<1>3. \A f : HasColumn(req, f) => f \notin Punctuation
    BY CallFacts DEF HasColumn
<1> HIDE DEF formula
<1>4. /\ ParseFormula(formula).ok
      /\ ParseFormula(formula).node \in Nodes
      /\ CompileFormula(formula).leaves = CollectLeafFields(ParseFormula(formula).node)
      /\ CompileFormula(formula).postAgg = <<NodeToDruidPostAgg(ParseFormula(formula).node)>>
    BY <1>1, <1>2, CompileFacts
<1>5. ToSet(CollectLeafFields(ParseFormula(formula).node)) \cap Punctuation = {}
    BY <1>1, <1>3, <1>4
<1> QED
    BY <1>2, <1>4, <1>5 DEF formula

\* The parser gives every well-formed formula of every datasource the tree that
\* arithmetic gives it, however long it is.
THEOREM TreeOfFormula == PrSpec => []FormulaTree
<1>1. QueryInv => FormulaTree
    <2> SUFFICES ASSUME QueryInv, NEW s \in DOMAIN datasources,
                        NEW m \in DOMAIN datasources[s].metrics,
                        datasources[s].metrics[m].formula # NoField,
                        Tree(datasources[s].metrics[m].formula) # IllFormed
                 PROVE  LET formula == datasources[s].metrics[m].formula
                        IN ParseFormula(formula).ok /\ ParseFormula(formula).node = Tree(formula)
        BY DEF FormulaTree
    <2> DEFINE formula == datasources[s].metrics[m].formula
    <2>1. PICK w \in Worlds : \E f \in w.formulas : datasources = Schemas(f)
        BY DEF QueryInv, CallInv
    <2>2. PICK f \in w.formulas : datasources = Schemas(f)
        BY <2>1
    <2>3. f \in UNION {v.formulas : v \in Worlds}
        OBVIOUS
    <2>4. formula \in Seq(Words)
        BY <2>2, <2>3, FormulasAssumption
    <2> HIDE DEF formula
    <2>5. Tree(formula) # IllFormed
        BY DEF formula
    <2>6. ParseFormula(formula) = Parsed(Tree(formula), Len(formula) + 1)
        BY <2>4, <2>5, FormulaRead
    <2>7. ParseFormula(formula).ok /\ ParseFormula(formula).node = Tree(formula)
        BY <2>6, ParsedParts
    <2> QED
        BY <2>7 DEF formula
<1> QED
    BY <1>1, ReportInvariant, PTL

\* No query is built from a formula that is not well-formed, but one that calls
\* an operator inside of a sum.
THEOREM BuiltIsWellFormed == PrSpec => []AcceptedIsWellFormed
<1>1. QueryInv => AcceptedIsWellFormed
    <2> SUFFICES ASSUME QueryInv, verdict = "built", NEW m \in ToSet(req.metrics), Asks(m),
                        NamesCalls(ParseFormula(Mets(req)[m].formula).node)
                 PROVE  Tree(Mets(req)[m].formula) # IllFormed
        BY DEF AcceptedIsWellFormed
    <2> DEFINE formula == Mets(req)[m].formula
    <2>1. m \in Computable(req)
        BY DEF QueryInv, MadeInv, AllComputable, Asks
    <2>2. CallInv /\ CheckRights(req)
        BY DEF QueryInv, RightsInv
    <2>3. /\ formula \in Seq(Words) /\ Len(formula) <= MaxTokens
          /\ ParseFormula(formula).ok
          /\ ToSet(CollectLeafFields(ParseFormula(formula).node)) \cap Punctuation = {}
        BY <2>1, <2>2, ComputableFacts
    <2>4. NamesCalls(ParseFormula(formula).node)
        OBVIOUS
    <2> HIDE DEF formula
    <2>5. Clean(ParseFormula(formula).node)
        BY <2>3, <2>4 DEF Clean
    <2>6. Tree(formula) # IllFormed
        BY <2>3, <2>5, FormulaSound
    <2> QED
        BY <2>6 DEF formula
<1> QED
    BY <1>1, ReportInvariant, PTL

\* The post-aggregation of a formula over sums reads what its query aggregates.
THEOREM SumsResolve == PrSpec => []SumReferencesResolve
<1>1. QueryInv /\ FieldsAggregated => SumReferencesResolve
    <2> SUFFICES ASSUME QueryInv, FieldsAggregated,
                        NEW k \in 1 .. Len(query.postAggregations),
                        Tree(Mets(req)[query.postAggregations[k].metric].formula) # IllFormed,
                        SumsOnly(Tree(Mets(req)[query.postAggregations[k].metric].formula))
                 PROVE  Resolves(query.postAggregations[k])
        BY DEF SumReferencesResolve
    <2> DEFINE post == query.postAggregations[k]
               formula == Mets(req)[post.metric].formula
               node == ParseFormula(formula).node
    <2>1. query # NoQuery
        BY DEF NoQuery
    <2>2. /\ CallInv /\ CheckRights(req)
          /\ LoopInv(req, [outcome |-> "built", aggs |-> query.aggregations,
                           posts |-> query.postAggregations])
        BY <2>1 DEF QueryInv, MadeInv
    <2>3. query.postAggregations \in Seq(PostsOf(req))
        BY <2>2 DEF LoopInv
    <2>4. post \in PostsOf(req)
        BY <2>3
    <2>5. /\ post.metric \in Computable(req)
          /\ post.postAgg = CompileFormula(formula).postAgg
        BY <2>4 DEF PostsOf
    <2>6. /\ formula \in Seq(Words) /\ node \in Nodes
          /\ CompileFormula(formula).leaves = CollectLeafFields(node)
          /\ CompileFormula(formula).postAgg = <<NodeToDruidPostAgg(node)>>
        BY <2>2, <2>5, ComputableFacts
    <2>7. \A f \in ToSet(CompileFormula(formula).leaves) : AggregatedOnce(f)
        BY DEF FieldsAggregated
    <2>8. Tree(formula) # IllFormed /\ SumsOnly(Tree(formula))
        OBVIOUS
    <2> HIDE DEF formula
    <2>9. node = Tree(formula)
        <3>1. ParseFormula(formula) = Parsed(Tree(formula), Len(formula) + 1)
            BY <2>6, <2>8, FormulaRead
        <3> QED
            BY <3>1, ParsedParts
    <2> HIDE DEF node
    <2>10. References(NodeToDruidPostAgg(node)) \subseteq
               {SumName(f) : f \in ToSet(CollectLeafFields(node))}
        BY <2>6, <2>8, <2>9, ReadsSums
    <2>11. \A f \in ToSet(CollectLeafFields(node)) : SumName(f) \in Defined
        BY <2>6, <2>7 DEF AggregatedOnce, Defined
    <2>12. post.postAgg[1] = NodeToDruidPostAgg(node)
        BY <2>5, <2>6
    <2>13. References(post.postAgg[1]) \subseteq Defined
        BY <2>10, <2>11, <2>12
    <2> QED
        BY <2>13 DEF Resolves
<1> QED
    BY <1>1, ReportInvariant, FieldsOnce, PTL
=============================================================================
