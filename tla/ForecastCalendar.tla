-------------------------- MODULE ForecastCalendar --------------------------
(***************************************************************************)
(* The calendar arithmetic of vertex/domain/periods.py and the dates of    *)
(* vertex/config/backfill.py.  A date is the number of its day; months are *)
(* numbered too, and the calendar says when each begins and how long it    *)
(* is.  DATE_ADD and DATE_SUB of BigQuery move dates in the same way.      *)
(***************************************************************************)
EXTENDS Integers

CONSTANTS
  FirstDay,     \* the first day of every month
  MonthLength,  \* the number of its days
  MonthOf       \* the month of every day

Months == DOMAIN FirstDay
Days == DOMAIN MonthOf

ASSUME CalendarAssumption ==
  /\ Months \subseteq Int
  /\ Days \subseteq Int
  /\ FirstDay \in [Months -> Days]
  /\ MonthLength \in [Months -> 28 .. 31]
  /\ MonthOf \in [Days -> Months]
  /\ \A m, n \in Months : m .. n \subseteq Months
  /\ \A m, n \in Months : m < n => FirstDay[m] + MonthLength[m] <= FirstDay[n]
  /\ \A d \in Days :
       /\ FirstDay[MonthOf[d]] <= d
       /\ d < FirstDay[MonthOf[d]] + MonthLength[MonthOf[d]]
  /\ \A m \in Months :
       \A d \in FirstDay[m] .. (FirstDay[m] + MonthLength[m] - 1) :
         d \in Days /\ MonthOf[d] = m

Frequencies == {"day", "week", "month"}

SeasonalPeriod(f) == CASE f = "day" -> 7 [] f = "week" -> 52 [] f = "month" -> 12

Lesser(a, b) == IF a <= b THEN a ELSE b

\* The same day of the month, n months on; the last day of a shorter month.
ShiftMonths(d, n) ==
  LET m == MonthOf[d] + n
  IN FirstDay[m] + Lesser(d - FirstDay[MonthOf[d]], MonthLength[m] - 1)

ShiftPeriod(d, n, f) ==
  CASE f = "day" -> d + n
    [] f = "week" -> d + 7 * n
    [] f = "month" -> ShiftMonths(d, n)

\* The shift stays within the calendar.
CanShift(d, n, f) ==
  /\ d \in Days
  /\ f = "month" => MonthOf[d] + n \in Months

\* The same day of the year before; February 29 becomes February 28.
YearBefore(d) == ShiftMonths(d, -12)

\* The dates from start to end at every interval: each is shifted from the one
\* before, so that a day of the month that was cut short stays short.
BackfillDates(start, end, interval, f) ==
  LET dates[d \in Int] ==
        IF d > end THEN {} ELSE {d} \union dates[ShiftPeriod(d, interval, f)]
  IN dates[start]
=============================================================================
