------------------------------ MODULE DssDates ------------------------------
(***************************************************************************)
(* Julian dates as datetime.rs computes them: day 1 is 1 January 1900.     *)
(* Pure functions; the calendar they are compared with is in DssCalendar.  *)
(* Numbers are mathematical integers: a julian date of an i32 year stays   *)
(* far from the bounds of i32 for the years anyone writes.                 *)
(***************************************************************************)
EXTENDS Integers, Sequences

BaseDate == 693960
NDAY == <<0, 31, 59, 90, 120, 151, 181, 212, 243, 273, 304, 334>>
Month == 1..12

\* Division and remainder of i32, which round towards zero.
Quot(a, b) == IF a >= 0 THEN a \div b ELSE - ((-a) \div b)
Rem(a, b)  == a - b * Quot(a, b)

\* Faulty: every fourth year.
IsJulianLeapYear(year) == Rem(year, 4) = 0

IsLeapYear(year) ==
    \/ Rem(year, 4) = 0 /\ Rem(year, 100) # 0
    \/ Rem(year, 400) = 0

-----------------------------------------------------------------------------
(* From a date to its day number.                                          *)

\* Faulty: month 0 is taken for January.
CarryMonthPlain(m) ==
    IF m \in Month THEN m
    ELSE LET rest == m - 12 * Quot(m, 12) IN IF rest < 1 THEN 1 ELSE rest

\* The year and month that a month outside of 1..12 stands for.
CarryYear(y, m) ==
    IF m \in Month THEN y
    ELSE LET years == Quot(m, 12)
         IN  IF m - 12 * years < 1 THEN y + years - 1 ELSE y + years
CarryMonth(m) ==
    IF m \in Month THEN m
    ELSE LET rest == m - 12 * Quot(m, 12)
         IN  IF rest < 1 THEN rest + 12 ELSE rest

Leaps(y) == Quot(y, 4) + Quot(y, 400) - Quot(y, 100)

\* The leap days in front of a year.
LeapDays(y) ==
    IF y > 4 THEN Leaps(y - 1)
    ELSE IF y > 0 THEN 1
    ELSE Leaps(y + 1)

\* The leap day inside the year.
LeapCheck(y, m) ==
    IF IsLeapYear(y) /\ y >= 0 /\ m > 2 THEN 1
    ELSE IF IsLeapYear(y) /\ y < 0 /\ m < 3 THEN -1
    ELSE 0

YearMonthDayToJulian(year, month, day) ==
    LET y == CarryYear(year, month)
        m == CarryMonth(month)
    IN  y * 365 + LeapDays(y) + NDAY[m] + day + LeapCheck(y, m) - BaseDate

YearStart(y) == YearMonthDayToJulian(y, 1, 1)

-----------------------------------------------------------------------------
(* And back.                                                               *)

\* (julc / 365.2425) as i32; 365.2425 is 146097 / 400.
YearEstimate(julian) ==
    LET julc == julian + BaseDate
        Whole(days) == 400 * (days \div 146097)
                         + ((days % 146097) * 400) \div 146097
    IN  IF julc >= 0 THEN Whole(julc) ELSE - Whole(-julc)

\* Where a search from year first, of 100 steps at most, ends.
FirstAfter(first, julian) ==
    LET Later(k) == YearStart(first + k) > julian
    IN  IF \E k \in 0..99 : Later(k)
        THEN first + CHOOSE k \in 0..99 :
                         Later(k) /\ \A j \in 0..(k - 1) : ~ Later(j)
        ELSE first + 100
LastUpTo(first, julian) ==
    LET Begun(k) == YearStart(first - k) <= julian
    IN  IF \E k \in 0..99 : Begun(k)
        THEN first - CHOOSE k \in 0..99 :
                         Begun(k) /\ \A j \in 0..(k - 1) : ~ Begun(j)
        ELSE first - 100

YearOf(julian) ==
    LET From(estimate) == IF estimate > 0 THEN FirstAfter(estimate, julian) - 1
                          ELSE LastUpTo(estimate, julian)
    IN  From(YearEstimate(julian))

\* Faulty: the search may begin behind the month it looks for.
FirstMonthLate(year, julian) ==
    LET passed == Quot(julian - YearStart(year) + 31, 28) + 1
    IN  IF passed > 12 THEN 12 ELSE passed

\* The number of times 28 days that have passed, where the search for the
\* month begins.
FirstMonth(year, julian) ==
    LET passed == Quot(julian - YearStart(year) + 28, 28)
    IN  IF passed > 12 THEN 12 ELSE passed

\* The month in front of the first one that starts after the day.
MonthOf(year, julian) ==
    LET first    == FirstMonth(year, julian)
        Later(i) == YearMonthDayToJulian(year, i, 1) > julian
        month    == IF \E i \in first..12 : Later(i)
                    THEN (CHOOSE i \in first..12 :
                             Later(i) /\ \A j \in first..(i - 1) : ~ Later(j)) - 1
                    ELSE 12
    IN  IF month < 1 THEN 1 ELSE month

Date(y, m, d) == [year |-> y, month |-> m, day |-> d]

JulianToYearMonthDay(julian) ==
    LET InMonth(y, m) ==
            Date(y, m, julian - YearMonthDayToJulian(y, m, 1) + 1)
        InYear(y) == InMonth(y, MonthOf(y, julian))
    IN  InYear(YearOf(julian))
=============================================================================
