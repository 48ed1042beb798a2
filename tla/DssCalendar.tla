---------------------------- MODULE DssCalendar -----------------------------
(***************************************************************************)
(* The Gregorian calendar, one day after the other, beside the julian      *)
(* dates of DssDates: the reference for the conversions of datetime.rs.    *)
(***************************************************************************)
EXTENDS DssDates

CONSTANTS
    Era,      \* first days: a year and the julian date of its 1 January
    Years     \* bound: the number of years walked through from each

ASSUME CalendarAssumption ==
    /\ Era \subseteq [year : Nat, day : Int]
    /\ \A first \in Era :
           first.year > 4 /\ YearStart(first.year) = first.day
    /\ Years \in Nat

VARIABLES
    day,                   \* a julian date
    date,                  \* the same day in the calendar
    era                    \* where the walk began

vars == <<day, date, era>>

\* Thirty days hath September.
DaysIn(year, month) ==
    IF month \in {4, 6, 9, 11} THEN 30
    ELSE IF month # 2 THEN 31
    ELSE IF year % 400 = 0 \/ (year % 4 = 0 /\ year % 100 # 0) THEN 29
    ELSE 28

Init ==
    /\ era \in Era
    /\ day = era.day
    /\ date = Date(era.year, 1, 1)

NextDay ==
    /\ date.day < DaysIn(date.year, date.month)
    /\ day' = day + 1
    /\ date' = [date EXCEPT !.day = @ + 1]
    /\ UNCHANGED era

NextMonth ==
    /\ date.day = DaysIn(date.year, date.month)
    /\ date.month < 12
    /\ day' = day + 1
    /\ date' = Date(date.year, date.month + 1, 1)
    /\ UNCHANGED era

NextYear ==
    /\ date.day = DaysIn(date.year, date.month)
    /\ date.month = 12
    /\ date.year < era.year + Years
    /\ day' = day + 1
    /\ date' = Date(date.year + 1, 1, 1)
    /\ UNCHANGED era

Next == NextDay \/ NextMonth \/ NextYear

Spec == Init /\ [][Next]_vars

-----------------------------------------------------------------------------
CalendarTypeOK ==
    /\ day \in Int
    /\ date \in [year : Nat, month : Month, day : 1..31]
    /\ era \in Era

(* year_month_day_to_julian gives the days of the calendar consecutive     *)
(* numbers, through leap years, centuries and every fourth century.        *)
DaysAreConsecutive ==
    YearMonthDayToJulian(date.year, date.month, date.day) = day

(* julian_to_year_month_day is its inverse: the two bounded searches, from *)
(* an estimated year and a lower bound of the month, end at the right one. *)
InverseIsExact == JulianToYearMonthDay(day) = date

(* A month outside of 1..12 counts from the year before or after, however  *)
(* many years away.                                                        *)
MonthsCarry ==
    \A years \in -3..3 :
        YearMonthDayToJulian(date.year, date.month + 12 * years, date.day)
            = YearMonthDayToJulian(date.year + years, date.month, date.day)
=============================================================================
