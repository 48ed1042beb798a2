--------------------------- MODULE DssDatesProofs ---------------------------
(***************************************************************************)
(* The conversions of datetime.rs are right for every day from 1 January   *)
(* of the year 5 on, and a series that begins with a block is split and    *)
(* put together without loss.                                              *)
(*                                                                         *)
(* Months are counted from the year 0 for the latter, and a block is known *)
(* by the number of its first month; the blocks of one series are every    *)
(* month, or every twelfth.                                                *)
(***************************************************************************)
EXTENDS DssCalendar, DssBlocks, FiniteSetTheorems,
        SequenceTheorems, WellFoundedInduction, TLAPS

\* The division of i32 is \div for numbers that are not negative.
LEMMA QuotIsDiv4 ==
    \A a \in Nat : Quot(a, 4) = a \div 4 /\ Rem(a, 4) = a % 4
<1> TAKE a \in Nat
<1>1. a - 4 * (a \div 4) = a % 4
  OBVIOUS
<1> QED
  BY <1>1 DEF Quot, Rem

(* The same for centuries. *)
LEMMA QuotIsDiv100 ==
    \A a \in Nat : Quot(a, 100) = a \div 100 /\ Rem(a, 100) = a % 100
<1> TAKE a \in Nat
<1>1. a - 100 * (a \div 100) = a % 100
  OBVIOUS
<1> QED
  BY <1>1 DEF Quot, Rem

(* The same for four of them. *)
LEMMA QuotIsDiv400 ==
    \A a \in Nat : Quot(a, 400) = a \div 400 /\ Rem(a, 400) = a % 400
<1> TAKE a \in Nat
<1>1. a - 400 * (a \div 400) = a % 400
  OBVIOUS
<1> QED
  BY <1>1 DEF Quot, Rem

(* is_leap_year is the rule of the Gregorian calendar. *)
LEMMA LeapYears ==
    ASSUME NEW y \in Nat
    PROVE  IsLeapYear(y) <=> y % 400 = 0 \/ (y % 4 = 0 /\ y % 100 # 0)
<1>1. Rem(y, 4) = y % 4
  BY QuotIsDiv4
<1>2. Rem(y, 100) = y % 100
  BY QuotIsDiv100
<1>3. Rem(y, 400) = y % 400
  BY QuotIsDiv400
<1> QED
  BY <1>1, <1>2, <1>3 DEF IsLeapYear

\* The leap days in front of a year.
LEMMA LeapDaysOfYear ==
    ASSUME NEW y \in Nat, y > 4
    PROVE  LeapDays(y) = (y - 1) \div 4 + (y - 1) \div 400 - (y - 1) \div 100
<1>1. y - 1 \in Nat
  OBVIOUS
<1>2. Quot(y - 1, 4) = (y - 1) \div 4
  BY <1>1, QuotIsDiv4
<1>3. Quot(y - 1, 100) = (y - 1) \div 100
  BY <1>1, QuotIsDiv100
<1>4. Quot(y - 1, 400) = (y - 1) \div 400
  BY <1>1, QuotIsDiv400
<1>5. LeapDays(y) = Leaps(y - 1)
  BY DEF LeapDays
<1> QED
  BY <1>2, <1>3, <1>4, <1>5, Zenon DEF Leaps

\* From one year to the next the leap days grow by the leap day of the year.
LEMMA LeapDaysGrow ==
    ASSUME NEW y \in Nat, y > 4
    PROVE  LeapDays(y + 1) = LeapDays(y) + (IF IsLeapYear(y) THEN 1 ELSE 0)
<1>1. LeapDays(y + 1) = y \div 4 + y \div 400 - y \div 100
  <2>1. y + 1 \in Nat /\ y + 1 > 4 /\ (y + 1) - 1 = y
    OBVIOUS
  <2> QED
    BY <2>1, LeapDaysOfYear
<1>2. y \div 4 = (y - 1) \div 4 + (IF y % 4 = 0 THEN 1 ELSE 0)
  OBVIOUS
<1>3. y \div 100 = (y - 1) \div 100 + (IF y % 100 = 0 THEN 1 ELSE 0)
  OBVIOUS
<1>4. y \div 400 = (y - 1) \div 400 + (IF y % 400 = 0 THEN 1 ELSE 0)
  OBVIOUS
<1>5. (y % 400 = 0 => y % 100 = 0) /\ (y % 100 = 0 => y % 4 = 0)
  OBVIOUS
<1>6. LeapDays(y) = (y - 1) \div 4 + (y - 1) \div 400 - (y - 1) \div 100
  BY LeapDaysOfYear
<1>7. IsLeapYear(y) <=> y % 400 = 0 \/ (y % 4 = 0 /\ y % 100 # 0)
  BY LeapYears
<1> QED
  BY <1>1, <1>2, <1>3, <1>4, <1>5, <1>6, <1>7

-----------------------------------------------------------------------------
(* The months of a year.                                                   *)

(* The days in front of each month, as the table has them. *)
LEMMA DaysOfMonths ==
    /\ NDAY[1] = 0   /\ NDAY[2] = 31  /\ NDAY[3] = 59   /\ NDAY[4] = 90
    /\ NDAY[5] = 120 /\ NDAY[6] = 151 /\ NDAY[7] = 181  /\ NDAY[8] = 212
    /\ NDAY[9] = 243 /\ NDAY[10] = 273 /\ NDAY[11] = 304 /\ NDAY[12] = 334
BY DEF NDAY

(* For a month between 1 and 12 nothing is carried. *)
LEMMA InRange ==
    ASSUME NEW y \in Nat, NEW m \in Month, NEW d \in Int
    PROVE  YearMonthDayToJulian(y, m, d)
             = y * 365 + LeapDays(y) + NDAY[m] + d + LeapCheck(y, m) - BaseDate
BY DEF YearMonthDayToJulian, CarryYear, CarryMonth

(* The leap day counts from March on. *)
LEMMA LeapCheckOf ==
    ASSUME NEW y \in Nat, NEW m \in Month
    PROVE  LeapCheck(y, m) = IF IsLeapYear(y) /\ m > 2 THEN 1 ELSE 0
BY DEF LeapCheck, Month

(* The length of a month, by the test of the code for leap years. *)
LEMMA DaysInMonth ==
    ASSUME NEW y \in Nat, NEW m \in Month
    PROVE  DaysIn(y, m) = IF m \in {4, 6, 9, 11} THEN 30
                          ELSE IF m # 2 THEN 31
                          ELSE IF IsLeapYear(y) THEN 29 ELSE 28
BY LeapYears DEF DaysIn

\* The table of months and the leap day follow the lengths of the months.
LEMMA MonthGrows ==
    ASSUME NEW y \in Nat, NEW m \in 1..11
    PROVE  NDAY[m + 1] + LeapCheck(y, m + 1)
             = NDAY[m] + LeapCheck(y, m) + DaysIn(y, m)
<1>1. m \in Month /\ m + 1 \in Month
  BY DEF Month
<1>2. LeapCheck(y, m) = IF IsLeapYear(y) /\ m > 2 THEN 1 ELSE 0
  BY <1>1, LeapCheckOf
<1>3. LeapCheck(y, m + 1) = IF IsLeapYear(y) /\ m + 1 > 2 THEN 1 ELSE 0
  BY <1>1, LeapCheckOf
<1>4. DaysIn(y, m) = IF m \in {4, 6, 9, 11} THEN 30 ELSE IF m # 2 THEN 31
                     ELSE IF IsLeapYear(y) THEN 29 ELSE 28
  BY <1>1, DaysInMonth
<1>5. \/ m = 1 \/ m = 2 \/ m = 3 \/ m = 4 \/ m = 5 \/ m = 6
      \/ m = 7 \/ m = 8 \/ m = 9 \/ m = 10 \/ m = 11
  OBVIOUS
<1> QED
  BY <1>2, <1>3, <1>4, <1>5, DaysOfMonths

(* A year is 365 days long, or 366. *)
LEMMA YearGrows ==
    ASSUME NEW y \in Nat, y > 4
    PROVE  YearStart(y + 1) = YearStart(y) + 365
                                + (IF IsLeapYear(y) THEN 1 ELSE 0)
<1>1. y + 1 \in Nat /\ 1 \in Month
  BY DEF Month
<1>2. YearStart(y) = y * 365 + LeapDays(y) + NDAY[1] + 1 + LeapCheck(y, 1)
                       - BaseDate
  BY <1>1, InRange DEF YearStart
<1>3. YearStart(y + 1) = (y + 1) * 365 + LeapDays(y + 1) + NDAY[1] + 1
                           + LeapCheck(y + 1, 1) - BaseDate
  BY <1>1, InRange DEF YearStart
<1>4. LeapCheck(y, 1) = 0 /\ LeapCheck(y + 1, 1) = 0
  BY <1>1, LeapCheckOf
<1>5. LeapDays(y) \in Int
  BY LeapDaysOfYear
<1> QED
  BY <1>2, <1>3, <1>4, <1>5, LeapDaysGrow, DaysOfMonths DEF BaseDate

-----------------------------------------------------------------------------
(* The days of the calendar.                                               *)

\* With DaysAreConsecutive the inductive invariant.
CalendarInv ==
    /\ CalendarTypeOK
    /\ date.year > 4
    /\ date.day <= DaysIn(date.year, date.month)
    /\ DaysAreConsecutive

(* No month is shorter than 28 days or longer than 31. *)
LEMMA MonthHasDays ==
    ASSUME NEW y \in Nat, NEW m \in Month
    PROVE  DaysIn(y, m) \in 28..31
BY DEF DaysIn

(* The first day of each era has its number. *)
LEMMA CalendarInit == Init => CalendarInv
<1> SUFFICES ASSUME Init PROVE CalendarInv
  OBVIOUS
<1>1. /\ era \in [year : Nat, day : Int] /\ era.year > 4
      /\ YearStart(era.year) = era.day
  BY CalendarAssumption DEF Init
<1>2. /\ date = [year |-> era.year, month |-> 1, day |-> 1] /\ day = era.day
      /\ era \in Era
  BY DEF Init, Date
<1>3. CalendarTypeOK
  BY <1>1, <1>2 DEF CalendarTypeOK, Month
<1>4. DaysIn(era.year, 1) \in 28..31
  BY <1>1, MonthHasDays DEF Month
<1>5. DaysAreConsecutive
  BY <1>1, <1>2 DEF DaysAreConsecutive, YearStart
<1> QED
  BY <1>1, <1>2, <1>3, <1>4, <1>5 DEF CalendarInv

(* The next day has the next number. *)
LEMMA CalendarStep == CalendarInv /\ [Next]_vars => CalendarInv'
<1> SUFFICES ASSUME CalendarInv, [Next]_vars PROVE CalendarInv'
  OBVIOUS
<1> DEFINE y == date.year
           m == date.month
           d == date.day
<1>1. /\ y \in Nat /\ m \in Month /\ d \in 1..31 /\ day \in Int /\ y > 4
      /\ date = [year |-> y, month |-> m, day |-> d] /\ era \in Era
      /\ d <= DaysIn(y, m)
  BY DEF CalendarInv, CalendarTypeOK
<1>2. day = y * 365 + LeapDays(y) + NDAY[m] + d + LeapCheck(y, m) - BaseDate
  BY <1>1, InRange DEF CalendarInv, DaysAreConsecutive
<1>3. LeapDays(y) \in Int /\ NDAY[m] \in Int /\ LeapCheck(y, m) \in Int
  <2>1. LeapDays(y) \in Int
    BY <1>1, LeapDaysOfYear
  <2>2. LeapCheck(y, m) \in Int
    BY <1>1, LeapCheckOf
  <2>3. NDAY[m] \in Int
    BY <1>1 DEF NDAY, Month
  <2> QED
    BY <2>1, <2>2, <2>3
<1>4. DaysIn(y, m) \in 28..31
  BY <1>1, MonthHasDays
<1> HIDE DEF y, m, d
<1>5. CASE NextDay
  <2>1. /\ date' = [year |-> y, month |-> m, day |-> d + 1]
        /\ day' = day + 1 /\ era' = era /\ d < DaysIn(y, m)
    BY <1>1, <1>5 DEF NextDay, y, m, d
  <2>2. d + 1 \in 1..31
    BY <1>1, <1>4, <2>1
  <2>3. YearMonthDayToJulian(y, m, d + 1) = day + 1
    <3>1. YearMonthDayToJulian(y, m, d + 1)
            = y * 365 + LeapDays(y) + NDAY[m] + (d + 1) + LeapCheck(y, m)
                - BaseDate
      BY <1>1, <2>2, InRange
    <3> QED
      BY <1>1, <1>2, <1>3, <3>1 DEF BaseDate
  <2> QED
    BY <1>1, <1>4, <2>1, <2>2, <2>3
       DEF CalendarInv, CalendarTypeOK, DaysAreConsecutive
<1>6. CASE NextMonth
  <2>1. /\ date' = [year |-> y, month |-> m + 1, day |-> 1]
        /\ day' = day + 1 /\ era' = era /\ d = DaysIn(y, m) /\ m < 12
    BY <1>1, <1>6 DEF NextMonth, Date, y, m, d
  <2>2. m \in 1..11 /\ m + 1 \in Month
    BY <1>1, <2>1 DEF Month
  <2>3. YearMonthDayToJulian(y, m + 1, 1) = day + 1
    <3>1. YearMonthDayToJulian(y, m + 1, 1)
            = y * 365 + LeapDays(y) + NDAY[m + 1] + 1 + LeapCheck(y, m + 1)
                - BaseDate
      BY <1>1, <2>2, InRange
    <3>2. NDAY[m + 1] + LeapCheck(y, m + 1) = NDAY[m] + LeapCheck(y, m) + d
      BY <1>1, <2>1, <2>2, MonthGrows
    <3>3. NDAY[m + 1] \in Int /\ LeapCheck(y, m + 1) \in Int
      <4>1. NDAY[m + 1] \in Int
        BY <2>2 DEF NDAY, Month
      <4>2. LeapCheck(y, m + 1) \in Int
        BY <1>1, <2>2, LeapCheckOf
      <4> QED
        BY <4>1, <4>2
    <3> QED
      BY <1>1, <1>2, <1>3, <3>1, <3>2, <3>3 DEF BaseDate
  <2>4. DaysIn(y, m + 1) \in 28..31
    BY <1>1, <2>2, MonthHasDays
  <2> QED
    BY <1>1, <2>1, <2>2, <2>3, <2>4
       DEF CalendarInv, CalendarTypeOK, DaysAreConsecutive
<1>7. CASE NextYear
  <2>1. /\ date' = [year |-> y + 1, month |-> 1, day |-> 1]
        /\ day' = day + 1 /\ era' = era /\ d = DaysIn(y, m) /\ m = 12
    BY <1>1, <1>7 DEF NextYear, Date, y, m, d
  <2>2. y + 1 \in Nat /\ y + 1 > 4 /\ 1 \in Month
    BY <1>1 DEF Month
  <2>3. YearMonthDayToJulian(y + 1, 1, 1) = day + 1
    <3>1. YearMonthDayToJulian(y + 1, 1, 1)
            = YearMonthDayToJulian(y, 1, 1) + 365
                + (IF IsLeapYear(y) THEN 1 ELSE 0)
      BY <1>1, YearGrows DEF YearStart
    <3>2. YearMonthDayToJulian(y, 1, 1)
            = y * 365 + LeapDays(y) + NDAY[1] + 1 + LeapCheck(y, 1) - BaseDate
      BY <1>1, <2>2, InRange
    <3>3. /\ LeapCheck(y, 1) = 0 /\ d = 31
          /\ LeapCheck(y, m) = IF IsLeapYear(y) THEN 1 ELSE 0
      <4>1. LeapCheck(y, 1) = 0
        BY <1>1, <2>2, LeapCheckOf
      <4>2. LeapCheck(y, m) = IF IsLeapYear(y) THEN 1 ELSE 0
        BY <1>1, <2>1, LeapCheckOf
      <4>3. d = 31
        BY <1>1, <2>1 DEF DaysIn
      <4> QED
        BY <4>1, <4>2, <4>3
    <3> QED
      BY <1>1, <1>2, <1>3, <2>1, <3>1, <3>2, <3>3, DaysOfMonths DEF BaseDate
  <2>4. DaysIn(y + 1, 1) \in 28..31
    BY <2>2, MonthHasDays
  <2> QED
    BY <1>1, <2>1, <2>2, <2>3, <2>4
       DEF CalendarInv, CalendarTypeOK, DaysAreConsecutive
<1>8. CASE UNCHANGED vars
  BY <1>8 DEF vars, CalendarInv, CalendarTypeOK, DaysAreConsecutive
<1> QED
  BY <1>5, <1>6, <1>7, <1>8 DEF Next

(* Every day of every year from the first ones on gets the number of the   *)
(* day before and one more: year_month_day_to_julian knows the length of   *)
(* every month and year.                                                   *)
THEOREM CalendarIsRight == Spec => []DaysAreConsecutive
<1>1. CalendarInv => DaysAreConsecutive
  BY DEF CalendarInv
<1> QED
  BY <1>1, CalendarInit, CalendarStep, PTL DEF Spec

-----------------------------------------------------------------------------
(* Months outside of 1..12.                                                *)

(* A month outside of 1..12 is carried into the year. *)
LEMMA CarryBack ==
    ASSUME NEW m \in Month, NEW k \in Int, NEW y \in Int
    PROVE  CarryMonth(m + 12 * k) = m /\ CarryYear(y, m + 12 * k) = y + k
<1> DEFINE a == m + 12 * k
<1>1. a \in Int /\ m \in 1..12
  BY DEF Month
<1>2. CASE a >= 0
  <2>1. Quot(a, 12) = IF m = 12 THEN k + 1 ELSE k
    <3>1. a \div 12 = IF m = 12 THEN k + 1 ELSE k
      BY <1>1
    <3> QED
      BY <1>2, <3>1 DEF Quot
  <2>2. a \in Month <=> k = 0
    BY <1>1, <1>2 DEF Month
  <2> QED
    BY <1>1, <2>1, <2>2 DEF CarryMonth, CarryYear, Month
<1>3. CASE a < 0
  <2>1. Quot(a, 12) = k + 1
    <3>1. (-a) \div 12 = -(k + 1)
      BY <1>1, <1>3
    <3> QED
      BY <1>1, <1>3, <3>1 DEF Quot
  <2>2. a \notin Month /\ k < 0
    BY <1>1, <1>3 DEF Month
  <2>3. a - 12 * Quot(a, 12) = m - 12
    BY <1>1, <2>1
  <2> QED
    BY <1>1, <2>1, <2>2, <2>3 DEF CarryMonth, CarryYear, Month
<1> QED
  BY <1>1, <1>2, <1>3

(* Twelve months more are a year more, forwards and backwards.             *)
THEOREM MonthsAlwaysCarry == Spec => []MonthsCarry
<1>1. CalendarInv => MonthsCarry
  <2> SUFFICES ASSUME CalendarInv, NEW k \in -3..3
               PROVE  YearMonthDayToJulian(date.year, date.month + 12 * k, date.day)
                        = YearMonthDayToJulian(date.year + k, date.month, date.day)
    BY DEF MonthsCarry
  <2>1. date.month \in Month /\ date.year \in Int /\ k \in Int
    BY DEF CalendarInv, CalendarTypeOK
  <2>2. /\ CarryMonth(date.month + 12 * k) = date.month
        /\ CarryYear(date.year, date.month + 12 * k) = date.year + k
    BY <2>1, CarryBack
  <2>3. /\ CarryMonth(date.month) = date.month
        /\ CarryYear(date.year + k, date.month) = date.year + k
    BY <2>1 DEF CarryMonth, CarryYear
  <2> QED
    BY <2>2, <2>3, Zenon DEF YearMonthDayToJulian
<1> QED
  BY <1>1, CalendarInit, CalendarStep, PTL DEF Spec

-----------------------------------------------------------------------------
(* The inverse.                                                            *)

\* The estimate of the year is rounded towards zero.
LEMMA EstimateBounds ==
    ASSUME NEW julian \in Int, julian + BaseDate > 0
    PROVE  /\ YearEstimate(julian) \in Int
           /\ 146097 * YearEstimate(julian) <= 400 * (julian + BaseDate)
           /\ 400 * (julian + BaseDate) < 146097 * (YearEstimate(julian) + 1)
<1> DEFINE days == julian + BaseDate
           q == days \div 146097
           r == days % 146097
           s == (r * 400) \div 146097
<1>1. days \in Int /\ days >= 0
  BY DEF BaseDate
<1> HIDE DEF days
<1>2. q \in Int /\ r \in Int /\ days = 146097 * q + r /\ 0 <= r /\ r < 146097
  BY <1>1
<1> HIDE DEF q, r
<1>3. s \in Int /\ 146097 * s <= r * 400 /\ r * 400 < 146097 * (s + 1)
  BY <1>2
<1>4. YearEstimate(julian) = 400 * q + s
  BY <1>1 DEF YearEstimate, days, q, r
<1> HIDE DEF s
<1> QED
  BY <1>2, <1>3, <1>4 DEF days

\* Where a year begins, and that it begins before the next one.
LEMMA YearStartOf ==
    ASSUME NEW y \in Nat
    PROVE  /\ LeapDays(y) \in Int
           /\ YearStart(y) = y * 365 + LeapDays(y) + 1 - BaseDate
<1>1. 1 \in Month
  BY DEF Month
<1>2. LeapCheck(y, 1) = 0
  BY <1>1, LeapCheckOf
<1>3. LeapDays(y) \in Int
  <2>1. CASE y > 4
    BY <2>1, LeapDaysOfYear
  <2>2. CASE y > 0 /\ ~ y > 4
    BY <2>2 DEF LeapDays
  <2>3. CASE y = 0
    <3>1. Leaps(y + 1) \in Int
      BY <2>3 DEF Leaps, Quot
    <3> QED
      BY <2>3, <3>1 DEF LeapDays
  <2> QED
    BY <2>1, <2>2, <2>3
<1>4. YearStart(y) = y * 365 + LeapDays(y) + NDAY[1] + 1 + LeapCheck(y, 1)
                       - BaseDate
  BY <1>1, InRange DEF YearStart
<1> QED
  BY <1>2, <1>3, <1>4, DaysOfMonths DEF BaseDate

\* Within a year the estimate is that year or one of its neighbours.
LEMMA EstimateIsNear ==
    ASSUME NEW y \in Nat, y > 4, NEW n \in 0..365
    PROVE  YearEstimate(YearStart(y) + n) \in (y - 1)..(y + 1)
<1> DEFINE julian == YearStart(y) + n
           a == y - 1
<1>1. LeapDays(y) = a \div 4 + a \div 400 - a \div 100
  BY LeapDaysOfYear
<1>2. LeapDays(y) \in Int /\ julian = y * 365 + LeapDays(y) + 1 - BaseDate + n
  BY YearStartOf
<1>3. 97 * a - 699 <= 400 * LeapDays(y) /\ 400 * LeapDays(y) <= 97 * a + 396
  BY <1>1
<1>4. julian \in Int /\ julian + BaseDate = y * 365 + LeapDays(y) + 1 + n
  BY <1>2 DEF BaseDate
<1>5. LeapDays(y) >= 0
  <2>1. 400 * LeapDays(y) >= -311
    BY <1>2, <1>3
  <2>2. \A l \in Int : 400 * l >= -311 => l >= 0
    OBVIOUS
  <2> QED
    BY <1>2, <2>1, <2>2
<1>6. julian + BaseDate > 0
  BY <1>2, <1>4, <1>5
<1> HIDE DEF julian
<1>7. /\ YearEstimate(julian) \in Int
      /\ 146097 * YearEstimate(julian) <= 400 * (julian + BaseDate)
      /\ 400 * (julian + BaseDate) < 146097 * (YearEstimate(julian) + 1)
  BY <1>4, <1>6, EstimateBounds
<1>8. YearEstimate(julian) \in (y - 1)..(y + 1)
  BY <1>2, <1>3, <1>4, <1>7
<1> QED
  BY <1>8 DEF julian

\* The search for the year ends at the year of the day.
LEMMA YearIsFound ==
    ASSUME NEW y \in Nat, y > 4, NEW n \in 0..365,
           n < 365 + (IF IsLeapYear(y) THEN 1 ELSE 0)
    PROVE  YearOf(YearStart(y) + n) = y
<1> DEFINE julian == YearStart(y) + n
           e == YearEstimate(julian)
           Later(k) == YearStart(e + k) > julian
<1>1. e \in (y - 1)..(y + 1)
  BY EstimateIsNear
<1>2. YearStart(y) \in Int /\ YearStart(y) <= julian /\ julian \in Int
  BY YearStartOf DEF BaseDate
<1>3. YearStart(y + 1) > julian /\ YearStart(y + 1) \in Int
  BY <1>2, YearGrows
<1>4. YearStart(y - 1) <= julian /\ YearStart(y - 1) \in Int
  <2>1. CASE y = 5
    <3>1. YearStart(4) = 4 * 365 + LeapDays(4) + 1 - BaseDate
      BY YearStartOf
    <3>2. LeapDays(4) = 1
      BY DEF LeapDays
    <3>3. YearStart(5) = 5 * 365 + LeapDays(5) + 1 - BaseDate
      BY YearStartOf
    <3>4. LeapDays(5) = 1
      <4>1. LeapDays(5) = 4 \div 4 + 4 \div 400 - 4 \div 100
        BY LeapDaysOfYear
      <4> QED
        BY <4>1
    <3> QED
      BY <1>2, <2>1, <3>1, <3>2, <3>3, <3>4 DEF BaseDate
  <2>2. CASE y > 5
    <3>1. y - 1 \in Nat /\ y - 1 > 4 /\ (y - 1) + 1 = y
      BY <2>2
    <3>2. YearStart(y) = YearStart(y - 1) + 365
                           + (IF IsLeapYear(y - 1) THEN 1 ELSE 0)
      BY <3>1, YearGrows
    <3>3. YearStart(y - 1) \in Int
      BY <3>1, YearStartOf DEF BaseDate
    <3> QED
      BY <1>2, <3>2, <3>3
  <2> QED
    BY <2>1, <2>2
<1> DEFINE k == (y + 1) - e
<1> HIDE DEF julian, e
<1>5. k \in 0..2 /\ e + k = y + 1 /\ e > 0 /\ e \in Int
  BY <1>1
<1>6. Later(k)
  BY <1>3, <1>5
<1>7. \A j \in 0..(k - 1) : ~ Later(j)
  <2> TAKE j \in 0..(k - 1)
  <2>1. e + j = y - 1 \/ e + j = y
    BY <1>1, <1>5
  <2> QED
    BY <1>2, <1>4, <2>1
<1> DEFINE First(i) == Later(i) /\ \A j \in 0..(i - 1) : ~ Later(j)
<1> HIDE DEF Later, k
<1>8. FirstAfter(e, julian) = e + k
  <2>1. \A i \in 0..99 : First(i) => i = k
    BY <1>5, <1>6, <1>7
  <2>2. k \in 0..99 /\ First(k)
    BY <1>5, <1>6, <1>7
  <2>3. (CHOOSE i \in 0..99 : First(i)) = k
    BY <2>1, <2>2
  <2>4. \E i \in 0..99 : Later(i)
    BY <1>6, <2>2
  <2>5. FirstAfter(e, julian)
          = IF \E i \in 0..99 : Later(i)
            THEN e + CHOOSE i \in 0..99 : First(i) ELSE e + 100
    BY Zenon DEF FirstAfter, Later
  <2> QED
    BY <2>3, <2>4, <2>5
<1>9. YearOf(julian) = y
  <2>1. YearOf(julian) = FirstAfter(e, julian) - 1
    BY <1>5, Zenon DEF YearOf, e
  <2> QED
    BY <1>5, <1>8, <2>1
<1> QED
  BY <1>9 DEF julian

\* The search for the month ends at the month of the day.
LEMMA MonthIsFound ==
    ASSUME NEW y \in Nat, y > 4, NEW m \in Month, NEW d \in 1..DaysIn(y, m)
    PROVE  MonthOf(y, YearMonthDayToJulian(y, m, d)) = m
<1> DEFINE julian == YearMonthDayToJulian(y, m, d)
           before(i) == NDAY[i] + LeapCheck(y, i)
           n == before(m) + d - 1
           first == FirstMonth(y, julian)
           Later(i) == YearMonthDayToJulian(y, i, 1) > julian
<1>1. /\ m \in 1..12 /\ DaysIn(y, m) \in 28..31 /\ d \in Int
      /\ LeapDays(y) \in Int /\ YearStart(y) = y * 365 + LeapDays(y) + 1 - BaseDate
  <2>1. DaysIn(y, m) \in 28..31
    BY MonthHasDays
  <2> QED
    BY <2>1, YearStartOf DEF Month
<1>2. \A i \in 1..12 : /\ before(i) \in Int
                      /\ YearMonthDayToJulian(y, i, 1) = YearStart(y) + before(i)
  <2> TAKE i \in 1..12
  <2>1. /\ NDAY[i] \in Int
        /\ LeapCheck(y, i) = IF IsLeapYear(y) /\ i > 2 THEN 1 ELSE 0
    BY LeapCheckOf DEF NDAY, Month
  <2>2. YearMonthDayToJulian(y, i, 1)
          = y * 365 + LeapDays(y) + NDAY[i] + 1 + LeapCheck(y, i) - BaseDate
    BY InRange DEF Month
  <2> QED
    BY <1>1, <2>1, <2>2 DEF BaseDate
<1>3. julian = YearStart(y) + n /\ YearStart(y) \in Int /\ n \in Int
  <2>1. julian = y * 365 + LeapDays(y) + NDAY[m] + d + LeapCheck(y, m) - BaseDate
    BY <1>1, InRange
  <2>2. before(m) \in Int /\ NDAY[m] \in Int /\ LeapCheck(y, m) \in Int
    <3>1. LeapCheck(y, m) = IF IsLeapYear(y) /\ m > 2 THEN 1 ELSE 0
      BY LeapCheckOf
    <3> QED
      BY <1>1, <3>1 DEF NDAY
  <2> QED
    BY <1>1, <2>1, <2>2 DEF BaseDate
<1>4. \A i \in 1..11 : before(i + 1) = before(i) + DaysIn(y, i)
  BY MonthGrows
<1>5. \A i \in 1..12 : DaysIn(y, i) \in 28..31
  BY MonthHasDays DEF Month
<1>6. before(1) = 0
  <2>1. LeapCheck(y, 1) = 0
    BY LeapCheckOf DEF Month
  <2> QED
    BY <2>1, DaysOfMonths
<1> HIDE DEF before, julian, n
<1>7. /\ \A i \in 1..m : before(i) <= n
      /\ m < 12 => before(m + 1) > n
  <2>1. before(m) <= n
    BY <1>1, <1>2 DEF n
  <2>2. \A i \in 1..11 : before(i + 1) > before(i)
    BY <1>2, <1>4, <1>5
  <2>3. \A i, j \in 1..12 : i <= j => before(i) <= before(j)
    <3>1. /\ before(1) < before(2) /\ before(2) < before(3) /\ before(3) < before(4)
          /\ before(4) < before(5) /\ before(5) < before(6) /\ before(6) < before(7)
          /\ before(7) < before(8) /\ before(8) < before(9) /\ before(9) < before(10)
          /\ before(10) < before(11) /\ before(11) < before(12)
      BY <2>2
    <3> QED
      BY <1>2, <3>1
  <2>4. m < 12 => before(m + 1) > n
    BY <1>1, <1>2, <1>4 DEF n
  <2> QED
    BY <1>1, <1>2, <1>3, <2>1, <2>3, <2>4
<1>8. n >= 0 /\ (m < 12 => n < 28 * (m + 1))
  <2>1. n >= 0
    BY <1>1, <1>6, <1>7
  <2>2. \A i \in 1..12 : LeapCheck(y, i) \in 0..1
    BY LeapCheckOf DEF Month
  <2>3. m < 12 => before(m + 1) <= 28 * (m + 1)
    BY <1>1, <2>2, DaysOfMonths DEF before
  <2> QED
    BY <1>1, <1>2, <1>3, <1>7, <2>1, <2>3
<1>9. first \in 1..12 /\ first <= m + 1
  <2> DEFINE passed == Quot(julian - YearStart(y) + 28, 28)
  <2>1. julian - YearStart(y) + 28 = n + 28
    BY <1>3
  <2>2. passed = (n + 28) \div 28
    BY <1>3, <1>8, <2>1 DEF Quot
  <2>3. passed \in Int /\ passed >= 1 /\ (m < 12 => passed <= m + 1)
    BY <1>1, <1>3, <1>8, <2>2
  <2>4. first = IF passed > 12 THEN 12 ELSE passed
    BY Zenon DEF FirstMonth
  <2> HIDE DEF passed
  <2> QED
    BY <1>1, <2>3, <2>4
<1>10. \A i \in 1..12 : Later(i) <=> before(i) > n
  BY <1>2, <1>3
<1> DEFINE month == IF \E i \in first..12 : Later(i)
                    THEN (CHOOSE i \in first..12 :
                             Later(i) /\ \A j \in first..(i - 1) : ~ Later(j)) - 1
                    ELSE 12
<1>11. MonthOf(y, julian) = IF month < 1 THEN 1 ELSE month
  BY Zenon DEF MonthOf
<1> HIDE DEF first, Later
<1>12. month = m
  <2>1. CASE m = 12
    <3>1. ~ \E i \in first..12 : Later(i)
      BY <1>2, <1>3, <1>7, <1>9, <1>10, <2>1
    <3> QED
      BY <2>1, <3>1
  <2>2. CASE m < 12
    <3> DEFINE First(i) == Later(i) /\ \A j \in first..(i - 1) : ~ Later(j)
    <3>1. m + 1 \in first..12 /\ Later(m + 1)
      BY <1>1, <1>7, <1>9, <1>10, <2>2
    <3>2. \A j \in first..m : ~ Later(j)
      BY <1>1, <1>2, <1>3, <1>7, <1>9, <1>10
    <3>3. \A i \in first..12 : First(i) => i = m + 1
      BY <1>1, <1>9, <3>1, <3>2
    <3>4. First(m + 1)
      BY <1>1, <1>9, <3>1, <3>2
    <3> DEFINE found == CHOOSE i \in first..12 : First(i)
    <3>5. found = m + 1
      BY <3>1, <3>3, <3>4
    <3>6. \E i \in first..12 : Later(i)
      BY <3>1
    <3>7. month = found - 1
      BY <3>6
    <3> HIDE DEF found, month
    <3> QED
      BY <1>1, <3>5, <3>7
  <2> QED
    BY <1>1, <2>1, <2>2
<1> HIDE DEF month
<1> QED
  BY <1>1, <1>11, <1>12 DEF julian

(* julian_to_year_month_day gives the date from which a day number is made. *)
LEMMA InverseOf ==
    ASSUME NEW y \in Nat, y > 4, NEW m \in Month, NEW d \in 1..DaysIn(y, m)
    PROVE  JulianToYearMonthDay(YearMonthDayToJulian(y, m, d)) = Date(y, m, d)
<1> DEFINE n == NDAY[m] + LeapCheck(y, m) + d - 1
           julian == YearMonthDayToJulian(y, m, d)
<1>1. /\ DaysIn(y, m) = IF m \in {4, 6, 9, 11} THEN 30 ELSE IF m # 2 THEN 31
                        ELSE IF IsLeapYear(y) THEN 29 ELSE 28
      /\ d \in 1..31
  BY DaysInMonth
<1>2. LeapCheck(y, m) = IF IsLeapYear(y) /\ m > 2 THEN 1 ELSE 0
  BY LeapCheckOf
<1>3. n \in 0..365 /\ n < 365 + (IF IsLeapYear(y) THEN 1 ELSE 0)
  <2>1. \/ m = 1 \/ m = 2 \/ m = 3 \/ m = 4 \/ m = 5 \/ m = 6 \/ m = 7
        \/ m = 8 \/ m = 9 \/ m = 10 \/ m = 11 \/ m = 12
    BY DEF Month
  <2> QED
    BY <1>1, <1>2, <2>1, DaysOfMonths
<1>4. /\ julian = y * 365 + LeapDays(y) + NDAY[m] + d + LeapCheck(y, m) - BaseDate
      /\ YearMonthDayToJulian(y, m, 1) = y * 365 + LeapDays(y) + NDAY[m] + 1
                                            + LeapCheck(y, m) - BaseDate
      /\ YearStart(y) = y * 365 + LeapDays(y) + 1 - BaseDate
      /\ LeapDays(y) \in Int
  BY <1>1, InRange, YearStartOf
<1>5. NDAY[m] \in Int /\ LeapCheck(y, m) \in Int
  BY <1>2 DEF NDAY, Month
<1> HIDE DEF julian
<1>6. julian = YearStart(y) + n /\ julian - YearMonthDayToJulian(y, m, 1) + 1 = d
  BY <1>1, <1>4, <1>5 DEF BaseDate
<1> HIDE DEF n
<1>7. YearOf(julian) = y
  BY <1>3, <1>6, YearIsFound
<1>8. MonthOf(y, julian) = m
  BY MonthIsFound DEF julian
<1>9. JulianToYearMonthDay(julian)
        = [year |-> y, month |-> m,
           day |-> julian - YearMonthDayToJulian(y, m, 1) + 1]
  BY <1>7, <1>8, Zenon DEF JulianToYearMonthDay, Date
<1> QED
  BY <1>6, <1>9 DEF Date, julian

(* The two searches of julian_to_year_month_day begin early enough and end *)
(* at the year and month of the day, from the year 5 on and however late   *)
(* the day is.                                                             *)
THEOREM InverseIsAlwaysExact == Spec => []InverseIsExact
<1>1. CalendarInv => InverseIsExact
  <2> SUFFICES ASSUME CalendarInv PROVE InverseIsExact
    OBVIOUS
  <2>1. /\ date.year \in Nat /\ date.year > 4 /\ date.month \in Month
        /\ date.day \in 1..31 /\ date.day <= DaysIn(date.year, date.month)
        /\ date = Date(date.year, date.month, date.day)
    BY DEF CalendarInv, CalendarTypeOK, Date
  <2>2. date.day \in 1..DaysIn(date.year, date.month)
    BY <2>1, MonthHasDays
  <2>3. YearMonthDayToJulian(date.year, date.month, date.day) = day
    BY DEF CalendarInv, DaysAreConsecutive
  <2> QED
    BY <2>1, <2>2, <2>3, InverseOf DEF InverseIsExact
<1> QED
  BY <1>1, CalendarInit, CalendarStep, PTL DEF Spec

-----------------------------------------------------------------------------
(* The first days of the months.                                           *)

\* The first day of the c-th month, counted from January of the year 0, and
\* its length.
MonthStart(c) == YearMonthDayToJulian(c \div 12, (c % 12) + 1, 1)
MonthDays(c) == DaysIn(c \div 12, (c % 12) + 1)

\* The first months of blocks.
Grid(months) == {c \in Nat : c >= 60 /\ c % months = 0}

(* Each month begins when the one before is over. *)
LEMMA MonthStartGrows ==
    ASSUME NEW c \in Nat, c >= 60
    PROVE  /\ MonthStart(c) \in Int
           /\ MonthDays(c) \in 28..31
           /\ MonthStart(c + 1) = MonthStart(c) + MonthDays(c)
<1> DEFINE y == c \div 12
           m == (c % 12) + 1
<1>1. y \in Nat /\ y > 4 /\ m \in Month /\ c = 12 * y + m - 1
  BY DEF Month
<1>2. MonthStart(c) = YearMonthDayToJulian(y, m, 1) /\ MonthDays(c) = DaysIn(y, m)
  BY DEF MonthStart, MonthDays
<1>3. MonthStart(c + 1) = IF m < 12 THEN YearMonthDayToJulian(y, m + 1, 1)
                          ELSE YearStart(y + 1)
  <2>1. CASE m < 12
    <3>1. (c + 1) \div 12 = y /\ (c + 1) % 12 = m
      BY <1>1, <2>1 DEF Month
    <3> QED
      BY <2>1, <3>1 DEF MonthStart
  <2>2. CASE ~ m < 12
    <3>1. (c + 1) \div 12 = y + 1 /\ (c + 1) % 12 = 0
      BY <1>1, <2>2 DEF Month
    <3> QED
      BY <2>2, <3>1 DEF MonthStart, YearStart
  <2> QED
    BY <2>1, <2>2
<1> HIDE DEF y, m
<1>4. DaysIn(y, m) \in 28..31
  BY <1>1, MonthHasDays
<1>5. /\ YearMonthDayToJulian(y, m, 1) = y * 365 + LeapDays(y) + NDAY[m] + 1
                                            + LeapCheck(y, m) - BaseDate
      /\ YearStart(y) = y * 365 + LeapDays(y) + 1 - BaseDate
      /\ LeapDays(y) \in Int
  BY <1>1, InRange, YearStartOf
<1>6. LeapCheck(y, m) = IF IsLeapYear(y) /\ m > 2 THEN 1 ELSE 0
  BY <1>1, LeapCheckOf
<1>7. NDAY[m] \in Int /\ LeapCheck(y, m) \in Int
  BY <1>1, <1>6 DEF NDAY, Month
<1>8. YearMonthDayToJulian(y, m, 1) \in Int
  BY <1>1, <1>5, <1>7 DEF BaseDate
<1>9. CASE m < 12
  <2>1. m \in 1..11 /\ m + 1 \in Month
    BY <1>1, <1>9 DEF Month
  <2>2. YearMonthDayToJulian(y, m + 1, 1)
          = y * 365 + LeapDays(y) + NDAY[m + 1] + 1 + LeapCheck(y, m + 1) - BaseDate
    BY <1>1, <2>1, InRange
  <2>3. NDAY[m + 1] + LeapCheck(y, m + 1) = NDAY[m] + LeapCheck(y, m) + DaysIn(y, m)
    BY <1>1, <2>1, MonthGrows
  <2>4. NDAY[m + 1] \in Int /\ LeapCheck(y, m + 1) \in Int
    BY <1>1, <2>1, LeapCheckOf DEF NDAY, Month
  <2> QED
    BY <1>1, <1>2, <1>3, <1>4, <1>5, <1>7, <1>8, <1>9, <2>2, <2>3, <2>4 DEF BaseDate
<1>10. CASE ~ m < 12
  <2>1. m = 12
    BY <1>1, <1>10 DEF Month
  <2>2. YearStart(y + 1) = YearStart(y) + 365 + (IF IsLeapYear(y) THEN 1 ELSE 0)
    BY <1>1, YearGrows
  <2>3. DaysIn(y, m) = 31 /\ NDAY[m] = 334
    BY <2>1, DaysOfMonths DEF DaysIn
  <2> QED
    BY <1>1, <1>2, <1>3, <1>4, <1>5, <1>6, <1>8, <1>10, <2>1, <2>2, <2>3 DEF BaseDate
<1> QED
  BY <1>9, <1>10

(* A set of naturals that has 0 and with each number the next has them all. *)
LEMMA NaturalsInSet ==
    ASSUME NEW S, 0 \in S, \A n \in Nat : n \in S => n + 1 \in S
    PROVE  Nat \subseteq S
<1> SUFFICES ASSUME Nat \ S # {} PROVE FALSE
  OBVIOUS
<1> DEFINE Less == {ss \in Nat \X Nat : ss[1] < ss[2]}
<1>1. IsWellFoundedOn(Less, Nat)
  BY NatLessThanWellFounded DEF OpToRel
<1>2. \A x, y \in Nat : <<y, x>> \in Less <=> y < x
  OBVIOUS
<1> HIDE DEF Less
<1>3. PICK x \in Nat \ S : \A y \in Nat \ S : ~ (<<y, x>> \in Less)
  BY <1>1, WFMin
<1>4. x # 0 /\ x - 1 \in Nat /\ x - 1 < x /\ (x - 1) + 1 = x
  BY <1>3
<1>5. x - 1 \in S
  BY <1>2, <1>3, <1>4
<1> QED
  BY <1>3, <1>4, <1>5

(* A later month begins at least 28 days later for each month between. *)
LEMMA MonthStartsApart ==
    ASSUME NEW c \in Nat, c >= 60, NEW k \in Nat
    PROVE  /\ MonthStart(c) + 28 * k <= MonthStart(c + k)
           /\ MonthStart(c + k) <= MonthStart(c) + 31 * k
<1> DEFINE S == {n \in Nat : /\ MonthStart(c) + 28 * n <= MonthStart(c + n)
                            /\ MonthStart(c + n) <= MonthStart(c) + 31 * n}
<1>1. MonthStart(c) \in Int
  BY MonthStartGrows
<1>2. 0 \in S
  <2>1. c + 0 = c
    OBVIOUS
  <2> QED
    BY <1>1, <2>1
<1>3. ASSUME NEW n \in Nat, n \in S PROVE n + 1 \in S
  <2> DEFINE x == c + n
  <2>1. x \in Nat /\ x >= 60 /\ c + (n + 1) = x + 1
    OBVIOUS
  <2>2. /\ MonthStart(x) \in Int /\ MonthDays(x) \in 28..31
        /\ MonthStart(x + 1) = MonthStart(x) + MonthDays(x)
    BY <2>1, MonthStartGrows
  <2>3. MonthStart(c) + 28 * n <= MonthStart(x) /\ MonthStart(x) <= MonthStart(c) + 31 * n
    BY <1>3
  <2> HIDE DEF x
  <2> QED
    BY <1>1, <2>1, <2>2, <2>3
<1> HIDE DEF S
<1>4. Nat \subseteq S
  BY <1>2, <1>3, NaturalsInSet
<1> QED
  BY <1>4 DEF S

(* Of two months the one that begins later is the later one. *)
LEMMA MonthsInOrder ==
    ASSUME NEW c \in Nat, c >= 60, NEW x \in Nat, x >= 60
    PROVE  /\ MonthStart(c) \in Int /\ MonthStart(x) \in Int
           /\ c < x <=> MonthStart(c) < MonthStart(x)
           /\ c = x <=> MonthStart(c) = MonthStart(x)
<1>1. MonthStart(c) \in Int /\ MonthStart(x) \in Int
  BY MonthStartGrows
<1>2. CASE c < x
  <2>1. x - c \in Nat /\ c + (x - c) = x
    BY <1>2
  <2>2. MonthStart(c) + 28 * (x - c) <= MonthStart(x)
    BY <2>1, MonthStartsApart
  <2> QED
    BY <1>1, <1>2, <2>2
<1>3. CASE x < c
  <2>1. c - x \in Nat /\ x + (c - x) = c
    BY <1>3
  <2>2. MonthStart(x) + 28 * (c - x) <= MonthStart(c)
    BY <2>1, MonthStartsApart
  <2> QED
    BY <1>1, <1>3, <2>2
<1> QED
  BY <1>1, <1>2, <1>3

(* Every day from the year 5 on is in a month. *)
LEMMA DayInMonth ==
    ASSUME NEW julian \in Int, julian >= YearStart(5)
    PROVE  \E c \in Nat : c >= 60 /\ MonthStart(c) <= julian /\ julian < MonthStart(c + 1)
<1>1. MonthStart(60) = YearStart(5)
  <2>1. 60 \div 12 = 5 /\ 60 % 12 = 0
    OBVIOUS
  <2> QED
    BY <2>1 DEF MonthStart, YearStart
<1> DEFINE S == {k \in Nat : MonthStart(60 + k) <= julian}
<1> SUFFICES ASSUME \A c \in Nat : c >= 60 /\ MonthStart(c) <= julian
                                     => ~ julian < MonthStart(c + 1)
             PROVE  FALSE
  OBVIOUS
<1>2. 0 \in S
  <2>1. 60 + 0 = 60
    OBVIOUS
  <2> QED
    BY <1>1, <2>1
<1>3. ASSUME NEW k \in Nat, k \in S PROVE k + 1 \in S
  <2>1. 60 + k \in Nat /\ 60 + k >= 60 /\ 60 + (k + 1) = (60 + k) + 1
    OBVIOUS
  <2>2. MonthStart((60 + k) + 1) \in Int
    <3>1. (60 + k) + 1 \in Nat /\ (60 + k) + 1 >= 60
      OBVIOUS
    <3> QED
      BY <3>1, MonthStartGrows
  <2>3. MonthStart(60 + k) <= julian
    BY <1>3
  <2>4. ~ julian < MonthStart((60 + k) + 1)
    BY <2>1, <2>3
  <2> QED
    BY <2>1, <2>2, <2>4
<1>4. Nat \subseteq S
  <2> HIDE DEF S
  <2> QED
    BY <1>2, <1>3, NaturalsInSet
<1> DEFINE far == julian - YearStart(5) + 1
<1>5. MonthStart(60) \in Int /\ far \in Nat
  BY <1>1, MonthStartGrows
<1>6. MonthStart(60) + 28 * far <= MonthStart(60 + far) /\ MonthStart(60 + far) \in Int
  <2> HIDE DEF far
  <2>1. 60 + far \in Nat /\ 60 + far >= 60
    BY <1>5
  <2> QED
    BY <1>5, <2>1, MonthStartsApart, MonthStartGrows
<1>7. MonthStart(60 + far) <= julian
  BY <1>4, <1>5
<1> QED
  BY <1>1, <1>5, <1>6, <1>7

(* The date of a day in a month. *)
LEMMA MonthOfDay ==
    ASSUME NEW c \in Nat, c >= 60, NEW julian \in Int,
           MonthStart(c) <= julian, julian < MonthStart(c + 1)
    PROVE  JulianToYearMonthDay(julian)
             = Date(c \div 12, (c % 12) + 1, julian - MonthStart(c) + 1)
<1> DEFINE y == c \div 12
           m == (c % 12) + 1
           d == julian - MonthStart(c) + 1
<1>1. y \in Nat /\ y > 4 /\ m \in Month
  BY DEF Month
<1>2. /\ MonthStart(c) \in Int
      /\ MonthStart(c + 1) = MonthStart(c) + DaysIn(y, m)
      /\ DaysIn(y, m) \in 28..31
  BY MonthStartGrows DEF MonthDays
<1>3. d \in 1..DaysIn(y, m)
  BY <1>2
<1>4. YearMonthDayToJulian(y, m, d) = julian
  <2>1. MonthStart(c) = YearMonthDayToJulian(y, m, 1)
    BY DEF MonthStart
  <2> DEFINE x == y * 365 + LeapDays(y)
  <2>2. /\ YearMonthDayToJulian(y, m, d) = x + NDAY[m] + d + LeapCheck(y, m) - BaseDate
        /\ YearMonthDayToJulian(y, m, 1) = x + NDAY[m] + 1 + LeapCheck(y, m) - BaseDate
    BY <1>1, <1>2, InRange
  <2>3. x \in Int
    BY <1>1, YearStartOf
  <2>4. NDAY[m] \in Int /\ LeapCheck(y, m) \in Int
    BY <1>1, LeapCheckOf DEF NDAY, Month
  <2> HIDE DEF x, y, m
  <2> QED
    BY <1>2, <2>1, <2>2, <2>3, <2>4 DEF BaseDate
<1> HIDE DEF y, m, d
<1>5. JulianToYearMonthDay(YearMonthDayToJulian(y, m, d)) = Date(y, m, d)
  BY <1>1, <1>3, InverseOf
<1> QED
  BY <1>4, <1>5 DEF y, m, d

-----------------------------------------------------------------------------
(* Block starts.                                                           *)

\* Blocks of a month or a year.
Span == {1, 12}

\* The blocks from the one of month c on, up to a day.
Coming(list, c, months, end) ==
    \E n \in Nat : /\ list = [i \in 1..n |-> MonthStart(c + (i - 1) * months)]
                   /\ MonthStart(c + n * months) > end

(* The blocks of a grid are whole spans apart. *)
LEMMA GridSteps ==
    ASSUME NEW months \in Span, NEW c \in Grid(months)
    PROVE  /\ c \in Nat /\ c >= 60
           /\ c + months \in Grid(months)
           /\ \A x \in Grid(months) : c < x => c + months <= x
<1> QED
  BY DEF Span, Grid

(* A block and those that follow it. *)
LEMMA BlockStarts ==
    ASSUME NEW months \in Span, NEW c \in Grid(months), NEW n \in Nat
    PROVE  /\ BlockStart([year |-> c \div 12, month |-> (c % 12) + 1], months, n)
                = MonthStart(c + n * months)
           /\ c + n * months \in Nat /\ c + n * months >= c
<1> DEFINE y == c \div 12
           m == (c % 12) + 1
           k == n * months
<1>1. c \in Nat /\ y \in Nat /\ m \in Nat /\ y * 12 + (m - 1) = c /\ k \in Nat
  BY DEF Grid, Span
<1> HIDE DEF y, m, k
<1>2. AddMonths(y, m, k) = [year |-> (c + k) \div 12, month |-> ((c + k) % 12) + 1]
  <2>1. y * 12 + (m - 1) + k = c + k
    BY <1>1
  <2> QED
    BY <2>1 DEF AddMonths
<1>3. BlockStart([year |-> y, month |-> m], months, n) = MonthStart(c + k)
  BY <1>2 DEF BlockStart, MonthStart, k
<1> QED
  BY <1>1, <1>3 DEF k, y, m

(* The block of a day begins no later than the day and no more than its    *)
(* length before.                                                          *)
LEMMA FirstBlockOf ==
    ASSUME NEW months \in Span, NEW julian \in Int, julian >= YearStart(5)
    PROVE  \E c \in Grid(months) :
               /\ FirstBlock(julian, months)
                     = [year |-> c \div 12, month |-> (c % 12) + 1]
               /\ MonthStart(c) <= julian /\ julian < MonthStart(c + months)
               /\ MonthStart(c) >= julian - 31 * months
<1>1. PICK x \in Nat : x >= 60 /\ MonthStart(x) <= julian /\ julian < MonthStart(x + 1)
  BY DayInMonth
<1>2. JulianToYearMonthDay(julian)
        = [year |-> x \div 12, month |-> (x % 12) + 1, day |-> julian - MonthStart(x) + 1]
  BY <1>1, MonthOfDay DEF Date
<1> DEFINE c == IF months = 1 THEN x ELSE 12 * (x \div 12)
<1>3. /\ c \in Grid(months) /\ c <= x /\ x + 1 <= c + months
      /\ c \div 12 = x \div 12 /\ c % 12 = IF months = 1 THEN x % 12 ELSE 0
  <2>1. CASE months = 1
    <3>1. x % 1 = 0
      BY <1>1
    <3> QED
      BY <1>1, <2>1, <3>1 DEF Grid
  <2>2. CASE months = 12
    <3> DEFINE q == x \div 12
    <3>1. q \in Nat /\ q >= 5 /\ 12 * q <= x /\ x < 12 * q + 12
      BY <1>1
    <3> HIDE DEF q
    <3>2. (12 * q) \div 12 = q /\ (12 * q) % 12 = 0
      BY <3>1
    <3>3. 12 * q >= 60 /\ 12 * q \in Nat /\ x + 1 <= 12 * q + 12
      BY <1>1, <3>1
    <3> QED
      BY <1>1, <2>2, <3>1, <3>2, <3>3 DEF Grid, q
  <2> QED
    BY <2>1, <2>2 DEF Span
<1>4. c \in Nat /\ c >= 60 /\ months \in Nat \ {0} /\ months \in {1, 12}
  BY <1>3 DEF Grid, Span
<1>5. FirstBlock(julian, months) = [year |-> c \div 12, month |-> (c % 12) + 1]
  BY <1>2, <1>3, <1>4 DEF FirstBlock
<1> HIDE DEF c
<1>6. MonthStart(c) <= julian
  BY <1>1, <1>3, <1>4, MonthsInOrder
<1>7. julian < MonthStart(c + months)
  <2>1. /\ x + 1 \in Nat /\ x + 1 >= 60 /\ c + months \in Nat /\ c + months >= 60
        /\ ~ c + months < x + 1
    BY <1>1, <1>3, <1>4
  <2>2. ~ MonthStart(c + months) < MonthStart(x + 1)
        /\ MonthStart(c + months) \in Int /\ MonthStart(x + 1) \in Int
    BY <2>1, MonthsInOrder
  <2> QED
    BY <1>1, <2>2
<1>8. MonthStart(c + months) <= MonthStart(c) + 31 * months
      /\ MonthStart(c) \in Int /\ MonthStart(c + months) \in Int
  <2>1. c + months \in Nat /\ c + months >= 60
    BY <1>4
  <2> QED
    BY <1>4, <2>1, MonthStartsApart, MonthStartGrows
<1>9. MonthStart(c) >= julian - 31 * months
  BY <1>4, <1>7, <1>8
<1> QED
  BY <1>3, <1>5, <1>6, <1>7, <1>9

(* The loop ends, and has gone through all blocks that begin up to the end. *)
LEMMA BlocksAreAll ==
    ASSUME NEW months \in Span, NEW c \in Grid(months), NEW end \in Int
    PROVE  Coming(BlocksUpTo([year |-> c \div 12, month |-> (c % 12) + 1], end, months),
                  c, months, end)
<1> DEFINE first == [year |-> c \div 12, month |-> (c % 12) + 1]
           Start(n) == MonthStart(c + n * months)
           most == end - BlockStart(first, months, 0) + 1
           Count(n) == /\ BlockStart(first, months, n) > end
                       /\ n = 0 \/ BlockStart(first, months, n - 1) <= end
           count == CHOOSE n \in {0} \cup 1..most : Count(n)
<1>1. \A n \in Nat : /\ BlockStart(first, months, n) = Start(n)
                     /\ c + n * months \in Nat /\ c + n * months >= c
  BY BlockStarts
<1>2. c \in Nat /\ c >= 60 /\ months \in Nat \ {0} /\ months \in {1, 12}
  BY DEF Grid, Span
<1>3. \A n \in Nat : Start(n) \in Int /\ Start(0) + n <= Start(n)
  <2> TAKE n \in Nat
  <2> DEFINE k == n * months
  <2>1. k \in Nat /\ k >= n /\ c + 0 * months = c
    BY <1>2
  <2> HIDE DEF k
  <2>2. MonthStart(c) + 28 * k <= MonthStart(c + k) /\ MonthStart(c) \in Int
        /\ MonthStart(c + k) \in Int
    <3>1. c + k \in Nat /\ c + k >= 60
      BY <1>2, <2>1
    <3> QED
      BY <1>2, <2>1, <3>1, MonthStartsApart, MonthStartGrows
  <2>3. MonthStart(c) + n <= MonthStart(c + k)
    BY <2>1, <2>2
  <2> QED
    BY <2>1, <2>2, <2>3 DEF k
<1> HIDE DEF first, Start
<1>4. most = end - Start(0) + 1 /\ most \in Int
  BY <1>1, <1>3
<1>5. \E n \in {0} \cup 1..most : Count(n)
  <2>1. CASE Start(0) > end
    BY <1>1, <2>1
  <2>2. CASE Start(0) <= end
    <3> SUFFICES ASSUME \A n \in 1..most : ~ Count(n) PROVE FALSE
      OBVIOUS
    <3> DEFINE S == {n \in Nat : n <= most => Start(n) <= end}
    <3>1. 0 \in S
      BY <2>2
    <3>2. ASSUME NEW n \in Nat, n \in S PROVE n + 1 \in S
      <4> SUFFICES ASSUME n + 1 <= most PROVE Start(n + 1) <= end
        OBVIOUS
      <4>1. n <= most /\ n + 1 \in 1..most /\ n + 1 \in Nat /\ (n + 1) - 1 = n
        BY <1>4
      <4>2. Start(n) <= end
        BY <3>2, <4>1
      <4>3. ~ Count(n + 1)
        BY <4>1
      <4>4. BlockStart(first, months, (n + 1) - 1) <= end
        BY <1>1, <4>1, <4>2
      <4>5. ~ BlockStart(first, months, n + 1) > end
        BY <4>3, <4>4
      <4>6. BlockStart(first, months, n + 1) = Start(n + 1) /\ Start(n + 1) \in Int
        BY <1>1, <1>3, <4>1
      <4> QED
        BY <4>5, <4>6
    <3> HIDE DEF S
    <3>3. Nat \subseteq S
      BY <3>1, <3>2, NaturalsInSet
    <3>4. most \in Nat
      BY <1>3, <1>4, <2>2
    <3>5. Start(most) <= end
      BY <3>3, <3>4 DEF S
    <3>6. Start(0) + most <= Start(most) /\ Start(most) \in Int /\ Start(0) \in Int
      BY <1>3, <3>4
    <3> QED
      BY <1>4, <3>5, <3>6
  <2> QED
    BY <1>3, <2>1, <2>2
<1>6. count \in {0} \cup 1..most /\ Count(count)
  BY <1>5
<1>7. BlocksUpTo(first, end, months) = [i \in 1..count |-> BlockStart(first, months, i - 1)]
  BY DEF BlocksUpTo
<1>8. BlockStart(first, months, count) > end
  BY <1>6
<1> HIDE DEF count, Count, most
<1>9. count \in Nat
  BY <1>4, <1>6
<1>10. \A i \in 1..count : BlockStart(first, months, i - 1) = Start(i - 1)
  <2> TAKE i \in 1..count
  <2>1. i - 1 \in Nat
    BY <1>9
  <2> QED
    BY <1>1, <2>1
<1>11. BlocksUpTo(first, end, months) = [i \in 1..count |-> Start(i - 1)]
  BY <1>7, <1>10
<1>12. Start(count) > end
  BY <1>1, <1>9, <1>8
<1> QED
  BY <1>9, <1>11, <1>12 DEF Coming, Start, first

(* generate_block_starts begins with the block of the first day, and leaves *)
(* none out.                                                               *)
LEMMA GeneratedBlocks ==
    ASSUME NEW months \in Span, NEW start \in Int, start >= YearStart(5), NEW end \in Int
    PROVE  \E c \in Grid(months) :
               /\ Coming(GenerateBlockStarts(start, end, months), c, months, end)
               /\ MonthStart(c) <= start /\ start < MonthStart(c + months)
<1>1. PICK c \in Grid(months) :
          /\ FirstBlock(start, months) = [year |-> c \div 12, month |-> (c % 12) + 1]
          /\ MonthStart(c) <= start /\ start < MonthStart(c + months)
          /\ MonthStart(c) >= start - 31 * months
  BY FirstBlockOf
<1> DEFINE all == BlocksUpTo(FirstBlock(start, months), end, months)
           early == {i \in DOMAIN all : all[i] < start - 31 * months}
<1>2. Coming(all, c, months, end)
  BY <1>1, BlocksAreAll
<1>3. PICK n \in Nat : /\ all = [i \in 1..n |-> MonthStart(c + (i - 1) * months)]
                      /\ MonthStart(c + n * months) > end
  BY <1>2 DEF Coming
<1> HIDE DEF all
<1>4. ASSUME NEW i \in 1..n
      PROVE  all[i] \in Int /\ ~ all[i] < start - 31 * months
  <2> DEFINE x == c + (i - 1) * months
  <2>1. x \in Nat /\ x >= c /\ c \in Nat /\ c >= 60
    BY DEF Grid, Span
  <2>2. all[i] = MonthStart(x)
    BY <1>3
  <2> HIDE DEF x
  <2>3. ~ MonthStart(x) < MonthStart(c) /\ MonthStart(c) \in Int /\ MonthStart(x) \in Int
    BY <2>1, MonthsInOrder
  <2>4. months \in Int
    BY DEF Span
  <2> QED
    BY <1>1, <2>2, <2>3, <2>4
<1>5. early = {}
  BY <1>3, <1>4
<1>6. Cardinality(early) = 0
  BY <1>5, FS_EmptySet
<1>7. all \in Seq(Int) /\ Len(all) = n
  <2>1. DOMAIN all = 1..n /\ all \in [1..n -> Int]
    BY <1>3, <1>4
  <2> QED
    BY <2>1
<1>8. SubSeq(all, 0 + 1, Len(all)) = all
  BY <1>7
<1>9. GenerateBlockStarts(start, end, months) = SubSeq(all, Cardinality(early) + 1, Len(all))
  BY DEF GenerateBlockStarts, all
<1> HIDE DEF early
<1>10. GenerateBlockStarts(start, end, months) = all
  BY <1>6, <1>8, <1>9
<1> QED
  BY <1>1, <1>2, <1>10

-----------------------------------------------------------------------------
(* Splitting a series.                                                     *)

\* Calls of write_ts_multi with intervals that divide a day, in blocks of a
\* month or a year, for series that begin with a block.
Aligned(s) ==
    /\ BlockMonths[s.e] \in Span
    /\ s.minutes # 0 /\ 1440 % s.minutes = 0
    /\ \E c \in Grid(BlockMonths[s.e]) : s.start = MonthStart(c)
AlignedCalls ==
    /\ \A s \in Series : Aligned(s)
    /\ \A w \in Window : w[1] >= YearStart(5)

\* The number of values a day, in front of the c-th month, and of those there
\* are.
PerDay(s) == 1440 \div s.minutes
Before(s, c) == (MonthStart(c) - s.start) * PerDay(s)
Clipped(s, n) == IF n < s.length THEN n ELSE s.length

(* What is used of a call. *)
LEMMA SeriesFields ==
    ASSUME AlignedCalls, NEW s \in Series
    PROVE  /\ s.e \in EPart /\ s.minutes \in Nat \ {0} /\ s.start \in Int
           /\ s.length \in Nat \ {0} /\ s.start >= YearStart(5)
           /\ BlockMonths[s.e] \in Span
           /\ PerDay(s) \in Nat \ {0} /\ PerDay(s) * s.minutes = 1440
<1>1. /\ s \in [e : EPart, minutes : Nat, start : Int, length : Nat \ {0}]
      /\ Aligned(s)
  BY BlocksAssumption DEF AlignedCalls
<1>2. PICK c \in Grid(BlockMonths[s.e]) : s.start = MonthStart(c)
  BY <1>1 DEF Aligned
<1>3. s.start >= YearStart(5)
  <2>1. MonthStart(60) = YearStart(5)
    <3>1. 60 \div 12 = 5 /\ 60 % 12 = 0
      OBVIOUS
    <3> QED
      BY <3>1 DEF MonthStart, YearStart
  <2>2. c \in Nat /\ c >= 60
    BY DEF Grid
  <2>3. ~ MonthStart(c) < MonthStart(60) /\ MonthStart(c) \in Int /\ MonthStart(60) \in Int
    BY <2>2, MonthsInOrder
  <2> QED
    BY <1>2, <2>1, <2>3
<1> DEFINE m == s.minutes
           d == PerDay(s)
<1>4. m \in Nat \ {0} /\ 1440 % m = 0 /\ d = 1440 \div m
  BY <1>1 DEF Aligned, PerDay
<1> HIDE DEF m, d
<1>5. 1440 = m * d + (1440 % m) /\ d \in Int
  BY <1>4
<1>6. d * m = 1440
  BY <1>4, <1>5
<1>7. d \in Nat \ {0}
  <2>1. d > 0
    <3> SUFFICES ASSUME d <= 0 PROVE FALSE
      BY <1>5
    <3>1. d * m <= 0
      BY <1>4, <1>5
    <3> QED
      BY <1>6, <3>1
  <2> QED
    BY <1>5, <2>1
<1> QED
  BY <1>1, <1>3, <1>6, <1>7 DEF Aligned, m, d

\* How often an interval of m minutes is in n days, and how many days n
\* intervals are, d of them a day.
DayIsDivided(n, m, d) ==
    /\ (n * 1440) \div m = n * d
    /\ (n * m) \div 1440 = n \div d
    /\ n \div d \in Nat /\ (n \div d) * d <= n /\ n < (n \div d + 1) * d

(* Intervals that divide a day leave nothing over. *)
LEMMA DivideDay ==
    ASSUME NEW m \in Nat \ {0}, NEW d \in Nat \ {0}, d * m = 1440, NEW n \in Nat
    PROVE  DayIsDivided(n, m, d)
<1> DEFINE q == n \div d
           r == n % d
           nd == n * d
<1>1. q \in Nat /\ r \in 0..(d - 1) /\ n = d * q + r
  OBVIOUS
<1>2. (n * 1440) \div m = n * d
  <2>1. n * 1440 = nd * m
    OBVIOUS
  <2>2. nd \in Nat
    OBVIOUS
  <2> HIDE DEF nd
  <2>3. (nd * m) \div m = nd
    BY <2>2
  <2> QED
    BY <2>1, <2>3 DEF nd
<1>3. (n * m) \div 1440 = q
  <2> HIDE DEF q, r
  <2> DEFINE t == r * m
  <2>1. n * m = 1440 * q + t
    BY <1>1
  <2>2. t \in Nat /\ t < 1440
    <3>1. r + 1 <= d /\ r \in Nat
      BY <1>1
    <3>2. (r + 1) * m <= d * m
      BY <3>1
    <3>3. (r + 1) * m = r * m + m
      BY <3>1
    <3> QED
      BY <3>1, <3>2, <3>3
  <2> HIDE DEF t
  <2>3. (1440 * q + t) \div 1440 = q
    BY <1>1, <2>2
  <2> QED
    BY <2>1, <2>3
<1>4. q * d <= n /\ n < (q + 1) * d
  <2> HIDE DEF q, r
  <2> QED
    BY <1>1
<1> QED
  BY <1>1, <1>2, <1>3, <1>4 DEF DayIsDivided

(* A block has as many values as there are to the next one. *)
LEMMA ValuesOfBlock ==
    ASSUME NEW months \in Span, NEW c \in Grid(months),
           NEW m \in Nat \ {0}, NEW d \in Nat \ {0}, d * m = 1440
    PROVE  /\ ValuesInBlock(MonthStart(c), m, months)
                = (MonthStart(c + months) - MonthStart(c)) * d
           /\ MonthStart(c + months) - MonthStart(c) \in Nat \ {0}
<1> DEFINE y == c \div 12
           k == (c % 12) + 1
           n == MonthStart(c + months) - MonthStart(c)
<1>1. c \in Nat /\ c >= 60 /\ y \in Nat /\ k \in 1..12 /\ c = 12 * y + k - 1
      /\ months \in {1, 12} /\ c % months = 0
  BY DEF Grid, Span
<1>2. MonthStart(c) \in Int /\ MonthStart(c) < MonthStart(c + 1)
  <2>1. c + 1 \in Nat /\ c + 1 >= 60 /\ c < c + 1
    BY <1>1
  <2> QED
    BY <1>1, <2>1, MonthsInOrder
<1>3. JulianToYearMonthDay(MonthStart(c))
        = [year |-> y, month |-> k, day |-> MonthStart(c) - MonthStart(c) + 1]
  BY <1>1, <1>2, MonthOfDay DEF Date
<1>4. n \in Nat \ {0}
  <2>1. c + months \in Nat /\ c + months >= 60 /\ c < c + months
    BY <1>1
  <2>2. MonthStart(c) < MonthStart(c + months) /\ MonthStart(c + months) \in Int
    BY <1>1, <2>1, MonthsInOrder
  <2> QED
    BY <1>2, <2>2
<1>5. MonthStart(c + months) = IF k + months > 12
                               THEN YearMonthDayToJulian(y + 1, k + months - 12, 1)
                               ELSE YearMonthDayToJulian(y, k + months, 1)
  <2>1. CASE k + months > 12
    <3>1. (k = 12 /\ months = 1) \/ months = 12
      BY <1>1, <2>1
    <3> HIDE DEF y, k
    <3>2. (c + months) \div 12 = y + 1 /\ ((c + months) % 12) + 1 = k + months - 12
      BY <1>1, <3>1
    <3> QED
      BY <2>1, <3>2 DEF MonthStart
  <2>2. CASE ~ k + months > 12
    <3>1. months = 1 /\ k < 12
      BY <1>1, <2>2
    <3> HIDE DEF y, k
    <3>2. (c + months) \div 12 = y /\ ((c + months) % 12) + 1 = k + months
      BY <1>1, <3>1
    <3> QED
      BY <2>2, <3>2 DEF MonthStart
  <2> QED
    BY <2>1, <2>2
<1>6. ValuesInBlock(MonthStart(c), m, months) = (n * 1440) \div m
  <2> HIDE DEF y, k
  <2>1. ~ m <= 0
    OBVIOUS
  <2> QED
    BY <1>3, <1>5, <2>1 DEF ValuesInBlock
<1> HIDE DEF n
<1>7. (n * 1440) \div m = n * d
  <2>1. DayIsDivided(n, m, d)
    BY <1>4, DivideDay
  <2> QED
    BY <2>1 DEF DayIsDivided
<1> QED
  BY <1>4, <1>6, <1>7 DEF n

Months(s) == BlockMonths[s.e]

\* The blocks in front of month c that have values, and what is stored then.
Written(s, c) ==
    {x \in Grid(Months(s)) : /\ s.start <= MonthStart(x) /\ x < c
                            /\ Before(s, x) < s.length}
StoredUpTo(s, st, c) ==
    /\ DOMAIN st = {MonthStart(x) : x \in Written(s, c)}
    /\ \A x \in Written(s, c) :
           st[MonthStart(x)] = <<Before(s, x), Clipped(s, Before(s, x + Months(s)))>>
Complete(s, st) ==
    \E c \in Grid(Months(s)) : StoredUpTo(s, st, c) /\ Before(s, c) >= s.length

\* What is put together when the blocks in front of month c are read.
Gathered(s, w, g, c) ==
    /\ g \in Seq((0..s.length) \X (0..s.length))
    /\ \A i \in 1..(Len(g) - 1) : g[i][2] = g[i + 1][1]
    /\ Len(g) # 0 => /\ s.start <= MonthStart(c)
                     /\ g[Len(g)][2] = Clipped(s, Before(s, c))
    /\ \A v \in 0..(s.length - 1) :
           LET on == s.start + (v * s.minutes) \div 1440
           IN  w[1] <= on /\ on <= w[2] /\ on < MonthStart(c)
                 => \E i \in 1..Len(g) : g[i][1] <= v /\ v < g[i][2]

\* The inductive invariant.
BlocksInv ==
    /\ pc \in {"idle", "write", "ready", "read", "done"}
    /\ series \in Series /\ window \in Window
    /\ pc = "idle" => blocks = << >> /\ pos = 0 /\ DOMAIN stored = {}
    /\ pc \in {"idle", "write", "ready"} => got = << >>
    /\ pc = "write" =>
           \E c \in Grid(Months(series)) :
               /\ series.start <= MonthStart(c)
               /\ Coming(blocks, c, Months(series), EndOf(series))
               /\ pos = Clipped(series, Before(series, c))
               /\ StoredUpTo(series, stored, c)
    /\ pc \in {"ready", "read", "done"} =>
           pos = series.length /\ Complete(series, stored)
    /\ pc \in {"ready", "done"} => blocks = << >>
    /\ pc \in {"read", "done"} =>
           \E c \in Grid(Months(series)) :
               /\ Coming(blocks, c, Months(series), window[2])
               /\ Gathered(series, window, got, c)

(* The values in front of a block are more for a later block. *)
LEMMA BeforeGrows ==
    ASSUME AlignedCalls, NEW s \in Series, NEW c \in Grid(Months(s))
    PROVE  /\ Before(s, c) \in Int /\ MonthStart(c) \in Int
           /\ s.start <= MonthStart(c) =>
                  /\ Before(s, c) \in Nat
                  /\ Clipped(s, Before(s, c)) \in 0..s.length
           /\ \A x \in Grid(Months(s)) : c <= x => Before(s, c) <= Before(s, x)
<1> DEFINE d == PerDay(s)
<1>1. d \in Nat \ {0} /\ s.start \in Int /\ s.length \in Nat \ {0} /\ Months(s) \in Span
  BY SeriesFields DEF Months
<1>2. c \in Nat /\ c >= 60 /\ MonthStart(c) \in Int
  BY MonthStartGrows DEF Grid
<1> HIDE DEF d
<1>3. Before(s, c) = (MonthStart(c) - s.start) * d
  BY DEF Before, d
<1>4. s.start <= MonthStart(c) => Before(s, c) \in Nat
  BY <1>1, <1>2, <1>3
<1>5. ASSUME NEW x \in Grid(Months(s)), c <= x PROVE Before(s, c) <= Before(s, x)
  <2>1. MonthStart(c) <= MonthStart(x) /\ MonthStart(x) \in Int
    <3>1. x \in Nat /\ x >= 60
      BY DEF Grid
    <3> QED
      BY <1>2, <1>5, <3>1, MonthsInOrder
  <2>2. Before(s, x) = (MonthStart(x) - s.start) * d
    BY DEF Before, d
  <2> DEFINE a == MonthStart(c) - s.start
             b == MonthStart(x) - s.start
  <2>3. a \in Int /\ b \in Int /\ a <= b
    BY <1>1, <1>2, <2>1
  <2> HIDE DEF a, b
  <2>4. a * d <= b * d
    BY <1>1, <2>3
  <2> QED
    BY <1>3, <2>2, <2>4 DEF a, b
<1> QED
  BY <1>1, <1>2, <1>3, <1>4, <1>5 DEF Clipped

(* A block of the window that is behind the start of the series and in front *)
(* of its end has a record, no other has one.                              *)
LEMMA RecordOfBlock ==
    ASSUME AlignedCalls, NEW s \in Series, NEW st, Complete(s, st),
           NEW x \in Grid(Months(s))
    PROVE  /\ MonthStart(x) \in DOMAIN st <=>
                   s.start <= MonthStart(x) /\ Before(s, x) < s.length
           /\ MonthStart(x) \in DOMAIN st =>
                   st[MonthStart(x)]
                     = <<Before(s, x), Clipped(s, Before(s, x + Months(s)))>>
<1>1. PICK c \in Grid(Months(s)) : StoredUpTo(s, st, c) /\ Before(s, c) >= s.length
  BY DEF Complete
<1>2. ASSUME Before(s, x) < s.length PROVE x < c
  <2>1. x \in Nat /\ c \in Nat /\ Before(s, x) \in Int /\ Before(s, c) \in Int
        /\ s.length \in Nat
    BY BeforeGrows, SeriesFields DEF Grid
  <2>2. c <= x => Before(s, c) <= Before(s, x)
    BY BeforeGrows
  <2> QED
    BY <1>1, <1>2, <2>1, <2>2
<1>3. x \in Written(s, c) <=> s.start <= MonthStart(x) /\ Before(s, x) < s.length
  BY <1>2 DEF Written
<1>4. MonthStart(x) \in DOMAIN st <=> x \in Written(s, c)
  <2>1. ASSUME NEW z \in Written(s, c), MonthStart(z) = MonthStart(x) PROVE z = x
    <3>1. z \in Nat /\ z >= 60 /\ x \in Nat /\ x >= 60
      BY DEF Written, Grid
    <3> QED
      BY <2>1, <3>1, MonthsInOrder
  <2> QED
    BY <1>1, <2>1 DEF StoredUpTo
<1> QED
  BY <1>1, <1>3, <1>4 DEF StoredUpTo

(* The list of the blocks to come: its first, and the others. *)
LEMMA ComingBlocks ==
    ASSUME NEW months \in Span, NEW c \in Grid(months), NEW list, NEW end,
           Coming(list, c, months, end)
    PROVE  /\ list \in Seq(Int)
           /\ list = << >> => MonthStart(c) > end
           /\ list # << >> => /\ Head(list) = MonthStart(c)
                             /\ Coming(Tail(list), c + months, months, end)
<1>1. PICK n \in Nat : /\ list = [i \in 1..n |-> MonthStart(c + (i - 1) * months)]
                      /\ MonthStart(c + n * months) > end
  BY DEF Coming
<1>2. c \in Nat /\ c >= 60 /\ months \in {1, 12}
  BY DEF Grid, Span
<1>3. ASSUME NEW i \in 1..n PROVE MonthStart(c + (i - 1) * months) \in Int
  <2> DEFINE x == c + (i - 1) * months
  <2>1. x \in Nat /\ x >= 60
    BY <1>2
  <2> HIDE DEF x
  <2>2. MonthStart(x) \in Int
    BY <2>1, MonthStartGrows
  <2> QED
    BY <2>2 DEF x
<1>4. list \in [1..n -> Int] /\ Len(list) = n /\ list \in Seq(Int)
  BY <1>1, <1>3
<1>5. c + 0 * months = c
  BY <1>2
<1>6. list = << >> => MonthStart(c) > end
  BY <1>1, <1>4, <1>5
<1>7. ASSUME list # << >>
      PROVE  Head(list) = MonthStart(c) /\ Coming(Tail(list), c + months, months, end)
  <2>1. n - 1 \in Nat /\ 1 \in 1..n
    BY <1>4, <1>7
  <2>2. list[1] = MonthStart(c)
    <3>1. list[1] = MonthStart(c + (1 - 1) * months) /\ 1 - 1 = 0
      BY <1>1, <2>1
    <3> QED
      BY <1>5, <3>1
  <2>3. Head(list) = list[1]
    BY <1>4, <1>7
  <2>4. Tail(list) = [i \in 1..(n - 1) |-> list[i + 1]]
    <3>1. Tail(list) \in Seq(Int) /\ Len(Tail(list)) = n - 1
      BY <1>4, <1>7
    <3>2. \A i \in 1..(n - 1) : Tail(list)[i] = list[i + 1]
      BY <1>4, <1>7
    <3>3. Tail(list) \in [1..Len(Tail(list)) -> Int]
      BY <3>1, LenProperties
    <3> QED
      BY <3>1, <3>2, <3>3
  <2>5. \A i \in 1..(n - 1) : list[i + 1] = MonthStart((c + months) + (i - 1) * months)
    <3> TAKE i \in 1..(n - 1)
    <3>1. i + 1 \in 1..n /\ c + ((i + 1) - 1) * months = (c + months) + (i - 1) * months
      BY <1>2
    <3> QED
      BY <1>1, <3>1
  <2>6. Tail(list) = [i \in 1..(n - 1) |-> MonthStart((c + months) + (i - 1) * months)]
    BY <2>4, <2>5
  <2>7. c + n * months = (c + months) + (n - 1) * months
    BY <1>2
  <2> QED
    BY <1>1, <2>1, <2>2, <2>3, <2>6, <2>7 DEF Coming
<1> QED
  BY <1>4, <1>6, <1>7

(* A block that is written takes the values up to the next block, or what is *)
(* left.                                                                   *)
LEMMA BlockIsFilled ==
    ASSUME AlignedCalls, BlocksInv, WriteBlock
    PROVE  BlocksInv'
<1> DEFINE s == series
           months == Months(s)
<1>1. /\ pc = "write" /\ blocks # << >> /\ pos < s.length
      /\ WriteTs(Head(blocks), ChunkEnd(ValuesInBlock(Head(blocks), s.minutes, months)))
      /\ blocks' = Tail(blocks)
      /\ pc' = pc /\ series' = s /\ window' = window /\ got' = got
  BY DEF WriteBlock, Months
<1>2. /\ s \in Series /\ window \in Window /\ got = << >>
      /\ \E c \in Grid(months) :
            /\ s.start <= MonthStart(c)
            /\ Coming(blocks, c, months, EndOf(s))
            /\ pos = Clipped(s, Before(s, c))
            /\ StoredUpTo(s, stored, c)
  BY <1>1 DEF BlocksInv
<1>3. PICK c \in Grid(months) : /\ s.start <= MonthStart(c)
                               /\ Coming(blocks, c, months, EndOf(s))
                               /\ pos = Clipped(s, Before(s, c))
                               /\ StoredUpTo(s, stored, c)
  BY <1>2
<1>4. /\ s.minutes \in Nat \ {0} /\ s.start \in Int /\ s.length \in Nat \ {0}
      /\ months \in Span /\ PerDay(s) \in Nat \ {0} /\ PerDay(s) * s.minutes = 1440
  BY <1>2, SeriesFields DEF Months
<1> HIDE DEF s, months
<1>5. Head(blocks) = MonthStart(c) /\ Coming(Tail(blocks), c + months, months, EndOf(s))
  BY <1>1, <1>3, <1>4, ComingBlocks
<1>6. c \in Nat /\ c >= 60 /\ c + months \in Grid(months)
      /\ \A x \in Grid(months) : c < x => c + months <= x
  BY <1>4, GridSteps
<1> DEFINE span == MonthStart(c + months) - MonthStart(c)
           n == span * PerDay(s)
           end == ChunkEnd(ValuesInBlock(Head(blocks), s.minutes, months))
<1>7. span \in Nat \ {0} /\ ValuesInBlock(Head(blocks), s.minutes, months) = n
  BY <1>4, <1>5, ValuesOfBlock
<1>8. /\ Before(s, c) \in Nat /\ MonthStart(c) \in Int
      /\ Before(s, c + months) \in Int /\ MonthStart(c + months) \in Int
  BY <1>2, <1>3, <1>6, BeforeGrows DEF months
<1>9. Before(s, c + months) = Before(s, c) + n /\ n \in Nat \ {0}
  <2> DEFINE d == PerDay(s)
             a == MonthStart(c) - s.start
  <2>1. Before(s, c) = a * d /\ Before(s, c + months) = (MonthStart(c + months) - s.start) * d
    BY DEF Before
  <2>2. a \in Int /\ MonthStart(c + months) - s.start = a + span
    BY <1>4, <1>7, <1>8
  <2> HIDE DEF a, span, d
  <2>3. d \in Nat \ {0}
    BY <1>4 DEF d
  <2>4. (a + span) * d = a * d + span * d
    BY <1>7, <2>2, <2>3
  <2>5. span * d \in Nat \ {0}
    BY <1>7, <2>3
  <2> QED
    BY <2>1, <2>2, <2>4, <2>5 DEF d
<1>10. pos = Before(s, c) /\ pos \in Nat
  BY <1>1, <1>3, <1>4, <1>8 DEF Clipped
<1>11. end = Clipped(s, Before(s, c + months)) /\ end # pos
  <2>1. end = IF pos + n < s.length THEN pos + n ELSE s.length
    BY <1>7 DEF ChunkEnd, s
  <2> HIDE DEF n, end
  <2>2. end = Clipped(s, pos + n)
    BY <2>1 DEF Clipped
  <2> QED
    BY <1>1, <1>4, <1>9, <1>10, <2>1, <2>2
<1>12. /\ pos' = Clipped(s, Before(s, c + months))
       /\ stored' = [b \in DOMAIN stored \cup {MonthStart(c)} |->
                        IF b = MonthStart(c)
                        THEN <<Before(s, c), Clipped(s, Before(s, c + months))>>
                        ELSE stored[b]]
  <2>1. WriteTs(MonthStart(c), end)
    BY <1>1, <1>5
  <2> HIDE DEF end
  <2> QED
    BY <1>10, <1>11, <2>1 DEF WriteTs
<1> HIDE DEF span, n, end
<1>13. StoredUpTo(s, stored', c + months)
  <2>1. Written(s, c + months) = Written(s, c) \cup {c}
    <3>1. months \in Nat \ {0} /\ Before(s, c) < s.length
      BY <1>1, <1>4, <1>10 DEF Span
    <3>2. ASSUME NEW x \in Grid(months) PROVE x < c + months <=> x < c \/ x = c
      <4>1. x \in Nat
        BY DEF Grid
      <4>2. c < x => c + months <= x
        BY <1>6
      <4> QED
        BY <1>6, <3>1, <4>1, <4>2
    <3> QED
      BY <1>3, <3>1, <3>2 DEF Written, months
  <2>2. \A x \in Written(s, c) : MonthStart(x) # MonthStart(c)
    <3> TAKE x \in Written(s, c)
    <3>1. x \in Nat /\ x >= 60 /\ x < c
      BY DEF Written, Grid
    <3> QED
      BY <1>6, <3>1, MonthsInOrder
  <2>3. /\ DOMAIN stored = {MonthStart(x) : x \in Written(s, c)}
        /\ \A x \in Written(s, c) :
               stored[MonthStart(x)]
                 = <<Before(s, x), Clipped(s, Before(s, x + Months(s)))>>
    BY <1>3 DEF StoredUpTo
  <2>4. DOMAIN stored' = {MonthStart(x) : x \in Written(s, c + months)}
    BY <1>12, <2>1, <2>3
  <2>5. ASSUME NEW x \in Written(s, c + months)
        PROVE  stored'[MonthStart(x)]
                 = <<Before(s, x), Clipped(s, Before(s, x + Months(s)))>>
    <3>1. CASE x = c
      <4>1. MonthStart(c) \in DOMAIN stored \cup {MonthStart(c)}
        OBVIOUS
      <4> QED
        BY <1>12, <3>1, <4>1 DEF months
    <3>2. CASE x # c
      <4>1. x \in Written(s, c) /\ MonthStart(x) # MonthStart(c)
        BY <2>1, <2>2, <3>2
      <4>2. MonthStart(x) \in DOMAIN stored
        BY <2>3, <4>1
      <4> QED
        BY <1>12, <2>3, <4>1, <4>2
    <3> QED
      BY <3>1, <3>2
  <2> QED
    BY <2>4, <2>5 DEF StoredUpTo
<1>14. s.start <= MonthStart(c + months)
  BY <1>3, <1>4, <1>7, <1>8 DEF span
<1>15. \E x \in Grid(months) : /\ s.start <= MonthStart(x)
                              /\ Coming(blocks', x, months, EndOf(s))
                              /\ pos' = Clipped(s, Before(s, x))
                              /\ StoredUpTo(s, stored', x)
  BY <1>1, <1>5, <1>6, <1>12, <1>13, <1>14
<1> QED
  BY <1>1, <1>2, <1>15 DEF BlocksInv, s, months

(* When no block is to come or no value is left, all values are stored.    *)
LEMMA SeriesIsStored ==
    ASSUME AlignedCalls, BlocksInv, WriteEnd
    PROVE  BlocksInv'
<1> DEFINE s == series
           months == Months(s)
<1>1. /\ pc = "write" /\ (blocks = << >> \/ pos >= s.length)
      /\ pc' = "ready" /\ blocks' = << >>
      /\ series' = s /\ window' = window /\ pos' = pos /\ stored' = stored /\ got' = got
  BY DEF WriteEnd
<1>2. /\ s \in Series /\ window \in Window /\ got = << >>
      /\ \E c \in Grid(months) :
            /\ s.start <= MonthStart(c)
            /\ Coming(blocks, c, months, EndOf(s))
            /\ pos = Clipped(s, Before(s, c))
            /\ StoredUpTo(s, stored, c)
  BY <1>1 DEF BlocksInv
<1>3. PICK c \in Grid(months) : /\ s.start <= MonthStart(c)
                               /\ Coming(blocks, c, months, EndOf(s))
                               /\ pos = Clipped(s, Before(s, c))
                               /\ StoredUpTo(s, stored, c)
  BY <1>2
<1>4. /\ s.minutes \in Nat \ {0} /\ s.start \in Int /\ s.length \in Nat \ {0}
      /\ months \in Span /\ PerDay(s) \in Nat \ {0} /\ PerDay(s) * s.minutes = 1440
  BY <1>2, SeriesFields DEF Months
<1>5. Before(s, c) \in Nat /\ MonthStart(c) \in Int
  BY <1>2, <1>3, BeforeGrows
<1> HIDE DEF s, months
<1>6. Before(s, c) >= s.length
  <2>1. CASE pos >= s.length
    BY <1>3, <1>4, <1>5, <2>1 DEF Clipped
  <2>2. CASE blocks = << >>
    <3> DEFINE d == PerDay(s)
               q == s.length \div d
               a == MonthStart(c) - s.start
    <3>1. MonthStart(c) > EndOf(s)
      BY <1>3, <1>4, <2>2, ComingBlocks
    <3>2. /\ (s.length * s.minutes) \div 1440 = q
          /\ q \in Nat /\ s.length < (q + 1) * d
      <4> DEFINE m == s.minutes
                 l == s.length
      <4>1. m \in Nat \ {0} /\ d \in Nat \ {0} /\ d * m = 1440 /\ l \in Nat
        BY <1>4
      <4> HIDE DEF m, l, d
      <4>2. (l * m) \div 1440 = l \div d /\ l \div d \in Nat /\ l < (l \div d + 1) * d
        <5>1. DayIsDivided(l, m, d)
          BY <4>1, DivideDay
        <5> QED
          BY <5>1 DEF DayIsDivided
      <4> QED
        BY <4>2 DEF m, l
    <3>3. a > q + 1 /\ a \in Int
      BY <1>4, <1>5, <3>1, <3>2 DEF EndOf
    <3>4. Before(s, c) = a * d /\ d \in Nat \ {0}
      BY <1>4 DEF Before
    <3> HIDE DEF a, q, d
    <3>5. (q + 1) * d <= a * d
      BY <3>2, <3>3, <3>4
    <3> QED
      BY <1>4, <1>5, <3>2, <3>4, <3>5
  <2> QED
    BY <1>1, <2>1, <2>2
<1>7. pos = s.length
  BY <1>3, <1>4, <1>5, <1>6 DEF Clipped
<1>8. Complete(s, stored)
  BY <1>3, <1>6 DEF Complete, months
<1> QED
  BY <1>1, <1>2, <1>7, <1>8 DEF BlocksInv, s

(* A value whose day is in a block is in the record of that block.          *)
LEMMA ValueInBlock ==
    ASSUME AlignedCalls, NEW s \in Series, NEW c \in Grid(Months(s)),
           NEW v \in 0..(s.length - 1), NEW on,
           on = s.start + (v * s.minutes) \div 1440,
           MonthStart(c) <= on, on < MonthStart(c + Months(s))
    PROVE  /\ s.start <= MonthStart(c) /\ Before(s, c) <= v
           /\ v < Clipped(s, Before(s, c + Months(s)))
<1> DEFINE d == PerDay(s)
           m == s.minutes
           l == s.length
           q == v \div d
           next == MonthStart(c + Months(s))
<1>1. /\ s.start \in Int /\ l \in Nat \ {0} /\ m \in Nat \ {0} /\ d \in Nat \ {0}
      /\ d * m = 1440 /\ Months(s) \in Span /\ v \in Nat /\ v < l
  BY SeriesFields DEF Months
<1>2. c + Months(s) \in Grid(Months(s))
  BY <1>1, GridSteps
<1>3. MonthStart(c) \in Int /\ next \in Int
  BY <1>2, BeforeGrows
<1>4. Before(s, c) = (MonthStart(c) - s.start) * d
      /\ Before(s, c + Months(s)) = (next - s.start) * d
  BY DEF Before
<1>5. PICK x \in Grid(Months(s)) : s.start = MonthStart(x)
  BY DEF AlignedCalls, Aligned, Months
<1> HIDE DEF d, m, l
<1>6. (v * m) \div 1440 = q /\ q \in Nat /\ q * d <= v /\ v < (q + 1) * d
  <2>1. DayIsDivided(v, m, d)
    BY <1>1, DivideDay
  <2> QED
    BY <2>1 DEF DayIsDivided
<1>7. on = s.start + q
  BY <1>6 DEF m
<1> HIDE DEF q, next
<1>8. s.start <= MonthStart(c)
  <2>1. x < c + Months(s)
    <3>1. MonthStart(x) < MonthStart(c + Months(s))
      BY <1>1, <1>3, <1>5, <1>6, <1>7 DEF next
    <3>2. x \in Nat /\ x >= 60 /\ c + Months(s) \in Nat /\ c + Months(s) >= 60
      BY <1>2 DEF Grid
    <3> QED
      BY <3>1, <3>2, MonthsInOrder
  <2>2. x \in Nat /\ x >= 60 /\ c \in Nat /\ c >= 60 /\ Months(s) \in Nat
    BY <1>1 DEF Grid, Span
  <2>3. ~ c < x
    <3>1. c < x => c + Months(s) <= x
      BY <1>1, GridSteps
    <3> QED
      BY <2>1, <2>2, <3>1
  <2>4. ~ MonthStart(c) < MonthStart(x)
    BY <2>2, <2>3, MonthsInOrder
  <2> QED
    BY <1>1, <1>3, <1>5, <2>4
<1> DEFINE a == MonthStart(c) - s.start
           b == next - s.start
<1>9. a \in Int /\ b \in Int /\ a <= q /\ q + 1 <= b
  BY <1>1, <1>3, <1>6, <1>7 DEF next
<1> HIDE DEF a, b
<1>10. a * d <= q * d /\ (q + 1) * d <= b * d
  BY <1>1, <1>6, <1>9
<1>11. a * d \in Int /\ b * d \in Int /\ q * d \in Int /\ (q + 1) * d \in Int
  BY <1>1, <1>6, <1>9
<1>12. a * d <= v /\ v < b * d
  BY <1>1, <1>6, <1>10, <1>11
<1> QED
  BY <1>1, <1>4, <1>8, <1>12 DEF a, b, Clipped, l

(* What was put together goes on with the record of the next block.        *)
LEMMA BlockIsGathered ==
    ASSUME AlignedCalls, NEW s \in Series, NEW w, NEW st, NEW g,
           NEW c \in Grid(Months(s)),
           Complete(s, st), Gathered(s, w, g, c),
           NEW h, h = IF MonthStart(c) \in DOMAIN st
                      THEN Append(g, st[MonthStart(c)]) ELSE g
    PROVE  Gathered(s, w, h, c + Months(s))
<1> DEFINE months == Months(s)
           Pairs == (0..s.length) \X (0..s.length)
           On(v) == s.start + (v * s.minutes) \div 1440
<1>1. /\ s.start \in Int /\ s.length \in Nat \ {0} /\ s.minutes \in Nat \ {0}
      /\ months \in Span
  BY SeriesFields DEF Months
<1>2. c + months \in Grid(months)
  BY <1>1, GridSteps
<1>3. /\ MonthStart(c) \in Int /\ Before(s, c) \in Int
      /\ MonthStart(c + months) \in Int /\ Before(s, c + months) \in Int
      /\ s.start <= MonthStart(c) => Before(s, c) \in Nat
      /\ s.start <= MonthStart(c + months) =>
             Clipped(s, Before(s, c + months)) \in 0..s.length
  BY <1>2, BeforeGrows
<1>4. MonthStart(c) < MonthStart(c + months) /\ Before(s, c) <= Before(s, c + months)
  <2>1. /\ c \in Nat /\ c >= 60 /\ c + months \in Nat /\ c + months >= 60
        /\ c < c + months
    BY <1>1 DEF Grid, Span
  <2> QED
    BY <1>2, <2>1, MonthsInOrder, BeforeGrows
<1>5. /\ MonthStart(c) \in DOMAIN st <=>
              s.start <= MonthStart(c) /\ Before(s, c) < s.length
      /\ MonthStart(c) \in DOMAIN st =>
              st[MonthStart(c)] = <<Before(s, c), Clipped(s, Before(s, c + months))>>
  BY RecordOfBlock
<1>6. /\ g \in Seq(Pairs) /\ Len(g) \in Nat
      /\ \A i \in 1..(Len(g) - 1) : g[i][2] = g[i + 1][1]
      /\ Len(g) # 0 => s.start <= MonthStart(c) /\ g[Len(g)][2] = Clipped(s, Before(s, c))
      /\ \A v \in 0..(s.length - 1) :
             w[1] <= On(v) /\ On(v) <= w[2] /\ On(v) < MonthStart(c)
               => \E i \in 1..Len(g) : g[i][1] <= v /\ v < g[i][2]
  BY DEF Gathered
<1>7. \A v \in 0..(s.length - 1) :
          /\ On(v) \in Int
          /\ MonthStart(c) <= On(v) /\ On(v) < MonthStart(c + months)
               => /\ s.start <= MonthStart(c) /\ Before(s, c) <= v
                  /\ v < Clipped(s, Before(s, c + months))
  <2> TAKE v \in 0..(s.length - 1)
  <2>1. v * s.minutes \in Int
    BY <1>1
  <2>2. On(v) \in Int
    BY <1>1, <2>1
  <2> QED
    BY <2>2, ValueInBlock
<1> HIDE DEF On
<1>8. CASE MonthStart(c) \in DOMAIN st
  <2> DEFINE r == <<Before(s, c), Clipped(s, Before(s, c + months))>>
             n == Len(g) + 1
  <2>1. h = Append(g, r) /\ s.start <= MonthStart(c) /\ Before(s, c) < s.length
    BY <1>5, <1>8
  <2>2. r \in Pairs /\ r[1] = Before(s, c) /\ r[2] = Clipped(s, Before(s, c + months))
    BY <1>1, <1>3, <1>4, <2>1
  <2> HIDE DEF r, Pairs
  <2>3. /\ h \in Seq(Pairs) /\ Len(h) = n /\ n \in Nat \ {0} /\ h[n] = r
        /\ \A i \in 1..Len(g) : h[i] = g[i]
    BY <1>6, <2>1, <2>2
  <2>4. Clipped(s, Before(s, c)) = Before(s, c)
    BY <2>1 DEF Clipped
  <2> HIDE DEF n
  <2>5. ASSUME NEW i \in 1..(Len(h) - 1) PROVE h[i][2] = h[i + 1][1]
    <3>1. i \in 1..Len(g) /\ h[i] = g[i]
      BY <1>6, <2>3 DEF n
    <3>2. CASE i = Len(g)
      <4>1. h[i + 1] = r
        BY <2>3, <3>2 DEF n
      <4> QED
        BY <1>6, <2>2, <2>4, <3>1, <3>2, <4>1
    <3>3. CASE i # Len(g)
      <4>1. i \in 1..(Len(g) - 1) /\ i + 1 \in 1..Len(g)
        BY <1>6, <3>1, <3>3
      <4> QED
        BY <1>6, <2>3, <3>1, <4>1
    <3> QED
      BY <3>2, <3>3
  <2>6. ASSUME NEW v \in 0..(s.length - 1), w[1] <= On(v), On(v) <= w[2],
               On(v) < MonthStart(c + months)
        PROVE  \E i \in 1..Len(h) : h[i][1] <= v /\ v < h[i][2]
    <3>1. CASE On(v) < MonthStart(c)
      <4>1. PICK i \in 1..Len(g) : g[i][1] <= v /\ v < g[i][2]
        BY <1>6, <2>6, <3>1
      <4>2. i \in 1..Len(h) /\ h[i] = g[i]
        BY <1>6, <2>3 DEF n
      <4> QED
        BY <4>1, <4>2
    <3>2. CASE ~ On(v) < MonthStart(c)
      <4>1. MonthStart(c) <= On(v)
        BY <1>3, <1>7, <3>2
      <4>2. r[1] <= v /\ v < r[2]
        BY <1>7, <2>2, <2>6, <4>1
      <4>3. n \in 1..Len(h)
        BY <2>3
      <4> QED
        BY <2>3, <4>2, <4>3
    <3> QED
      BY <3>1, <3>2
  <2>7. s.start <= MonthStart(c + months) /\ h[Len(h)][2] = Clipped(s, Before(s, c + months))
    BY <1>1, <1>3, <1>4, <2>1, <2>2, <2>3
  <2>8. \A v \in 0..(s.length - 1) :
            w[1] <= On(v) /\ On(v) <= w[2] /\ On(v) < MonthStart(c + months)
              => \E i \in 1..Len(h) : h[i][1] <= v /\ v < h[i][2]
    BY <2>6
  <2>9. \A i \in 1..(Len(h) - 1) : h[i][2] = h[i + 1][1]
    BY <2>5
  <2> QED
    BY <2>3, <2>7, <2>8, <2>9 DEF Gathered, Pairs, On, months
<1>9. CASE MonthStart(c) \notin DOMAIN st
  <2>1. h = g
    BY <1>9
  <2>2. s.start <= MonthStart(c) => Before(s, c) >= s.length
    BY <1>1, <1>3, <1>5, <1>9
  <2>3. ASSUME Len(g) # 0
        PROVE  s.start <= MonthStart(c + months)
               /\ g[Len(g)][2] = Clipped(s, Before(s, c + months))
    <3>1. s.start <= MonthStart(c) /\ g[Len(g)][2] = Clipped(s, Before(s, c))
      BY <1>6, <2>3
    <3>2. Before(s, c) >= s.length /\ Before(s, c + months) >= s.length
      BY <1>1, <1>3, <1>4, <2>2, <3>1
    <3> QED
      BY <1>1, <1>3, <1>4, <3>1, <3>2 DEF Clipped
  <2>4. ASSUME NEW v \in 0..(s.length - 1), w[1] <= On(v), On(v) <= w[2],
               On(v) < MonthStart(c + months)
        PROVE  \E i \in 1..Len(g) : g[i][1] <= v /\ v < g[i][2]
    <3>1. On(v) < MonthStart(c)
      <4> SUFFICES ASSUME ~ On(v) < MonthStart(c) PROVE FALSE
        OBVIOUS
      <4>1. MonthStart(c) <= On(v)
        BY <1>3, <1>7
      <4>2. s.start <= MonthStart(c) /\ Before(s, c) <= v
        BY <1>7, <2>4, <4>1
      <4> QED
        BY <1>1, <1>3, <2>2, <4>2
    <3> QED
      BY <1>6, <2>4, <3>1
  <2>5. \A v \in 0..(s.length - 1) :
            w[1] <= On(v) /\ On(v) <= w[2] /\ On(v) < MonthStart(c + months)
              => \E i \in 1..Len(g) : g[i][1] <= v /\ v < g[i][2]
    BY <2>4
  <2> QED
    BY <1>6, <2>1, <2>3, <2>5 DEF Gathered, On, months
<1> QED
  BY <1>8, <1>9

(* One turn of the loop of read_ts_window.                                 *)
LEMMA BlockIsRead ==
    ASSUME AlignedCalls, BlocksInv, ReadBlock
    PROVE  BlocksInv'
<1> DEFINE s == series
           w == window
           st == stored
           months == Months(s)
<1>1. /\ pc = "read" /\ blocks # << >> /\ blocks' = Tail(blocks)
      /\ got' = IF Head(blocks) \in DOMAIN st THEN Append(got, st[Head(blocks)]) ELSE got
      /\ pc' = pc /\ series' = s /\ window' = w /\ pos' = pos /\ stored' = st
  BY DEF ReadBlock
<1>2. /\ s \in Series /\ w \in Window /\ pos = s.length /\ Complete(s, st)
      /\ \E c \in Grid(months) : Coming(blocks, c, months, w[2]) /\ Gathered(s, w, got, c)
  BY <1>1 DEF BlocksInv
<1>3. PICK c \in Grid(months) : Coming(blocks, c, months, w[2]) /\ Gathered(s, w, got, c)
  BY <1>2
<1> HIDE DEF s, w, st
<1>4. months \in Span
  BY <1>2, SeriesFields DEF Months
<1>5. Head(blocks) = MonthStart(c) /\ Coming(Tail(blocks), c + months, months, w[2])
      /\ c + months \in Grid(months)
  BY <1>1, <1>3, <1>4, ComingBlocks, GridSteps
<1>6. Gathered(s, w, got', c + months)
  BY <1>1, <1>2, <1>3, <1>5, BlockIsGathered
<1>7. \E x \in Grid(months) : Coming(blocks', x, months, w[2]) /\ Gathered(s, w, got', x)
  BY <1>1, <1>5, <1>6
<1> QED
  BY <1>1, <1>2, <1>7 DEF BlocksInv, s, w, st

(* Splitting and reading begin with the block of the first day.            *)
LEMMA BlocksInvHolds ==
    ASSUME AlignedCalls PROVE BlocksSpec => []BlocksInv
<1>1. BlocksInit => BlocksInv
  BY DEF BlocksInit, BlocksInv
<1>2. BlocksInv /\ [BlocksNext]_blocksVars => BlocksInv'
  <2> SUFFICES ASSUME BlocksInv, [BlocksNext]_blocksVars PROVE BlocksInv'
    OBVIOUS
  <2> DEFINE s == series
             months == Months(s)
  <2>1. /\ s \in Series /\ window \in Window
        /\ s.start \in Int /\ s.length \in Nat \ {0} /\ s.minutes \in Nat \ {0}
        /\ s.start >= YearStart(5) /\ months \in Span
    BY SeriesFields DEF BlocksInv, Months
  <2>2. CASE WriteBegin
    <3>1. /\ pc = "idle" /\ pc' = "write"
          /\ blocks' = GenerateBlockStarts(s.start, EndOf(s), months)
          /\ series' = s /\ window' = window /\ pos' = pos
          /\ stored' = stored /\ got' = got
      BY <2>2 DEF WriteBegin, Months
    <3>2. EndOf(s) \in Int
      <4> DEFINE n == s.length * s.minutes
      <4>1. n \in Nat
        BY <2>1
      <4> HIDE DEF n
      <4>2. n \div 1440 \in Int
        BY <4>1
      <4> QED
        BY <2>1, <4>2 DEF EndOf, n
    <3> HIDE DEF months
    <3>3. PICK c \in Grid(months) :
              /\ Coming(blocks', c, months, EndOf(s))
              /\ MonthStart(c) <= s.start /\ s.start < MonthStart(c + months)
      BY <2>1, <3>1, <3>2, GeneratedBlocks
    <3>4. PICK x \in Grid(months) : s.start = MonthStart(x)
      BY <2>1 DEF AlignedCalls, Aligned, Months, months
    <3>5. c = x
      <4>1. /\ c \in Nat /\ c >= 60 /\ x \in Nat /\ x >= 60
            /\ c + months \in Nat /\ c + months >= 60
        BY <2>1 DEF Grid, Span
      <4>2. ~ MonthStart(x) < MonthStart(c) /\ MonthStart(x) < MonthStart(c + months)
        <5>1. MonthStart(c) \in Int /\ MonthStart(x) \in Int
          BY <4>1, MonthsInOrder
        <5> QED
          BY <3>3, <3>4, <5>1
      <4>3. ~ x < c /\ x < c + months
        BY <4>1, <4>2, MonthsInOrder
      <4>4. c < x => c + months <= x
        BY <2>1, GridSteps
      <4> QED
        BY <4>1, <4>3, <4>4
    <3>6. Before(s, c) = 0
      <4>1. PerDay(s) \in Nat
        BY <2>1, SeriesFields
      <4>2. MonthStart(c) - s.start = 0
        BY <2>1, <3>4, <3>5
      <4> QED
        BY <4>1, <4>2 DEF Before
    <3>7. pos = 0 /\ DOMAIN stored = {} /\ got = << >>
      BY <3>1 DEF BlocksInv
    <3>8. pos' = Clipped(s, Before(s, c))
      BY <2>1, <3>1, <3>6, <3>7 DEF Clipped
    <3>9. StoredUpTo(s, stored', c)
      <4>1. Written(s, c) = {}
        <5> SUFFICES ASSUME NEW z \in Written(s, c) PROVE FALSE
          OBVIOUS
        <5>1. z \in Nat /\ z >= 60 /\ z < c /\ s.start <= MonthStart(z)
              /\ c \in Nat /\ c >= 60
          BY DEF Written, Grid
        <5>2. MonthStart(z) < MonthStart(c) /\ MonthStart(z) \in Int
          BY <5>1, MonthsInOrder
        <5> QED
          BY <2>1, <3>4, <3>5, <5>1, <5>2
      <4> QED
        BY <3>1, <3>7, <4>1 DEF StoredUpTo
    <3>10. s.start <= MonthStart(c)
      BY <2>1, <3>4, <3>5
    <3> QED
      BY <2>1, <3>1, <3>3, <3>7, <3>8, <3>9, <3>10 DEF BlocksInv, months
  <2>3. CASE WriteBlock
    BY <2>3, BlockIsFilled
  <2>4. CASE WriteEnd
    BY <2>4, SeriesIsStored
  <2>5. CASE ReadBegin
    <3>1. /\ pc = "ready" /\ pc' = "read"
          /\ blocks' = GenerateBlockStarts(window[1], window[2], months)
          /\ series' = s /\ window' = window /\ pos' = pos
          /\ stored' = stored /\ got' = got
      BY <2>5 DEF ReadBegin, Months
    <3>2. window[1] \in Int /\ window[2] \in Int /\ window[1] >= YearStart(5)
      BY <2>1, BlocksAssumption DEF AlignedCalls
    <3> HIDE DEF months
    <3>3. PICK c \in Grid(months) : /\ Coming(blocks', c, months, window[2])
                                   /\ MonthStart(c) <= window[1]
      BY <2>1, <3>1, <3>2, GeneratedBlocks
    <3>4. pos = s.length /\ Complete(s, stored) /\ got = << >>
      BY <3>1 DEF BlocksInv
    <3>5. MonthStart(c) \in Int
      BY MonthStartGrows DEF Grid
    <3>6. Gathered(s, window, << >>, c)
      <4>1. << >> \in Seq((0..s.length) \X (0..s.length)) /\ Len(<< >>) = 0
        OBVIOUS
      <4>2. ASSUME NEW v \in 0..(s.length - 1),
                   window[1] <= s.start + (v * s.minutes) \div 1440,
                   s.start + (v * s.minutes) \div 1440 < MonthStart(c)
            PROVE  FALSE
        <5> DEFINE n == v * s.minutes
                   q == n \div 1440
        <5>1. n \in Nat
          BY <2>1
        <5> HIDE DEF n
        <5>2. q \in Int
          BY <5>1
        <5>3. window[1] <= s.start + q /\ s.start + q < MonthStart(c)
          BY <4>2 DEF n
        <5> HIDE DEF q
        <5> QED
          BY <2>1, <3>2, <3>3, <3>5, <5>2, <5>3
      <4> QED
        BY <4>1, <4>2 DEF Gathered
    <3>7. \E x \in Grid(months) : Coming(blocks', x, months, window[2])
                                 /\ Gathered(s, window, got', x)
      BY <3>1, <3>3, <3>4, <3>6
    <3> QED
      BY <2>1, <3>1, <3>4, <3>7 DEF BlocksInv, months
  <2>6. CASE ReadBlock
    BY <2>6, BlockIsRead
  <2>7. CASE ReadEnd
    BY <2>7 DEF ReadEnd, BlocksInv
  <2>8. CASE UNCHANGED blocksVars
    BY <2>8 DEF blocksVars, BlocksInv
  <2> QED
    BY <2>2, <2>3, <2>4, <2>5, <2>6, <2>7, <2>8 DEF BlocksNext
<1> QED
  BY <1>1, <1>2, PTL DEF BlocksSpec

(* write_ts_multi and read_ts_window take blocks that are days, write and read *)
(* within the values there are, and never count more than those.           *)
THEOREM BlocksTypesCorrect ==
    ASSUME AlignedCalls PROVE BlocksSpec => []BlocksTypeOK
<1>1. BlocksInv => BlocksTypeOK
  <2> SUFFICES ASSUME BlocksInv PROVE BlocksTypeOK
    OBVIOUS
  <2> DEFINE s == series
             Pairs == (0..s.length) \X (0..s.length)
  <2>1. /\ s \in Series /\ window \in Window
        /\ s.length \in Nat \ {0} /\ Months(s) \in Span
    BY SeriesFields DEF BlocksInv, Months
  <2>2. blocks \in Seq(Int)
    <3>1. CASE pc \in {"idle", "ready", "done"}
      <4>1. blocks = << >>
        BY <3>1 DEF BlocksInv
      <4> QED
        BY <4>1
    <3>2. CASE pc \in {"write", "read"}
      <4>1. \E c \in Grid(Months(s)) : \E end : Coming(blocks, c, Months(s), end)
        BY <3>2 DEF BlocksInv
      <4> QED
        BY <2>1, <4>1, ComingBlocks
    <3> QED
      BY <3>1, <3>2 DEF BlocksInv
  <2>3. \A c \in Grid(Months(s)) : s.start <= MonthStart(c)
                                    => Clipped(s, Before(s, c)) \in 0..s.length
    BY <2>1, BeforeGrows
  <2>4. pos \in 0..s.length
    <3>1. CASE pc = "idle"
      BY <2>1, <3>1 DEF BlocksInv
    <3>2. CASE pc = "write"
      <4>1. PICK c \in Grid(Months(s)) : s.start <= MonthStart(c)
                                         /\ pos = Clipped(s, Before(s, c))
        BY <3>2 DEF BlocksInv
      <4> QED
        BY <2>3, <4>1
    <3>3. CASE pc \in {"ready", "read", "done"}
      BY <2>1, <3>3 DEF BlocksInv
    <3> QED
      BY <3>1, <3>2, <3>3 DEF BlocksInv
  <2>5. ASSUME NEW block \in DOMAIN stored PROVE stored[block] \in Pairs
    <3>1. pc # "idle"
      BY <2>5 DEF BlocksInv
    <3>2. PICK c \in Grid(Months(s)) : StoredUpTo(s, stored, c)
      BY <3>1 DEF BlocksInv, Complete
    <3>3. PICK x \in Written(s, c) : block = MonthStart(x)
      BY <2>5, <3>2 DEF StoredUpTo
    <3>4. stored[block] = <<Before(s, x), Clipped(s, Before(s, x + Months(s)))>>
      BY <3>2, <3>3 DEF StoredUpTo
    <3>5. /\ x \in Grid(Months(s)) /\ s.start <= MonthStart(x)
          /\ Before(s, x) < s.length
      BY DEF Written
    <3>6. Before(s, x) \in Nat /\ MonthStart(x) \in Int /\ s.start \in Int
      BY <2>1, <3>5, BeforeGrows, SeriesFields
    <3>7. x + Months(s) \in Grid(Months(s)) /\ x < x + Months(s)
      BY <2>1, <3>5, GridSteps DEF Grid, Span
    <3>8. MonthStart(x) < MonthStart(x + Months(s)) /\ MonthStart(x + Months(s)) \in Int
      <4>1. /\ x \in Nat /\ x >= 60
            /\ x + Months(s) \in Nat /\ x + Months(s) >= 60
        BY <3>5, <3>7 DEF Grid
      <4> QED
        BY <3>7, <4>1, MonthsInOrder
    <3>9. Clipped(s, Before(s, x + Months(s))) \in 0..s.length
      BY <2>3, <3>5, <3>6, <3>7, <3>8
    <3> QED
      BY <2>1, <3>4, <3>5, <3>6, <3>9
  <2>6. got \in Seq(Pairs)
    <3>1. CASE pc \in {"idle", "write", "ready"}
      <4>1. got = << >>
        BY <3>1 DEF BlocksInv
      <4> QED
        BY <4>1
    <3>2. CASE pc \in {"read", "done"}
      BY <3>2 DEF BlocksInv, Gathered
    <3> QED
      BY <3>1, <3>2 DEF BlocksInv
  <2> QED
    BY <2>1, <2>2, <2>4, <2>5, <2>6 DEF BlocksInv, BlocksTypeOK
<1> QED
  BY <1>1, BlocksInvHolds, PTL

(* No value of a series is left over when write_ts_multi has gone through the *)
(* blocks, wherever the series ends and however many blocks it needs.      *)
THEOREM SeriesStaysWhole ==
    ASSUME AlignedCalls PROVE BlocksSpec => []SeriesIsWhole
<1>1. BlocksInv => SeriesIsWhole
  BY DEF BlocksInv, SeriesIsWhole
<1> QED
  BY <1>1, BlocksInvHolds, PTL

(* values_in_block and generate_block_starts agree: a chunk begins with the *)
(* very moment its block begins.                                           *)
THEOREM ChunksAreAligned ==
    ASSUME AlignedCalls PROVE BlocksSpec => []ChunksBeginWithTheirBlock
<1>1. BlocksInv => ChunksBeginWithTheirBlock
  <2> SUFFICES ASSUME BlocksInv, NEW block \in DOMAIN stored
               PROVE  stored[block][1] * series.minutes = (block - series.start) * 1440
    BY DEF ChunksBeginWithTheirBlock
  <2> DEFINE s == series
             m == s.minutes
             d == PerDay(s)
             a == block - s.start
  <2>1. /\ s \in Series /\ s.start \in Int /\ m \in Nat \ {0}
        /\ d \in Nat \ {0} /\ d * m = 1440
    BY SeriesFields DEF BlocksInv
  <2>2. pc # "idle"
    BY DEF BlocksInv
  <2>3. PICK c \in Grid(Months(s)) : StoredUpTo(s, stored, c)
    BY <2>2 DEF BlocksInv, Complete
  <2>4. PICK x \in Written(s, c) : block = MonthStart(x)
    BY <2>3 DEF StoredUpTo
  <2>5. stored[block][1] = Before(s, x)
    BY <2>3, <2>4 DEF StoredUpTo
  <2>6. MonthStart(x) \in Int
    BY MonthStartGrows DEF Written, Grid
  <2>7. stored[block][1] = a * d /\ a \in Int
    BY <2>1, <2>4, <2>5, <2>6 DEF Before
  <2> HIDE DEF a, d, m
  <2>8. (a * d) * m = a * (d * m)
    BY <2>1, <2>7
  <2> QED
    BY <2>1, <2>7, <2>8 DEF a, m
<1> QED
  BY <1>1, BlocksInvHolds, PTL

(* read_ts_window misses no value of its window and puts none in a wrong   *)
(* place, whether the window begins before, in or behind the series.       *)
THEOREM WindowsAreCovered ==
    ASSUME AlignedCalls PROVE BlocksSpec => []WindowIsCovered
<1>1. BlocksInv => WindowIsCovered
  <2> SUFFICES ASSUME BlocksInv, pc = "done" PROVE WindowIsCovered
    BY DEF WindowIsCovered
  <2> DEFINE s == series
             w == window
             On(v) == s.start + (v * s.minutes) \div 1440
  <2>1. s \in Series /\ w \in Window /\ blocks = << >>
    BY DEF BlocksInv
  <2>2. PICK c \in Grid(Months(s)) : /\ Coming(blocks, c, Months(s), w[2])
                                      /\ Gathered(s, w, got, c)
    BY DEF BlocksInv
  <2>3. /\ s.start \in Int /\ s.length \in Nat \ {0} /\ s.minutes \in Nat \ {0}
        /\ Months(s) \in Span /\ w[2] \in Int
    BY <2>1, SeriesFields, BlocksAssumption DEF Months
  <2>4. MonthStart(c) > w[2] /\ MonthStart(c) \in Int
    BY <2>1, <2>2, <2>3, ComingBlocks, MonthStartGrows DEF Grid
  <2>5. /\ got \in Seq((0..s.length) \X (0..s.length))
        /\ \A i \in 1..(Len(got) - 1) : got[i][2] = got[i + 1][1]
        /\ \A v \in 0..(s.length - 1) :
               w[1] <= On(v) /\ On(v) <= w[2] /\ On(v) < MonthStart(c)
                 => \E i \in 1..Len(got) : got[i][1] <= v /\ v < got[i][2]
    BY <2>2 DEF Gathered
  <2>6. \A v \in 0..(s.length - 1) : On(v) \in Int
    <3> TAKE v \in 0..(s.length - 1)
    <3> DEFINE n == v * s.minutes
    <3>1. n \in Int
      BY <2>3
    <3> HIDE DEF n
    <3>2. n \div 1440 \in Int
      BY <3>1
    <3> QED
      BY <2>3, <3>2 DEF n
  <2> HIDE DEF On
  <2>7. \A v \in 0..(s.length - 1) :
            w[1] <= On(v) /\ On(v) <= w[2]
              => \E i \in DOMAIN got : got[i][1] <= v /\ v < got[i][2]
    <3> SUFFICES ASSUME NEW v \in 0..(s.length - 1), w[1] <= On(v), On(v) <= w[2]
                 PROVE  \E i \in DOMAIN got : got[i][1] <= v /\ v < got[i][2]
      OBVIOUS
    <3>1. On(v) < MonthStart(c)
      BY <2>3, <2>4, <2>6
    <3>2. DOMAIN got = 1..Len(got)
      BY <2>5
    <3> QED
      BY <2>5, <3>1, <3>2
  <2> QED
    BY <2>5, <2>7 DEF WindowIsCovered, Wanted, DayOf, On
<1> QED
  BY <1>1, BlocksInvHolds, PTL
=============================================================================
