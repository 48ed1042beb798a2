---------------------------- MODULE MCDssBlocks -----------------------------
(***************************************************************************)
(* Series and windows for TLC.                                             *)
(***************************************************************************)
EXTENDS DssBlocks

Call(e, minutes, start, length) ==
    [e |-> e, minutes |-> minutes, start |-> start, length |-> length]
Day(y, m, d) == YearMonthDayToJulian(y, m, d)

\* Series that begin with a block, over the ends of February and of the year.
MCAligned ==
    {Call("1HOUR", 60, Day(1999, 12, 1), 24 * 40),
     Call("12HOUR", 720, Day(1999, 11, 1), 2 * 130),
     Call("12HOUR", 720, Day(2000, 2, 1), 2 * 29),
     Call("1DAY", 1440, Day(1999, 1, 1), 365 + 366 + 10),
     Call("1DAY", 1440, Day(2000, 1, 1), 366)}
MCWindow ==
    LET days == {Day(1999, 12, 31), Day(2000, 1, 1), Day(2000, 1, 20),
                 Day(2000, 2, 29), Day(2000, 3, 1), Day(2000, 12, 31)}
    IN  {w \in days \X days : w[1] <= w[2]}

MCMiddle == {Call("1DAY", 1440, Day(2000, 7, 1), 366)}
MCWeekly == {Call("1WEEK", 10080, Day(2000, 1, 1), 417)}
MCYearly == {Call("1YEAR", 525600, Day(2000, 1, 1), 30)}
MCFifteen == {<<Day(2015, 1, 1), Day(2018, 12, 31)>>}
=============================================================================
