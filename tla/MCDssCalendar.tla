--------------------------- MODULE MCDssCalendar ----------------------------
(***************************************************************************)
(* Walks across centuries with and without a leap day, across julian date  *)
(* 0 and at the first years for which the conversions are right.           *)
(***************************************************************************)
EXTENDS DssCalendar

MCEra ==
    {[year |-> 5,    day |-> -692133], [year |-> 1797, day |-> -37618],
     [year |-> 1897, day |-> -1094],   [year |-> 1997, day |-> 35430],
     [year |-> 2097, day |-> 71955]}
=============================================================================
