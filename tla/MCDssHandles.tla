---------------------------- MODULE MCDssHandles ----------------------------
(***************************************************************************)
(* Small instances of DssHandles for TLC.                                  *)
(***************************************************************************)
EXTENDS DssHandles

CONSTANTS p, q, x1, x2

MCPath == {p, q}
MCHash == [path \in MCPath |-> IF path = p THEN 0 ELSE 1]
MCPathHash == [path \in MCPath |-> IF path = p THEN 1 ELSE 2]

\* A record of three areas and two short ones.
MCStorable == {TextRecord(x1), PdRecord("ordinates", x2, "units", "labels")}
MCTexts == {TextRecord(x1), TextRecord(x2)}
MCSymmetry == Permutations({x1, x2})
=============================================================================
