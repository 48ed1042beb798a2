---------------------------- MODULE MCDssClients -----------------------------
(***************************************************************************)
(* Small instances of DssClients for TLC: two names with a slot of the     *)
(* hash table each, values of different lengths, and internal headers with *)
(* as many curves, that fit some of the values and others not.             *)
(***************************************************************************)
EXTENDS DssClients, TLC

CONSTANTS p, q, x1, x2, t1, t2

MCPath == {p, q}
MCHash == [path \in MCPath |-> IF path = p THEN 0 ELSE 1]
MCPathHash == [path \in MCPath |-> IF path = p THEN 1 ELSE 2]

MCLength == [v \in {x1, x2} |-> IF v = x1 THEN 1 ELSE 3]

MCCurves == [v \in {x1, x2} |-> IF v = x1 THEN 1 ELSE 3]

MCSymmetry == Permutations({t1, t2})
=============================================================================
