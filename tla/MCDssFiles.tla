----------------------------- MODULE MCDssFiles -----------------------------
(***************************************************************************)
(* Small instances of DssFiles for TLC.                                    *)
(***************************************************************************)
EXTENDS DssFiles

CONSTANTS p, q

MCPath == {p, q}
MCHash == [path \in MCPath |-> IF path = p THEN 0 ELSE 1]
MCPathHash == [path \in MCPath |-> IF path = p THEN 1 ELSE 2]
=============================================================================
