------------------------------ MODULE MCDssCopy ------------------------------
(***************************************************************************)
(* Small instances of DssCopy for TLC: of three names two have one slot of *)
(* the hash table between them.                                            *)
(***************************************************************************)
EXTENDS DssCopy

CONSTANTS p, q, r, x1, x2

MCPath == {p, q, r}
MCHash == [path \in MCPath |-> IF path = r THEN 1 ELSE 0]
MCPathHash ==
    [path \in MCPath |-> IF path = p THEN 1 ELSE IF path = q THEN 2 ELSE 3]

\* One record of each form; the destination's own texts are x2.
MCStorable ==
    {TextRecord(x1), TextRecord(Empty), TsIrregularRecord(x1),
     PdRecord("ordinates", x1, "units", "labels"),
     ArrayRecord({"v1", "v3"}, x1), LocationRecord(x1, "supplemental"),
     GridRecord(x1)}
=============================================================================
