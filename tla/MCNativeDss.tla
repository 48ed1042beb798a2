---------------------------- MODULE MCNativeDss -----------------------------
(***************************************************************************)
(* Small instances of NativeDss for TLC.  Of three names the first two     *)
(* have one slot of the hash table between them and also one pathname      *)
(* hash, which the program compares where it does not compare the names.   *)
(***************************************************************************)
EXTENDS NativeDssSqueeze, NativeDssClaims, NativeDssRecovery

CONSTANTS p, q, r

MCPath == {p, q, r}
MCCollide  == [x \in MCPath |-> IF x = r THEN 1 ELSE 0]
MCPathHash == [x \in MCPath |-> IF x = r THEN 2 ELSE 1]

\* Two names, each with its own slot.
MCTwo == {p, r}
MCCollideTwo  == [x \in MCTwo |-> IF x = r THEN 1 ELSE 0]
MCPathHashTwo == [x \in MCTwo |-> IF x = r THEN 2 ELSE 1]
=============================================================================
