--------------------------- MODULE MCNativeDssLog ---------------------------
(***************************************************************************)
(* The small instances of MCNativeDss with the log as auxiliary variable.  *)
(***************************************************************************)
EXTENDS MCNativeDss, NativeDssLog
=============================================================================
