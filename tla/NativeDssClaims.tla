-------------------------- MODULE NativeDssClaims ---------------------------
(***************************************************************************)
(* What comments and documentation of the repository say of a DSS file and *)
(* the program does not keep.  Each is refuted by a configuration of its   *)
(* own.                                                                    *)
(***************************************************************************)
EXTENDS NativeDss

(* allocate_new_bin_block: "Allocate a new bin block at EOF".  A block     *)
(* that starts at the end of the file lies over no record.                 *)
NewBlockAtEof == EntriesIntact(file)

(* hash.rs: the pathname hash "distinguishes pathnames within the same     *)
(* hash table bucket", so that every name of the catalog can be read.      *)
CatalogIsReadable ==
    pc = "idle" =>
        \A i \in DOMAIN Catalog(file) :
            ReadRecord(file, Catalog(file)[i].path) # NoRecord

(* test_undelete: a deleted record "should not be findable after delete".  *)
DeletedIsNotFound ==
    \A path \in Path :
        FindRecord(file, path) # 0 =>
            file.cells[FindRecord(file, path)].status # "DELETED"

(* squeeze: it "copies all non-deleted records".                           *)
SqueezeCopiesAll ==
    [][pc = "squeeze" /\ pc' = "idle"
       => \A i \in DOMAIN Catalog(file) :
              LET path == Catalog(file)[i].path
              IN  ReadRecord(file, path) # NoRecord
                    => ReadRecord(file', path) # NoRecord]_vars

-----------------------------------------------------------------------------
(* Change tracking.                                                        *)

\* A CRC is told apart from another by the data it is of.
GetDataCrc(f, path) == ReadRecord(f, path).content["v1"]

\* The snapshot lists the names of the catalog.
Listed(f) == {Catalog(f)[i].path : i \in DOMAIN Catalog(f)}
SnapshotCrcs(f) == [path \in Listed(f) |-> GetDataCrc(f, path)]

WhatChanged(before, after) ==
    [changed |-> {path \in DOMAIN before \cap DOMAIN after :
                     before[path] # after[path]},
     added   |-> DOMAIN after \ DOMAIN before,
     removed |-> DOMAIN before \ DOMAIN after]

(* change-tracking.md: two snapshots tell "which records have been         *)
(* modified, added, or removed" between them.  A listed record that is     *)
(* written again with other data has been modified.                        *)
ModifiedIsReported ==
    [][\A path \in Path, text \in Value :
          /\ WriteText(path, text)
          /\ path \in Listed(file)
          /\ text # GetDataCrc(file, path)
          => path \in WhatChanged(SnapshotCrcs(file),
                                  SnapshotCrcs(file')).changed]_vars

=============================================================================
