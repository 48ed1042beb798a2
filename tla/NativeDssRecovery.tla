------------------------- MODULE NativeDssRecovery --------------------------
(***************************************************************************)
(* What is found in a file without its hash table: the scan for records    *)
(* that recovery starts from, and the integrity check.                     *)
(***************************************************************************)
EXTENDS NativeDss, Functions

\* parse_v7_info: the name and the type in the info block; its status word is
\* written once and never again, so that it tells nothing.
Scanned(f, addr) == [path |-> f.cells[addr].path, type |-> f.cells[addr].type]

\* Faulty: the scan ends at FILE_SIZE less one record.
InfoAddressesShort(f) ==
    LET scanned == 1..(f.hdr.fileSize - 4)
    IN  Selected([i \in scanned |-> i], {i \in scanned : HasTag(f, i, "info")})

\* The addresses of all words that hold the flag of an info block.
InfoAddresses(f) ==
    LET scanned == 1..Len(f.cells)
    IN  Selected([i \in scanned |-> i], {i \in scanned : HasTag(f, i, "info")})

ScanRecords(f) ==
    LET addrs == InfoAddresses(f)
    IN  [i \in DOMAIN addrs |-> Scanned(f, addrs[i])]

\* check_file, but for the words of the header that never change.  read_from
\* gives no info block where the flag is wrong, so that the flag which is
\* then compared is always right.
CheckFile(f) ==
    (IF FirstBin >= f.hdr.fileSize THEN {"first bin"} ELSE {})
      \cup {f.cells[slot].path : slot \in
               {s \in Range(ReadAllBins(f)) :
                   /\ f.cells[s].status = "PRIMARY"
                   /\ HasInfo(f, s)
                   /\ f.cells[f.cells[s].info].tag # "info"}}

-----------------------------------------------------------------------------
\* The places of the entries that are the first for their info block.
Firsts(entries) ==
    {k \in 1..Len(entries) :
        \A j \in 1..(k - 1) : entries[j].info # entries[k].info}

\* The scan meets the records of the bins, each once, in the order in which
\* they were stored.
FirstEntries(f) ==
    LET slots   == ReadAllBins(f)
        entries == [k \in 1..Len(slots) |-> f.cells[slots[k]]]
    IN  Selected(entries, Firsts(entries))
ScanAgrees(f) ==
    LET firsts == FirstEntries(f)
    IN  /\ InfoAddresses(f) = [k \in DOMAIN firsts |-> firsts[k].info]
        /\ ScanRecords(f) = [k \in DOMAIN firsts |->
               [path |-> firsts[k].path, type |-> firsts[k].type]]
        /\ Len(firsts) = f.hdr.numberRecords

(* Until a bin block is allocated in the middle of storing a record, the   *)
(* scan for info blocks recovers what was ever stored and not squeezed     *)
(* away: name and type of each record, in the order of the bins, deleted   *)
(* ones too, aliases not, and nothing else.                                *)
ScanFindsRecords ==
    /\ ~ file.spilled => ScanAgrees(file)
    /\ ~ tmp.spilled => ScanAgrees(tmp)

(* check_file: "Validates: ... bin entry consistency, info block flags".   *)
(* A file in which a live entry leads to no info block has issues.         *)
CheckFindsBadEntries ==
    \A slot \in Range(ReadAllBins(file)) :
        file.cells[slot].status = "PRIMARY" /\ ~ HasInfo(file, slot)
          => CheckFile(file) # {}
=============================================================================
