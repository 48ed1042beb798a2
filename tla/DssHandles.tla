----------------------------- MODULE DssHandles -----------------------------
(***************************************************************************)
(* Handles on one file at the grain of single writes: each operation of a  *)
(* handle is the sequence of its write_words calls, with the header it     *)
(* keeps in memory changing in between.  A process may die between two     *)
(* writes and open the file again, a write may fail and the handle go on,  *)
(* and the handles of several processes interleave, since none of them     *)
(* takes a lock.                                                           *)
(*                                                                         *)
(* A write of one cell, of a block of zeros or of a hash table slot is     *)
(* taken to happen as a whole; a header may be left torn by a crash or an  *)
(* error, the words up to some place new and those behind it old.  An      *)
(* entry is one cell and replaces what was in its slot; in the file it has *)
(* as many words as its name needs, and when a slot left over from a crash *)
(* had an entry with a longer name, the words behind the new entry stay    *)
(* those of the old one.  What the readers of the bins make of them is not *)
(* in the model.                                                           *)
(***************************************************************************)
EXTENDS DssImage, SequencesExt

CONSTANTS
    Handle,        \* NativeDssFile values open on the file
    Storable,      \* the records that callers store
    MaxBins,       \* bound: no record or alias is begun beyond this many bins
    MaxDeletes,    \* bound: number of delete and alias_remove calls
    MaxFaults,     \* bound: number of crashes and failed writes
    TornAt         \* after how many words of HeaderOrder a header may be torn

ASSUME HandleAssumption ==
    /\ Storable \subseteq Record
    /\ MaxBins \in Nat /\ MaxDeletes \in Nat /\ MaxFaults \in Nat
    /\ TornAt \subseteq 0..10
    /\ Empty \notin Path

VARIABLES
    disk,          \* the file
    hdr,           \* the header each handle has in memory
    job,           \* the writes a handle has yet to do for its operation
    faults,        \* number of crashes and failed writes so far
    kept,          \* ghost: what a name read when a store of it completed
    settled        \* ghost: the file when the last operation completed; a new
                   \* file from the first fault on

ghosts == <<kept, settled>>
vars == <<disk, hdr, job, faults, ghosts>>

Init ==
    /\ disk = NewFile
    /\ hdr = [h \in Handle |-> NewFile.hdr]
    /\ job = [h \in Handle |-> << >>]
    /\ faults = 0
    /\ kept = [path \in Path |-> NoRecord]
    /\ settled = NewFile

\* The file as a handle sees it: its own header, everything else from disk.
View(h) == [disk EXCEPT !.hdr = hdr[h]]

-----------------------------------------------------------------------------
(* The writes of an operation.                                             *)

PutCell(at, cell)  == [do |-> "cell", at |-> at, cell |-> cell]
PutBlock           == [do |-> "block"]
PutPointer         == [do |-> "pointer"]
PutEntry(entry)    == [do |-> "entry", entry |-> entry]
PutHash(entry)     == [do |-> "hash", entry |-> entry]
PutStatus(slot, s) == [do |-> "status", slot |-> slot, status |-> s]

\* The last write of an operation; count is the counter that goes up, size
\* the new FILE_SIZE (0: as it is), path the name stored or Empty.
PutHeader(count, size, path) ==
    [do |-> "header", count |-> count, size |-> size, path |-> path]

\* write_text and its like write the areas in the order of the file.
RecordWrites(base, path, rec) ==
    LET at  == Layout(base, rec.content)
        eof == base + Size(rec.content)
        AreaAt(i) == CHOOSE a \in Area : at[a] = i
    IN  [i \in 1..(eof - base + 1) |->
            LET addr == base + i - 1
            IN  PutCell(addr, IF addr = base THEN Info(path, rec.type, at)
                              ELSE IF addr = eof THEN EofFlag
                              ELSE Data(rec.content[AreaAt(addr)]))]

\* Faulty: the block is never found to be full.
EntryWritesUnchecked(h, entry) == <<PutEntry(entry), PutHash(entry)>>

\* A full block is chained to a new one first; then the entry, then its slot
\* of the hash table.
EntryWrites(h, entry) ==
    (IF hdr[h]["binsRemain"] <= 0 THEN <<PutBlock, PutPointer>> ELSE << >>)
        \o <<PutEntry(entry), PutHash(entry)>>

\* Faulty: the header goes first.
StoreHeaderFirst(h, path, rec) ==
    LET base == hdr[h]["fileSize"]
    IN  <<PutHeader("numberRecords", base + Size(rec.content), path)>>
        \o RecordWrites(base, path, rec)
        \o EntryWrites(h, Entry(path, "PRIMARY", base, rec.type))

\* Faulty: the entry is on disk before the record it leads to.
StoreEntryFirst(h, path, rec) ==
    LET base == hdr[h]["fileSize"]
    IN  EntryWrites(h, Entry(path, "PRIMARY", base, rec.type))
        \o RecordWrites(base, path, rec)
        \o <<PutHeader("numberRecords", base + Size(rec.content), path)>>

StoreWrites(h, path, rec) ==
    LET base == hdr[h]["fileSize"]
    IN  RecordWrites(base, path, rec)
        \o EntryWrites(h, Entry(path, "PRIMARY", base, rec.type))
        \o <<PutHeader("numberRecords", base + Size(rec.content), path)>>

-----------------------------------------------------------------------------
(* Operations begin: what they read, they read here.                       *)

Idle(h) == job[h] = << >>
Room(h) == hdr[h]["totalBins"] < MaxBins

Begin(h, writes) ==
    /\ Idle(h)
    /\ job' = [job EXCEPT ![h] = writes]
    /\ UNCHANGED <<hdr, faults, ghosts>>

BeginStore(h, path, rec) ==
    /\ Room(h)
    /\ Begin(h, StoreWrites(h, path, rec))
    /\ disk' = [disk EXCEPT !.spilled = @ \/ hdr[h]["binsRemain"] <= 0]

BeginAlias(h, primary, alias) ==
    LET slot  == FindRecord(disk, primary)
        entry == disk.cells[slot]
    IN  /\ Room(h)
        /\ slot # 0
        /\ Begin(h, EntryWrites(h, Entry(alias, "ALIAS", entry.info, entry.type))
                    \o <<PutHeader("numberAliases", 0, Empty)>>)
        /\ UNCHANGED disk

BeginDelete(h, path) ==
    LET slot == FindRecord(disk, path)
    IN  /\ slot # 0
        /\ hdr[h]["numberDeletes"] < MaxDeletes
        /\ Begin(h, <<PutStatus(slot, "DELETED"),
                      PutHeader("numberDeletes", 0, Empty)>>)
        /\ UNCHANGED disk

\* alias_remove and undelete compare pathname hash and status.
SlotWith(path, status) ==
    LET slot == HashSlot(disk, path)
    IN  IF /\ HasTag(disk, slot, "entry")
           /\ PathHash[disk.cells[slot].path] = PathHash[path]
           /\ disk.cells[slot].status = status
        THEN slot ELSE 0

BeginAliasRemove(h, alias) ==
    LET slot == SlotWith(alias, "ALIAS")
    IN  /\ slot # 0
        /\ hdr[h]["numberAliasDeletes"] < MaxDeletes
        /\ Begin(h, <<PutStatus(slot, "ALIAS_DELETED"),
                      PutHeader("numberAliasDeletes", 0, Empty)>>)
        /\ UNCHANGED disk

\* undelete writes no header.
BeginUndelete(h, path) ==
    LET slot == SlotWith(path, "DELETED")
    IN  /\ slot # 0
        /\ Begin(h, <<PutStatus(slot, "PRIMARY")>>)
        /\ UNCHANGED disk

-----------------------------------------------------------------------------
(* One write.                                                              *)

\* Faulty: FILE_SIZE is the address of the record's last word.
ClosedShort(h, put) ==
    [hdr[h] EXCEPT ![put.count] = @ + 1,
                   !["fileSize"] = IF put.size = 0 THEN @ ELSE put.size - 1]

\* The header after the last change an operation makes to it.
Closed(h, put) ==
    [hdr[h] EXCEPT ![put.count] = @ + 1,
                   !["fileSize"] = IF put.size = 0 THEN @ ELSE put.size]

Overwrite(at, cell) ==
    [i \in 1..Extent(disk.cells, at + 1) |->
        IF i = at THEN cell ELSE CellAt(disk.cells, i)]

Zeroed(start, end) ==
    [i \in 1..Extent(disk.cells, end) |->
        IF i \in start..(end - 1) THEN Zero ELSE CellAt(disk.cells, i)]

\* Faulty: the place of the last slot in use.
LastSlot(h) == hdr[h]["nextBin"] - BinSize

\* In a full block the next slot's place is that of the overflow word.
OverflowWord(h) == hdr[h]["nextBin"]

\* The file after a write of handle h.
Written(h, put) ==
    LET start == hdr[h]["fileSize"]
        end   == start + BlockSize
    IN  CASE put.do = "cell" ->
                 [disk EXCEPT !.cells = Overwrite(put.at, put.cell)]
          [] put.do = "block" -> [disk EXCEPT !.cells = Zeroed(start, end)]
          [] put.do = "pointer" ->
                 [disk EXCEPT !.cells = Overwrite(OverflowWord(h), Ptr(start))]
          [] put.do = "entry" ->
                 [disk EXCEPT !.cells = Overwrite(hdr[h]["nextBin"], put.entry)]
          [] put.do = "hash" ->
                 [disk EXCEPT !.hash = TakeSlot(View(h), put.entry).hash]
          [] put.do = "status" -> SetStatus(disk, put.slot, put.status)
          [] put.do = "header" -> [disk EXCEPT !.hdr = Closed(h, put)]

\* The header in memory after it: allocate_new_bin_block changes it behind
\* the overflow pointer, write_bin_entry behind the hash table slot.
Remembered(h, put) ==
    IF put.do = "pointer" THEN AllocateNewBinBlock(View(h)).hdr
    ELSE IF put.do = "hash" THEN TakeSlot(View(h), put.entry).hdr
    ELSE IF put.do = "header" THEN Closed(h, put)
    ELSE hdr[h]

\* The ghosts when the last write of an operation is done.  A name is kept
\* when it is found through the entry that the store has just made.
Complete(h, put) ==
    IF Len(job[h]) > 1 THEN UNCHANGED ghosts
    ELSE /\ settled' = IF faults = 0 THEN disk' ELSE NewFile
         /\ kept' = [path \in Path |->
                        IF /\ put.do = "header" /\ put.path = path
                           /\ FindRecord(disk', path) # 0
                           /\ FindRecord(disk', path)
                                = hdr[h]["nextBin"] - BinSize
                        THEN ReadRecord(disk', path) ELSE kept[path]]

Write(h) ==
    /\ ~ Idle(h)
    /\ LET put == Head(job[h])
       IN  /\ disk' = Written(h, put)
           /\ hdr' = [hdr EXCEPT ![h] = Remembered(h, put)]
           /\ Complete(h, put)
    /\ job' = [job EXCEPT ![h] = Tail(@)]
    /\ UNCHANGED faults

\* The words of the header in the order of the file, which is the order in
\* which write_words writes them.
HeaderOrder ==
    <<"numberRecords", "numberAliases", "fileSize", "numberDeletes",
      "numberAliasDeletes", "hashsUsed", "binsRemain", "nextBin", "totalBins",
      "binsOverflow">>

\* The header on disk when its write ends after n of these words.
Torn(h, put, n) ==
    [w \in HeaderWord |->
        IF \E i \in 1..n : HeaderOrder[i] = w
        THEN Closed(h, put)[w] ELSE disk.hdr[w]]

\* The operation ends at its next write, which may be done in part.
BreakOff(h) ==
    /\ ~ Idle(h)
    /\ faults < MaxFaults
    /\ faults' = faults + 1
    /\ \/ UNCHANGED disk
       \/ /\ Head(job[h]).do = "header"
          /\ \E n \in TornAt : disk' = [disk EXCEPT !.hdr = Torn(h, Head(job[h]), n)]
    /\ job' = [job EXCEPT ![h] = << >>]
    /\ settled' = NewFile
    /\ UNCHANGED kept

\* A write fails and the operation returns its error.  Of the header only
\* what was changed before the write is kept.
Fail(h) ==
    /\ BreakOff(h)
    /\ LET put == Head(job[h])
       IN  hdr' = [hdr EXCEPT ![h] =
                      IF put.do = "header" THEN Closed(h, put) ELSE @]

\* The process dies in an operation; another opens the file.
Crash(h) ==
    /\ BreakOff(h)
    /\ hdr' = [hdr EXCEPT ![h] = disk'.hdr]

\* A handle is dropped and the file opened again.
Reopen(h) ==
    /\ Idle(h)
    /\ hdr' = [hdr EXCEPT ![h] = disk.hdr]
    /\ UNCHANGED <<disk, job, faults, ghosts>>

-----------------------------------------------------------------------------

Store(h) == \E path \in Path, rec \in Storable : BeginStore(h, path, rec)
Alias(h) == \E primary, alias \in Path : BeginAlias(h, primary, alias)
Mark(h) ==
    \E path \in Path :
        BeginDelete(h, path) \/ BeginUndelete(h, path) \/ BeginAliasRemove(h, path)

Next ==
    \E h \in Handle :
        Store(h) \/ Alias(h) \/ Mark(h) \/ Write(h) \/ Fail(h) \/ Crash(h)
        \/ Reopen(h)

Spec == Init /\ [][Next]_vars

-----------------------------------------------------------------------------
Put ==
    [do : {"cell"}, at : Nat, cell : Cell]
      \cup [do : {"block", "pointer"}]
      \cup [do : {"entry", "hash"}, entry : Cell]
      \cup [do : {"status"}, slot : Nat, status : Status]
      \cup [do : {"header"}, count : HeaderWord, size : Nat,
            path : Path \cup {Empty}]

(* The variables have their types.                                         *)
HandlesTypeOK ==
    /\ disk \in Image
    /\ settled \in Image
    /\ hdr \in [Handle -> Header]
    /\ job \in [Handle -> Seq(Put)]
    /\ faults \in 0..MaxFaults
    /\ kept \in [Path -> Record \cup {NoRecord}]

(* A name that is found through the entry of a completed store reads that  *)
(* record ever after: at every moment of every later operation, after      *)
(* operations that failed or died at any of their writes, and for the      *)
(* process that opens the file next.  Here and below: until a write        *)
(* allocates a bin block.                                                  *)
StoresAreDurable ==
    ~ disk.spilled =>
        \A path \in Path :
            kept[path] # NoRecord => ReadRecord(disk, path) = kept[path]

(* Whoever reads the file between the writes of an operation finds a name  *)
(* as it was or, from the write of the hash table slot on, a whole record  *)
(* as it was stored.  (The order of the writes; without crashes, which may *)
(* leave a name behind whose record the next operation overwrites.)        *)
ReadersSeeWhole ==
    [][~ disk'.spilled /\ faults = 0 =>
          \A path \in Path :
              \/ ReadRecord(disk', path) = ReadRecord(disk, path)
              \/ /\ ReadRecord(disk, path) = NoRecord
                 /\ ReadRecord(disk', path) \in Storable]_vars

(* The header on disk never counts a slot that has no entry yet, and the   *)
(* chain of blocks leads to all that it counts: what was committed stays   *)
(* in the catalog, whatever the moment of a crash.                         *)
CountedSlotsAreEntries ==
    ~ disk.spilled =>
        LET slots == SlotsInOrder(disk)
        IN  /\ disk.hdr.totalBins <= Len(slots)
            /\ \A k \in 1..disk.hdr.totalBins : HasTag(disk, slots[k], "entry")

(* A record that a completed store has made readable is also found by the  *)
(* walk of the bins: catalog, snapshots and squeeze do not miss it, even   *)
(* if the header was torn when the slots behind it were handed out.        *)
KeptAreListed ==
    ~ disk.spilled =>
        \A path \in Path :
            kept[path] # NoRecord =>
                FindRecord(disk, path) \in Range(ReadAllBins(disk))

Atomic == INSTANCE NativeDss
              WITH file <- settled, tmp <- NewFile, todo <- << >>, pc <- "idle",
                   Kind <- {"text", "ts", "its", "pd", "array", "location",
                            "grid"}

(* Without faults the writes of one handle add up to the operations of     *)
(* NativeDss: each of its sequences of writes leaves the file as the one   *)
(* step does, header included.                                             *)
ImplementsNativeDss ==
    /\ Atomic!Init
    /\ [][faults' = 0 => Atomic!Next]_settled

-----------------------------------------------------------------------------
(* What the repository says and the program does not keep.                 *)

(* write_text: "Header update (last for consistency)".  After a crash the  *)
(* file is consistent, so that a store that then completes can be read.    *)
(* (For names with a slot of the hash table each.)                         *)
StoredIsRead ==
    [][\A h \in Handle, path \in Path :
          /\ Write(h) /\ Head(job[h]).do = "header" /\ Head(job[h]).path = path
          => ReadRecord(disk', path) # NoRecord]_vars

(* crates/dss-core/README.md: "Thread-safe: file locking via fs2".  What   *)
(* one handle has stored another does not destroy.                         *)
SharedStoresSurvive == StoresAreDurable
=============================================================================
