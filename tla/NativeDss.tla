----------------------------- MODULE NativeDss ------------------------------
(***************************************************************************)
(* One NativeDssFile handle on one file: every operation of native.rs that *)
(* changes the file, each as one action, and squeeze as the steps of its   *)
(* loop over the catalog.  The methods take &mut self, so while squeeze    *)
(* runs no other operation of the handle does.                             *)
(*                                                                         *)
(* Between operations the header in memory and the header on disk are the  *)
(* same, so the image's hdr stands for both.  An operation that returns an *)
(* error before it has changed anything is no action.                      *)
(***************************************************************************)
EXTENDS DssImage

CONSTANTS
    Kind,          \* the write functions the callers use
    MaxBins,       \* bound: no record or alias is added beyond this many bins
    MaxDeletes     \* bound: number of delete and alias_remove calls per file

ASSUME BoundAssumption == MaxBins \in Nat /\ MaxDeletes \in Nat

VARIABLES
    file,          \* the file at path, open in the handle
    tmp,           \* the file at path.tmp while squeeze runs, else a new file
    todo,          \* the catalog entries squeeze has yet to copy
    pc             \* "idle", or "squeeze" inside squeeze's loop

vars == <<file, tmp, todo, pc>>

Init ==
    /\ file = NewFile
    /\ tmp = NewFile
    /\ todo = << >>
    /\ pc = "idle"

-----------------------------------------------------------------------------
(* Writing records.                                                        *)

Room(f) == f.hdr.totalBins < MaxBins

Store(path, rec) ==
    /\ pc = "idle"
    /\ Room(file)
    /\ file' = StoreRecord(file, path, rec)
    /\ UNCHANGED <<tmp, todo, pc>>

WriteText(path, text) ==
    "text" \in Kind /\ Store(path, TextRecord(text))

WriteTs(path, values) ==
    "ts" \in Kind /\ Store(path, TsRecord(values, "units"))

WriteTsIrregular(path, values) ==
    "its" \in Kind /\ Store(path, TsIrregularRecord(values))

WritePd(path, values, labels) ==
    "pd" \in Kind /\ Store(path, PdRecord("ordinates", values, "units", labels))

\* At least one of the three arrays must not be empty.
WriteArray(path, present, values) ==
    "array" \in Kind /\ present # {} /\ Store(path, ArrayRecord(present, values))

WriteLocation(path, loc, supplemental) ==
    "location" \in Kind /\ Store(path, LocationRecord(loc, supplemental))

WriteGrid(path, data) ==
    "grid" \in Kind /\ Store(path, GridRecord(data))

-----------------------------------------------------------------------------
(* Aliases, delete and undelete.                                           *)

\* The primary name is looked up like any other: it may be deleted, or an
\* alias itself.  The alias gets an entry of its own for the same info block.
AliasAdd(primary, alias) ==
    LET slot  == FindRecord(file, primary)
        entry == file.cells[slot]
        added == EnterBin(file, Entry(alias, "ALIAS", entry.info, entry.type))
    IN  /\ pc = "idle"
        /\ Room(file)
        /\ slot # 0
        /\ file' = Count(added, "numberAliases")
        /\ UNCHANGED <<tmp, todo, pc>>

\* Faulty: the status is not compared.
SlotWithHash(path, status) ==
    LET slot == HashSlot(file, path)
    IN  IF /\ HasTag(file, slot, "entry")
           /\ PathHash[file.cells[slot].path] = PathHash[path]
        THEN slot ELSE 0

\* The entry that alias_remove and undelete find: they compare the pathname
\* hash and the status, not the name.
SlotWith(path, status) ==
    LET slot == HashSlot(file, path)
    IN  IF /\ HasTag(file, slot, "entry")
           /\ PathHash[file.cells[slot].path] = PathHash[path]
           /\ file.cells[slot].status = status
        THEN slot ELSE 0

AliasRemove(alias) ==
    LET slot == SlotWith(alias, "ALIAS")
    IN  /\ pc = "idle"
        /\ slot # 0
        /\ file.hdr.numberAliasDeletes < MaxDeletes
        /\ file' = Count(SetStatus(file, slot, "ALIAS_DELETED"),
                         "numberAliasDeletes")
        /\ UNCHANGED <<tmp, todo, pc>>

Delete(path) ==
    LET slot == FindRecord(file, path)
    IN  /\ pc = "idle"
        /\ slot # 0
        /\ file.hdr.numberDeletes < MaxDeletes
        /\ file' = Count(SetStatus(file, slot, "DELETED"), "numberDeletes")
        /\ UNCHANGED <<tmp, todo, pc>>

Undelete(path) ==
    LET slot == SlotWith(path, "DELETED")
    IN  /\ pc = "idle"
        /\ slot # 0
        /\ file' = SetStatus(file, slot, "PRIMARY")
        /\ UNCHANGED <<tmp, todo, pc>>

-----------------------------------------------------------------------------
(* Squeeze.                                                                *)

\* The catalog is read and path.tmp created; an empty catalog ends it here.
SqueezeBegin ==
    /\ pc = "idle"
    /\ Catalog(file) # << >>
    /\ pc' = "squeeze"
    /\ todo' = Catalog(file)
    /\ tmp' = NewFile
    /\ UNCHANGED file

\* One turn of the loop: the entry's name is looked up and read again, and
\* what was read is written to the new file.
SqueezeEntry ==
    /\ pc = "squeeze"
    /\ todo # << >>
    /\ LET entry == Head(todo)
           rec   == ReadRecord(file, entry.path)
       IN  /\ ~ SqueezeFails(entry.type, rec)
           /\ tmp' = IF SqueezeCopies(entry.type, rec)
                     THEN StoreRecord(tmp, entry.path,
                                      SqueezeForm(entry.type, rec))
                     ELSE tmp
    /\ todo' = Tail(todo)
    /\ UNCHANGED <<file, pc>>

\* A reader's error leaves the file as it was, and path.tmp behind.
SqueezeAbort ==
    /\ pc = "squeeze"
    /\ todo # << >>
    /\ SqueezeFails(Head(todo).type, ReadRecord(file, Head(todo).path))
    /\ pc' = "idle"
    /\ tmp' = NewFile
    /\ todo' = << >>
    /\ UNCHANGED file

\* path.tmp is renamed over the file and opened in its place.
SqueezeEnd ==
    /\ pc = "squeeze"
    /\ todo = << >>
    /\ file' = tmp
    /\ tmp' = NewFile
    /\ pc' = "idle"
    /\ UNCHANGED todo

-----------------------------------------------------------------------------

Write ==
    \E path \in Path, v \in Value :
        \/ \E text \in {v, Empty} : WriteText(path, text)
        \/ WriteTs(path, v)
        \/ WriteTsIrregular(path, v)
        \/ \E labels \in {"labels", Empty} : WritePd(path, v, labels)
        \/ \E present \in SUBSET {"v1", "v2", "v3"} :
               WriteArray(path, present, v)
        \/ \E supplemental \in {"supplemental", Empty} :
               WriteLocation(path, v, supplemental)
        \/ WriteGrid(path, v)

Mark ==
    \E path \in Path : Delete(path) \/ Undelete(path) \/ AliasRemove(path)

Alias == \E primary, alias \in Path : AliasAdd(primary, alias)

Squeeze == SqueezeBegin \/ SqueezeEntry \/ SqueezeAbort \/ SqueezeEnd

Next == Write \/ Mark \/ Alias \/ Squeeze

Spec == Init /\ [][Next]_vars

-----------------------------------------------------------------------------
(* The variables have their types; todo holds entries of a catalog.        *)
TypeOK ==
    /\ file \in Image
    /\ tmp \in Image
    /\ pc \in {"idle", "squeeze"}

CountersAgree(f) ==
    /\ f.hdr.totalBins = f.hdr.numberRecords + f.hdr.numberAliases
    /\ f.hdr.totalBins + f.hdr.binsRemain
         = BinsPerBlock * (f.hdr.binsOverflow + 1)
    /\ f.hdr.binsRemain <= BinsPerBlock
    /\ f.hdr.hashsUsed = Cardinality({h \in 0..MaxHash-1 : f.hash[h] # 0})

(* The counters of a file agree: every bin in use is a record or an alias, *)
(* every bin of the blocks allocated so far is in use or remains, never    *)
(* more than a block of them, and each hash table slot set was counted     *)
(* once.  (write_bin_entry, allocate_new_bin_block, alias_add and the      *)
(* header updates of the write functions.)                                 *)
Accounting == CountersAgree(file) /\ CountersAgree(tmp)

\* Every bin entry leads to an info block of its type, and that to data.
EntriesIntact(f) ==
    \A slot \in DOMAIN f.cells :
        HasTag(f, slot, "entry") =>
            /\ HasInfo(f, slot)
            /\ f.cells[f.cells[slot].info].type = f.cells[slot].type
            /\ \A a \in Area :
                   LET addr == f.cells[f.cells[slot].info].at[a]
                   IN  addr # 0 => HasTag(f, addr, "data")
Intact(f) == ~ f.spilled => EntriesIntact(f)

(* Until a bin block is allocated in the middle of storing a record, every *)
(* bin entry leads to an info block of its type, and that info block to    *)
(* data, whatever was stored, aliased, deleted or squeezed since: neither  *)
(* a record nor a bin block is ever laid over a record, and no entry over  *)
(* another.                                                                *)
RecordsIntact == Intact(file) /\ Intact(tmp)

\* The free slots of the last block and the overflow word behind them.
FreeSlots(f) ==
    f.hdr.nextBin .. (f.hdr.nextBin + f.hdr.binsRemain * BinSize)
\* An entry and all it leads to lie in front of FILE_SIZE.
BelowSize(f, slot) ==
    /\ slot < f.hdr.fileSize
    /\ f.cells[slot].info < f.hdr.fileSize
    /\ \A a \in Area : f.cells[f.cells[slot].info].at[a] < f.hdr.fileSize
Apart(f) ==
    ~ f.spilled =>
        /\ f.hdr.nextBin # 0
        /\ f.hdr.nextBin + f.hdr.binsRemain * BinSize < f.hdr.fileSize
        /\ f.hdr.fileSize <= Len(f.cells) + 1
        /\ \A i \in FreeSlots(f) : f.cells[i] = Zero
        /\ \A slot \in DOMAIN f.cells :
               HasTag(f, slot, "entry") => BelowSize(f, slot)

(* Under the same condition the free slots of the last block and the word  *)
(* behind them, which the overflow pointer will take, are zero; they lie   *)
(* below FILE_SIZE, and so does every entry and all an entry leads to.     *)
(* The next record or block goes to FILE_SIZE, the next entry to a free    *)
(* slot: this is why RecordsIntact holds.                                  *)
RegionsApart == Apart(file) /\ Apart(tmp)
=============================================================================
