------------------------------ MODULE DssImage ------------------------------
(***************************************************************************)
(* The image of one DSS7 file and the pure operators of native.rs and      *)
(* bin.rs on it: storing a record, entering a name in the bins, allocating *)
(* a bin block, looking a name up, walking the bins.                       *)
(*                                                                         *)
(* A cell is one indivisible piece of the file: an info block, one data    *)
(* area, one bin entry with the zero word behind it, an overflow pointer,  *)
(* the end-of-file flag, or zeros.  Addresses count cells from 1; 0 is the *)
(* null address.  The header and the hash table have fixed places and are  *)
(* fields of the image; everything from the first bin block on is cells.   *)
(***************************************************************************)
EXTENDS DssRecords, Sequences, FiniteSets

CONSTANTS
    Path,          \* pathnames, valid and in upper case
    MaxHash,       \* slots of the hash table
    TableHash,     \* hash::table_hash: the hash table slot of a pathname
    PathHash,      \* hash::pathname_hash: the 64-bit hash kept in a bin entry
    BinSize,       \* cells of a bin slot
    BinsPerBlock   \* slots of a bin block

ASSUME ImageAssumption ==
    /\ MaxHash \in Nat \ {0}
    /\ TableHash \in [Path -> 0..MaxHash-1]
    /\ PathHash \in [Path -> Nat \ {0}]
    /\ BinSize \in Nat \ {0}
    /\ BinsPerBlock \in Nat \ {0}

-----------------------------------------------------------------------------
(* Cells and images.                                                       *)

Status == {"PRIMARY", "ALIAS", "DELETED", "ALIAS_DELETED"}

Zero       == [tag |-> "zero"]
EofFlag    == [tag |-> "eof"]
Ptr(addr)  == [tag |-> "ptr", addr |-> addr]
Data(val)  == [tag |-> "data", val |-> val]
Info(path, type, at) ==
    [tag |-> "info", path |-> path, type |-> type, at |-> at]
Entry(path, status, info, type) ==
    [tag |-> "entry", path |-> path, status |-> status,
     info |-> info, type |-> type]

Address == Nat        \* 0 where there is nothing to address

Cell == {Zero, EofFlag}
          \cup [tag : {"ptr"}, addr : Address]
          \cup [tag : {"data"}, val : Payload]
          \cup [tag : {"info"}, path : Path, type : RecordType,
                at : [Area -> Address]]
          \cup [tag : {"entry"}, path : Path, status : Status,
                info : Address, type : RecordType]

\* The words of the file header that the program keeps up to date: counters,
\* and the addresses of the next free bin slot and of the end of the file.
HeaderWord == {"numberRecords", "numberAliases", "numberDeletes",
               "numberAliasDeletes", "hashsUsed", "totalBins", "binsRemain",
               "binsOverflow", "nextBin", "fileSize"}
Header == [HeaderWord -> Nat]

\* spilled is a ghost: the file has had a bin block allocated by a function
\* that was storing a record, at the address where it was storing it.
Image == [hdr : Header, hash : [0..MaxHash-1 -> Nat], cells : Seq(Cell),
          spilled : BOOLEAN]

FirstBin  == 1
BlockSize == BinSize * BinsPerBlock + 1     \* one more for the pointer

\* create_dss_file: an empty hash table, one bin block of zeros, the EOF flag.
NewFile ==
    [hdr |-> [w \in HeaderWord |->
                 IF w = "binsRemain" THEN BinsPerBlock
                 ELSE IF w = "nextBin" THEN FirstBin
                 ELSE IF w = "fileSize" THEN FirstBin + BlockSize
                 ELSE 0],
     hash |-> [h \in 0..MaxHash-1 |-> 0],
     cells |-> [i \in 1..(BlockSize + 1) |->
                    IF i <= BlockSize THEN Zero ELSE EofFlag],
     spilled |-> FALSE]

-----------------------------------------------------------------------------
(* Writing.                                                                *)

\* The length of the file after a write that ends just before address end;
\* a hole that a write behind the end leaves reads as zeros.
Extent(cells, end) == IF end - 1 > Len(cells) THEN end - 1 ELSE Len(cells)
CellAt(cells, i) == IF i \in DOMAIN cells THEN cells[i] ELSE Zero

\* The areas of a record follow its info block without gaps, in this order.
Present(c, a) == IF c[a] = Empty THEN 0 ELSE 1
Offset(c, a) ==
    LET h2 == 1 + Present(c, "ih")
        v1 == h2 + Present(c, "h2")
        v2 == v1 + Present(c, "v1")
        v3 == v2 + Present(c, "v2")
        uh == v3 + Present(c, "v3")
    IN  IF a = "ih" THEN 1
        ELSE IF a = "h2" THEN h2
        ELSE IF a = "v1" THEN v1
        ELSE IF a = "v2" THEN v2
        ELSE IF a = "v3" THEN v3
        ELSE uh

\* Faulty: the user header is left out of the record's size.
SizeWithoutUserHeader(c) == Offset(c, "uh")

Size(c) == Offset(c, "uh") + Present(c, "uh")
Layout(base, c) ==
    [a \in Area |-> IF c[a] = Empty THEN 0 ELSE base + Offset(c, a)]

\* The info block, the areas and the EOF flag of a record stored at base.
WriteRecord(cells, base, path, rec) ==
    LET at  == Layout(base, rec.content)
        eof == base + Size(rec.content)
    IN  [i \in 1..Extent(cells, eof + 1) |->
            IF i = base THEN Info(path, rec.type, at)
            ELSE IF i = eof THEN EofFlag
            ELSE IF \E a \in Area : at[a] = i
                 THEN Data(rec.content[CHOOSE a \in Area : at[a] = i])
            ELSE CellAt(cells, i)]

\* Faulty: the new block is not counted.
AllocateUncounted(f) ==
    LET start == f.hdr.fileSize
        end   == start + BlockSize
    IN  [f EXCEPT !.hdr = [@ EXCEPT !["nextBin"] = start,
                                    !["binsRemain"] = BinsPerBlock,
                                    !["fileSize"] = end],
                  !.cells = [i \in 1..Extent(f.cells, end) |->
                                IF i = f.hdr.nextBin THEN Ptr(start)
                                ELSE IF i \in start..(end - 1) THEN Zero
                                ELSE CellAt(f.cells, i)]]

\* Faulty: FILE_SIZE stays in front of the new block.
AllocateKeepingSize(f) ==
    LET g == AllocateUncounted(f)
    IN  [g EXCEPT !.hdr = [@ EXCEPT !["fileSize"] = f.hdr.fileSize,
                                    !["binsOverflow"] = @ + 1]]

\* A block of zeros at the header's FILE_SIZE, chained from the word at
\* ADD_NEXT_EMPTY_BIN, which is written after the zeros.
AllocateNewBinBlock(f) ==
    LET start == f.hdr.fileSize
        end   == start + BlockSize
    IN  [hdr |-> [f.hdr EXCEPT !["nextBin"] = start,
                               !["binsRemain"] = BinsPerBlock,
                               !["fileSize"] = end,
                               !["binsOverflow"] = @ + 1],
         hash |-> f.hash,
         cells |-> [i \in 1..Extent(f.cells, end) |->
                       IF i = f.hdr.nextBin THEN Ptr(start)
                       ELSE IF i \in start..(end - 1) THEN Zero
                       ELSE CellAt(f.cells, i)],
         spilled |-> f.spilled]

\* Faulty: the hash table leads to the newest entry.
TakeSlotNewest(f, entry) ==
    LET next == f.hdr.nextBin
        hash == TableHash[entry.path]
    IN  [hdr |-> [f.hdr EXCEPT !["hashsUsed"] = IF f.hash[hash] = 0 THEN @ + 1
                                                ELSE @,
                               !["nextBin"] = next + BinSize,
                               !["totalBins"] = @ + 1,
                               !["binsRemain"] = @ - 1],
         hash |-> [f.hash EXCEPT ![hash] = next],
         cells |-> [f.cells EXCEPT ![next] = entry],
         spilled |-> f.spilled]

\* An entry takes the next free slot; the hash table is set for the first
\* name of a table hash only.
TakeSlot(f, entry) ==
    LET next == f.hdr.nextBin
        hash == TableHash[entry.path]
        free == f.hash[hash] = 0
    IN  [hdr |-> [f.hdr EXCEPT !["hashsUsed"] = IF free THEN @ + 1 ELSE @,
                               !["nextBin"] = next + BinSize,
                               !["totalBins"] = @ + 1,
                               !["binsRemain"] = @ - 1],
         hash |-> [f.hash EXCEPT ![hash] = IF free THEN next ELSE @],
         cells |-> [f.cells EXCEPT ![next] = entry],
         spilled |-> f.spilled]

\* Faulty: the block is never found to be full.
EnterBinUnchecked(f, entry) == TakeSlot(f, entry)

\* A new block is allocated when no slot is left.
EnterBin(f, entry) ==
    TakeSlot(IF f.hdr.binsRemain <= 0 THEN AllocateNewBinBlock(f) ELSE f, entry)

WriteBinEntry(f, path, info, type) ==
    EnterBin(f, Entry(path, "PRIMARY", info, type))

\* What every write_X does: the record goes to FILE_SIZE, then its bin entry,
\* then the header with FILE_SIZE behind the record, whatever write_bin_entry
\* made of FILE_SIZE.
StoreRecord(f, path, rec) ==
    LET base    == f.hdr.fileSize
        written == [hdr |-> f.hdr, hash |-> f.hash,
                    cells |-> WriteRecord(f.cells, base, path, rec),
                    spilled |-> f.spilled \/ f.hdr.binsRemain <= 0]
        entered == WriteBinEntry(written, path, base, rec.type)
    IN  [hdr |-> [entered.hdr EXCEPT
                     !["numberRecords"] = @ + 1,
                     !["fileSize"] = base + Size(rec.content)],
         hash |-> entered.hash,
         cells |-> entered.cells,
         spilled |-> entered.spilled]

\* One header counter goes up by one.
Count(f, word) ==
    [hdr |-> [f.hdr EXCEPT ![word] = @ + 1], hash |-> f.hash,
     cells |-> f.cells, spilled |-> f.spilled]

\* The status word of a bin entry is overwritten.
SetStatus(f, slot, status) ==
    LET entry == f.cells[slot]
    IN  [hdr |-> f.hdr, hash |-> f.hash,
         cells |-> [f.cells EXCEPT
                      ![slot] = Entry(entry.path, status, entry.info,
                                      entry.type)],
         spilled |-> f.spilled]

-----------------------------------------------------------------------------
(* Looking a name up.                                                      *)

HasTag(f, addr, tag) == addr \in DOMAIN f.cells /\ f.cells[addr].tag = tag

\* The bin slot the hash table names for a pathname; 0 or a cell that is not
\* an entry when there is none.
HashSlot(f, path) == f.hash[TableHash[path]]

\* Faulty: the name behind the hash is not compared.
FindByHashOnly(f, path) ==
    LET slot == HashSlot(f, path)
    IN  IF HasTag(f, slot, "entry") THEN slot ELSE 0

\* find_pathname looks at one slot; an entry's status plays no part.
FindRecord(f, path) ==
    LET slot == HashSlot(f, path)
    IN  IF HasTag(f, slot, "entry") /\ f.cells[slot].path = path
        THEN slot ELSE 0

\* read_record_info: the info block of an entry, if its flag is right.
HasInfo(f, slot) ==
    HasTag(f, slot, "entry") /\ HasTag(f, f.cells[slot].info, "info")

\* Address 0 is an area the record does not have.
ReadArea(f, addr) == IF addr = 0 THEN Empty
                     ELSE IF HasTag(f, addr, "data") THEN f.cells[addr].val
                     ELSE Garbled

\* The record whose entry is in a slot, as its info block addresses it.
RecordAt(f, slot) ==
    IF ~ HasInfo(f, slot) THEN NoRecord
    ELSE LET info == f.cells[f.cells[slot].info]
         IN  [type |-> info.type,
              content |-> [a \in Area |-> ReadArea(f, info.at[a])]]

\* The record a read function finds under a pathname.
ReadRecord(f, path) == RecordAt(f, FindRecord(f, path))

-----------------------------------------------------------------------------
(* Walking the bins.                                                       *)

\* Where the overflow word of a block leads; 0 at the end of the chain.
Overflow(f, block) ==
    LET word == block + BlockSize - 1
    IN  IF HasTag(f, word, "ptr") THEN f.cells[word].addr ELSE 0

\* The blocks of the chain, the first one numbered 0.
BlockChain(f) ==
    LET block[n \in Nat] ==
            IF n = 0 THEN FirstBin ELSE Overflow(f, block[n - 1])
    IN  block

\* The slots of all blocks, in the order read_all_bins visits them: up to the
\* first block that leads to no other.
SlotsInOrder(f) ==
    LET block == BlockChain(f)
        last  == CHOOSE n \in 0..Len(f.cells) :
                     /\ Overflow(f, block[n]) = 0
                     /\ \A m \in 0..(n - 1) : Overflow(f, block[m]) # 0
    IN  [k \in 1..((last + 1) * BinsPerBlock) |->
            block[(k - 1) \div BinsPerBlock] + ((k - 1) % BinsPerBlock) * BinSize]

\* The slots that hold an entry.  Where something else has come to lie over a
\* slot the program lists a phantom whose name cannot be read: left out here.
ReadAllBins(f) ==
    LET slots == SlotsInOrder(f)
    IN  Selected(slots, {k \in DOMAIN slots : HasTag(f, slots[k], "entry")})

IsLive(entry) == entry.status \in {"PRIMARY", "ALIAS"}

Catalog(f) ==
    LET slots   == ReadAllBins(f)
        entries == [i \in 1..Len(slots) |-> f.cells[slots[i]]]
    IN  Selected(entries, {i \in DOMAIN entries : IsLive(entries[i])})
=============================================================================
