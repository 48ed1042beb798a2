-------------------------- MODULE DssImageProofs ---------------------------
(***************************************************************************)
(* What the operations on an image preserve and what the walk of the bins  *)
(* finds, whatever the values of the constants: lemmas for the proofs      *)
(* about all modules whose variables are images.  The walk comes to the    *)
(* entries in the order in which they were made, and each slot of the hash *)
(* table leads to the oldest of its entries.                               *)
(*                                                                         *)
(* The walk is recursive: the chain of blocks is followed and the slots in *)
(* use are collected.  The library's induction theorems take an operator   *)
(* as a parameter; here the set of numbers for which something holds takes *)
(* its place.                                                              *)
(***************************************************************************)
EXTENDS DssImage, FiniteSetTheorems, SequenceTheorems, WellFoundedInduction,
        TLAPS

-----------------------------------------------------------------------------
(* Types of the operators of DssRecords and DssImage.                      *)

(* A function on 1..n into S is a sequence over S. *)
LEMMA FunctionIsSeq ==
    ASSUME NEW S, NEW n \in Nat, NEW f \in [1..n -> S]
    PROVE  f \in Seq(S)
  BY SeqDef

(* The record every write function stores is a record. *)
LEMMA RecordTypes ==
    ASSUME NEW x \in Payload, NEW y \in Payload, NEW z \in Payload,
           NEW w \in Payload, NEW present \in SUBSET Area
    PROVE  /\ TextRecord(x) \in Record
           /\ TsRecord(x, y) \in Record
           /\ TsIrregularRecord(x) \in Record
           /\ PdRecord(x, y, z, w) \in Record
           /\ ArrayRecord(present, x) \in Record
           /\ LocationRecord(x, y) \in Record
           /\ GridRecord(x) \in Record
<1>1. NoArea \in Content
  BY DEF NoArea, Content, Payload, Token
<1>2. {"length", "units", "times", "gridinfo", "subtype", Empty}
        \subseteq Payload
  BY DEF Payload, Token
<1>3. QED
  BY <1>1, <1>2 DEF Record, RecordType, Content, Area, TextRecord, TsRecord,
     TsIrregularRecord, PdRecord, ArrayRecord, LocationRecord, GridRecord,
     TEXT, RTD, ITD, PDD, ARRAY, LOCATION, GRID

(* The areas of a record lie behind its info block, in front of its EOF
   flag. *)
LEMMA OffsetType ==
    ASSUME NEW c \in Content
    PROVE  /\ Size(c) \in 1..7
           /\ \A a \in Area : /\ Offset(c, a) \in 1..6
                              /\ c[a] # Empty => Offset(c, a) < Size(c)
<1>1. \A a \in Area : Present(c, a) \in {0, 1} /\ (c[a] # Empty => Present(c, a) = 1)
  BY DEF Present
<1>2. QED
  BY <1>1 DEF Area, Offset, Size

(* Writing a record leaves a sequence of cells. *)
LEMMA WriteRecordType ==
    ASSUME NEW cells \in Seq(Cell), NEW base \in Nat, NEW path \in Path,
           NEW rec \in Record
    PROVE  WriteRecord(cells, base, path, rec) \in Seq(Cell)
<1> DEFINE at == Layout(base, rec.content)
           eof == base + Size(rec.content)
           n == Extent(cells, eof + 1)
<1>1. rec.content \in Content /\ rec.type \in RecordType
  BY DEF Record
<1>2. at \in [Area -> Address] /\ eof \in Nat
  BY <1>1, OffsetType DEF Layout, Address
<1>3. n \in Nat
  BY <1>2 DEF Extent
<1>4. /\ Info(path, rec.type, at) \in Cell
      /\ EofFlag \in Cell
      /\ \A i \in Nat : CellAt(cells, i) \in Cell
      /\ \A a \in Area : Data(rec.content[a]) \in Cell
  BY <1>1, <1>2 DEF Cell, Info, EofFlag, CellAt, Zero, Data, Content
<1>5. \A i \in 1..n : (\E a \in Area : at[a] = i)
         => (CHOOSE a \in Area : at[a] = i) \in Area
  OBVIOUS
<1>6. WriteRecord(cells, base, path, rec) \in [1..n -> Cell]
  BY <1>3, <1>4, <1>5 DEF WriteRecord
<1>7. QED
  BY <1>3, <1>6, FunctionIsSeq

(* The size of a bin block. *)
LEMMA BlockType == BlockSize \in Nat \ {0} /\ FirstBin \in Nat \ {0}
  BY ImageAssumption DEF BlockSize, FirstBin

(* Overwriting an element of a sequence. *)
LEMMA SeqExcept ==
    ASSUME NEW S, NEW s \in Seq(S), NEW e \in S, NEW i
    PROVE  /\ [s EXCEPT ![i] = e] \in Seq(S)
           /\ Len([s EXCEPT ![i] = e]) = Len(s)
<1>1. s \in [1..Len(s) -> S] /\ Len(s) \in Nat
  OBVIOUS
<1>2. [s EXCEPT ![i] = e] \in [1..Len(s) -> S]
  BY <1>1
<1>3. [s EXCEPT ![i] = e] \in Seq(S)
  BY <1>1, <1>2, FunctionIsSeq
<1>4. QED
  BY <1>1, <1>2, <1>3, LenProperties

(* What an image is made of. *)
LEMMA ImageParts ==
    ASSUME NEW hdr, NEW hash, NEW cells, NEW spilled
    PROVE  [hdr |-> hdr, hash |-> hash, cells |-> cells, spilled |-> spilled]
             \in Image
           <=> /\ hdr \in Header
               /\ hash \in [0..MaxHash-1 -> Nat]
               /\ cells \in Seq(Cell)
               /\ spilled \in BOOLEAN
  BY DEF Image

(* What the fields of an image are. *)
LEMMA ImageFields ==
    ASSUME NEW f \in Image
    PROVE  /\ f.hdr \in Header
           /\ \A w \in HeaderWord : f.hdr[w] \in Nat
           /\ f.hash \in [0..MaxHash-1 -> Nat]
           /\ f.cells \in Seq(Cell)
           /\ f.spilled \in BOOLEAN
  BY DEF Image, Header

(* Allocating a bin block leaves an image. *)
LEMMA AllocateType ==
    ASSUME NEW f \in Image
    PROVE  AllocateNewBinBlock(f) \in Image
<1> DEFINE start == f.hdr.fileSize
           end == start + BlockSize
           n == Extent(f.cells, end)
           hdr == [f.hdr EXCEPT !["nextBin"] = start,
                                !["binsRemain"] = BinsPerBlock,
                                !["fileSize"] = end,
                                !["binsOverflow"] = @ + 1]
           cells == [i \in 1..n |->
                       IF i = f.hdr.nextBin THEN Ptr(start)
                       ELSE IF i \in start..(end - 1) THEN Zero
                       ELSE CellAt(f.cells, i)]
<1>1. start \in Nat /\ end \in Nat /\ n \in Nat
  BY BlockType, ImageFields DEF HeaderWord, Extent
<1>2. /\ Ptr(start) \in Cell
      /\ Zero \in Cell
      /\ \A i \in Nat : CellAt(f.cells, i) \in Cell
  BY <1>1, ImageFields DEF Cell, Ptr, Zero, CellAt, Address
<1> HIDE DEF n
<1>3. cells \in [1..n -> Cell]
  BY <1>1, <1>2
<1>4. cells \in Seq(Cell)
  BY <1>1, <1>3, FunctionIsSeq
<1>5. hdr \in Header
  <2> DEFINE h == f.hdr
  <2>1. h \in Header
    BY ImageFields
  <2> HIDE DEF h
  <2>2. \A a, b \in Nat :
          [h EXCEPT !["nextBin"] = a, !["binsRemain"] = BinsPerBlock,
                    !["fileSize"] = b, !["binsOverflow"] = @ + 1] \in Header
    BY <2>1, ImageAssumption DEF Header, HeaderWord
  <2>3. QED
    BY <1>1, <2>2 DEF h
<1>6. AllocateNewBinBlock(f) =
        [hdr |-> hdr, hash |-> f.hash, cells |-> cells, spilled |-> f.spilled]
  BY DEF AllocateNewBinBlock, n
<1> HIDE DEF hdr, cells
<1>7. QED
  BY <1>4, <1>5, <1>6, ImageFields, ImageParts

(* What allocating a block and taking a slot make of the header. *)
LEMMA AllocateWords ==
    ASSUME NEW f \in Image, NEW w \in HeaderWord
    PROVE  AllocateNewBinBlock(f).hdr[w] =
             IF w = "nextBin" THEN f.hdr.fileSize
             ELSE IF w = "binsRemain" THEN BinsPerBlock
             ELSE IF w = "fileSize" THEN f.hdr.fileSize + BlockSize
             ELSE IF w = "binsOverflow" THEN f.hdr.binsOverflow + 1
             ELSE f.hdr[w]
<1> DEFINE h == f.hdr
<1>1. h \in [HeaderWord -> Nat]
  BY ImageFields DEF Header
<1>2. AllocateNewBinBlock(f).hdr =
        [h EXCEPT !["nextBin"] = h.fileSize, !["binsRemain"] = BinsPerBlock,
                  !["fileSize"] = h.fileSize + BlockSize,
                  !["binsOverflow"] = @ + 1]
  BY DEF AllocateNewBinBlock
<1> HIDE DEF h
<1>3. AllocateNewBinBlock(f).hdr[w] =
             IF w = "nextBin" THEN h.fileSize
             ELSE IF w = "binsRemain" THEN BinsPerBlock
             ELSE IF w = "fileSize" THEN h.fileSize + BlockSize
             ELSE IF w = "binsOverflow" THEN h.binsOverflow + 1
             ELSE h[w]
  BY <1>1, <1>2 DEF HeaderWord
<1>4. QED
  BY <1>3 DEF h

(* The header words after a slot was taken. *)
LEMMA TakeSlotWords ==
    ASSUME NEW f \in Image, NEW entry, NEW w \in HeaderWord
    PROVE  TakeSlot(f, entry).hdr[w] =
             IF w = "nextBin" THEN f.hdr.nextBin + BinSize
             ELSE IF w = "totalBins" THEN f.hdr.totalBins + 1
             ELSE IF w = "binsRemain" THEN f.hdr.binsRemain - 1
             ELSE IF w = "hashsUsed" /\ f.hash[TableHash[entry.path]] = 0
                  THEN f.hdr.hashsUsed + 1
             ELSE f.hdr[w]
<1> DEFINE h == f.hdr
           free == f.hash[TableHash[entry.path]] = 0
           used == IF free THEN h["hashsUsed"] + 1 ELSE h["hashsUsed"]
<1>1. h \in [HeaderWord -> Nat]
  BY ImageFields DEF Header
<1>2. TakeSlot(f, entry).hdr =
        [h EXCEPT !["hashsUsed"] = used, !["nextBin"] = h.nextBin + BinSize,
                  !["totalBins"] = @ + 1, !["binsRemain"] = @ - 1]
  BY DEF TakeSlot
<1> HIDE DEF h, used
<1>3. TakeSlot(f, entry).hdr[w] =
             IF w = "nextBin" THEN h.nextBin + BinSize
             ELSE IF w = "totalBins" THEN h.totalBins + 1
             ELSE IF w = "binsRemain" THEN h.binsRemain - 1
             ELSE IF w = "hashsUsed" THEN used
             ELSE h[w]
  BY <1>1, <1>2 DEF HeaderWord
<1>4. QED
  BY <1>3 DEF h, used

(* Taking a slot leaves an image if one is free. *)
LEMMA TakeSlotType ==
    ASSUME NEW f \in Image, NEW entry \in Cell, entry.path \in Path,
           f.hdr.binsRemain # 0
    PROVE  TakeSlot(f, entry) \in Image
<1> DEFINE next == f.hdr.nextBin
           slot == TableHash[entry.path]
           free == f.hash[slot] = 0
           used == IF free THEN f.hdr["hashsUsed"] + 1
                           ELSE f.hdr["hashsUsed"]
           hdr == [f.hdr EXCEPT !["hashsUsed"] = used,
                                !["nextBin"] = next + BinSize,
                                !["totalBins"] = @ + 1,
                                !["binsRemain"] = @ - 1]
           hash == [f.hash EXCEPT ![slot] = IF free THEN next ELSE @]
           cells == [f.cells EXCEPT ![next] = entry]
<1>1. slot \in 0..MaxHash-1 /\ used \in Nat /\ next \in Nat
  BY ImageAssumption, ImageFields DEF HeaderWord
<1> HIDE DEF used
<1>2. hdr \in Header
  <2> DEFINE h == f.hdr
  <2>1. h \in Header /\ h.binsRemain # 0
    BY ImageFields
  <2> HIDE DEF h
  <2>2. \A a, b \in Nat :
          [h EXCEPT !["hashsUsed"] = a, !["nextBin"] = b + BinSize,
                    !["totalBins"] = @ + 1, !["binsRemain"] = @ - 1] \in Header
    BY <2>1, ImageAssumption DEF Header, HeaderWord
  <2>3. QED
    BY <1>1, <2>2 DEF h
<1>3. hash \in [0..MaxHash-1 -> Nat]
  BY <1>1, ImageFields
<1>4. cells \in Seq(Cell)
  BY ImageFields, SeqExcept
<1>5. TakeSlot(f, entry) =
        [hdr |-> hdr, hash |-> hash, cells |-> cells, spilled |-> f.spilled]
  BY DEF TakeSlot, used
<1> HIDE DEF hdr, hash, cells
<1>6. QED
  BY <1>2, <1>3, <1>4, <1>5, ImageFields, ImageParts

(* Entering a name in the bins leaves an image. *)
LEMMA EnterBinType ==
    ASSUME NEW f \in Image, NEW path \in Path, NEW status \in Status,
           NEW info \in Address, NEW type \in RecordType
    PROVE  EnterBin(f, Entry(path, status, info, type)) \in Image
<1>1. /\ Entry(path, status, info, type) \in Cell
      /\ Entry(path, status, info, type).path = path
  BY DEF Entry, Cell
<1>2. AllocateNewBinBlock(f) \in Image
      /\ AllocateNewBinBlock(f).hdr.binsRemain # 0
  <2>1. AllocateNewBinBlock(f).hdr["binsRemain"] = BinsPerBlock
    BY AllocateWords DEF HeaderWord
  <2>2. QED
    BY <2>1, AllocateType, ImageAssumption
<1>3. f.hdr.binsRemain \in Nat
  BY ImageFields DEF HeaderWord
<1>4. CASE f.hdr.binsRemain <= 0
  BY <1>1, <1>2, <1>4, TakeSlotType DEF EnterBin
<1>5. CASE ~ f.hdr.binsRemain <= 0
  BY <1>1, <1>3, <1>5, TakeSlotType DEF EnterBin
<1>6. QED
  BY <1>4, <1>5

(* Storing a record leaves an image. *)
LEMMA StoreRecordType ==
    ASSUME NEW f \in Image, NEW path \in Path, NEW rec \in Record
    PROVE  StoreRecord(f, path, rec) \in Image
<1> DEFINE base == f.hdr.fileSize
           written == [hdr |-> f.hdr, hash |-> f.hash,
                       cells |-> WriteRecord(f.cells, base, path, rec),
                       spilled |-> f.spilled \/ f.hdr.binsRemain <= 0]
           entered == WriteBinEntry(written, path, base, rec.type)
           hdr == [entered.hdr EXCEPT
                     !["numberRecords"] = @ + 1,
                     !["fileSize"] = base + Size(rec.content)]
<1>1. base \in Nat /\ rec.type \in RecordType /\ rec.content \in Content
  BY DEF Image, Header, HeaderWord, Record
<1>2. written \in Image
  BY <1>1, WriteRecordType DEF Image
<1>3. entered \in Image
  BY <1>1, <1>2, EnterBinType DEF WriteBinEntry, Status, Address
<1>4. base + Size(rec.content) \in Nat
  BY <1>1, OffsetType
<1>5. StoreRecord(f, path, rec) =
        [hdr |-> hdr, hash |-> entered.hash, cells |-> entered.cells,
         spilled |-> entered.spilled]
  BY DEF StoreRecord
<1> HIDE DEF entered
<1>6. hdr \in Header
  <2> DEFINE h == entered.hdr
  <2>1. h \in Header
    BY <1>3, ImageFields
  <2> HIDE DEF h
  <2>2. \A b \in Nat : [h EXCEPT !["numberRecords"] = @ + 1,
                              !["fileSize"] = b] \in Header
    BY <2>1 DEF Header, HeaderWord
  <2>3. QED
    BY <1>4, <2>2 DEF h
<1> HIDE DEF hdr
<1>7. QED
  BY <1>3, <1>5, <1>6, ImageFields, ImageParts

(* Counting and marking leave an image. *)
LEMMA CountType ==
    ASSUME NEW f \in Image, NEW word \in HeaderWord
    PROVE  Count(f, word) \in Image
  BY DEF Count, Image, Header

(* A status set leaves an image. *)
LEMMA SetStatusType ==
    ASSUME NEW f \in Image, NEW slot \in DOMAIN f.cells,
           HasTag(f, slot, "entry"), NEW status \in Status
    PROVE  SetStatus(f, slot, status) \in Image
<1>1. f.cells[slot] \in [tag : {"entry"}, path : Path, status : Status,
                          info : Address, type : RecordType]
  BY DEF HasTag, Image, Cell, Zero, EofFlag
<1>2. Entry(f.cells[slot].path, status, f.cells[slot].info,
            f.cells[slot].type) \in Cell
  BY <1>1 DEF Entry, Cell
<1>3. QED
  BY <1>2 DEF SetStatus, Image

(* A new file is an image. *)
LEMMA NewFileType == NewFile \in Image
<1>1. NewFile.cells \in [1..(BlockSize + 1) -> Cell]
  BY BlockType DEF NewFile, Cell
<1>2. NewFile.cells \in Seq(Cell)
  BY <1>1, BlockType, FunctionIsSeq
<1>3. NewFile.hdr \in Header
  BY BlockType, ImageAssumption DEF NewFile, Header, HeaderWord
<1>4. NewFile.hash \in [0..MaxHash-1 -> Nat] /\ NewFile.spilled = FALSE
  BY DEF NewFile
<1>5. NewFile = [hdr |-> NewFile.hdr, hash |-> NewFile.hash,
                 cells |-> NewFile.cells, spilled |-> NewFile.spilled]
  BY DEF NewFile
<1>6. QED
  BY <1>2, <1>3, <1>4, <1>5 DEF Image

-----------------------------------------------------------------------------
(* Type correctness.                                                       *)

(* The entry found under a name, or under its hash and a status. *)
LEMMA FoundEntry ==
    ASSUME NEW f \in Image, NEW slot, HasTag(f, slot, "entry")
    PROVE  /\ slot \in DOMAIN f.cells
           /\ slot \in Nat \ {0}
           /\ f.cells[slot] \in [tag : {"entry"}, path : Path,
                                 status : Status, info : Address,
                                 type : RecordType]
  BY ImageFields DEF HasTag, Cell, Zero, EofFlag

(* A slot that is found holds an entry of the name. *)
LEMMA FoundRecord ==
    ASSUME NEW f \in Image, NEW path, FindRecord(f, path) # 0
    PROVE  /\ HasTag(f, FindRecord(f, path), "entry")
           /\ f.cells[FindRecord(f, path)].path = path
  BY DEF FindRecord

(* A record that is found is a record; a name that is found is a path. *)
LEMMA ReadRecordType ==
    ASSUME NEW f \in Image, NEW path
    PROVE  ReadRecord(f, path) # NoRecord
             => path \in Path /\ ReadRecord(f, path) \in Record
<1> DEFINE slot == FindRecord(f, path)
           rec == RecordAt(f, slot)
<1> SUFFICES ASSUME rec # NoRecord
             PROVE  path \in Path /\ rec \in Record
  BY DEF ReadRecord
<1>1. HasInfo(f, slot)
  BY DEF RecordAt
<1>2. HasTag(f, slot, "entry") /\ slot # 0
  BY <1>1, FoundEntry DEF HasInfo
<1>3. path \in Path
  BY <1>2, FoundRecord, FoundEntry
<1> DEFINE info == f.cells[f.cells[slot].info]
<1>4. info \in [tag : {"info"}, path : Path, type : RecordType,
                at : [Area -> Address]]
  BY <1>1, ImageFields DEF HasInfo, HasTag, Cell, Zero, EofFlag
<1>5. \A a \in Area : ReadArea(f, info.at[a]) \in Payload
  <2> TAKE a \in Area
  <2> DEFINE addr == info.at[a]
  <2>1. HasTag(f, addr, "data") => f.cells[addr].val \in Payload
    <3>1. \A cell \in Cell : cell.tag = "data" => cell.val \in Payload
      BY DEF Cell, Zero, EofFlag
    <3>2. QED
      BY <3>1, ImageFields DEF HasTag
  <2>2. QED
    BY <2>1 DEF ReadArea, Payload, Token
<1>6. rec = [type |-> info.type,
             content |-> [a \in Area |-> ReadArea(f, info.at[a])]]
  BY <1>1 DEF RecordAt
<1> HIDE DEF info
<1>7. rec \in Record
  BY <1>4, <1>5, <1>6 DEF Record, Content
<1>8. QED
  BY <1>3, <1>7

(* No two names of one table hash are read in a file. *)
LEMMA OneNamePerHash ==
    ASSUME NEW f \in Image, NEW x, NEW y, TableHash[x] = TableHash[y],
           ReadRecord(f, x) # NoRecord, ReadRecord(f, y) # NoRecord
    PROVE  x = y
<1>1. RecordAt(f, 0) = NoRecord
  <2>1. f.cells \in Seq(Cell)
    BY ImageFields
  <2>2. QED
    BY <2>1 DEF RecordAt, HasInfo, HasTag
<1>2. FindRecord(f, x) # 0 /\ FindRecord(f, y) # 0
  BY <1>1 DEF ReadRecord
<1>3. FindRecord(f, x) = FindRecord(f, y)
  BY <1>2 DEF FindRecord, HashSlot
<1>4. QED
  BY <1>2, <1>3, FoundRecord

(* What squeeze writes for a record is a record. *)
LEMMA SqueezeFormType ==
    ASSUME NEW rec \in Record, NEW type
    PROVE  SqueezeForm(type, rec) \in Record
<1>1. /\ \A a \in Area : rec.content[a] \in Payload
      /\ Empty \in Payload
      /\ Garbled \in Payload
  BY DEF Record, Content, Payload, Token
<1>2. ReadText(rec) \in Payload
  BY <1>1 DEF ReadText, Area
<1>3. QED
  BY <1>1, <1>2, RecordTypes DEF SqueezeForm, Area

(* What one operation makes of a file: a record stored, an alias entered,
   an entry marked, or nothing. *)
Stored(f, g) ==
    \E path \in Path, rec \in Record : g = StoreRecord(f, path, rec)
Aliased(f, g) ==
    \E slot \in DOMAIN f.cells, alias \in Path :
        /\ HasTag(f, slot, "entry")
        /\ g = Count(EnterBin(f, Entry(alias, "ALIAS", f.cells[slot].info,
                                      f.cells[slot].type)),
                     "numberAliases")
Marked(f, g) ==
    \E slot \in DOMAIN f.cells, status \in Status :
        /\ HasTag(f, slot, "entry")
        /\ \/ g = SetStatus(f, slot, status)
           \/ \E word \in {"numberDeletes", "numberAliasDeletes"} :
                  g = Count(SetStatus(f, slot, status), word)
Change(f, g) == Stored(f, g) \/ Aliased(f, g) \/ Marked(f, g) \/ g = f

(* Every change leaves an image. *)
LEMMA ChangeType ==
    ASSUME NEW f \in Image, NEW g, Change(f, g)
    PROVE  g \in Image
<1>1. CASE Stored(f, g)
  BY <1>1, StoreRecordType DEF Stored
<1>2. CASE Aliased(f, g)
  <2>1. PICK slot \in DOMAIN f.cells, alias \in Path :
           /\ HasTag(f, slot, "entry")
           /\ g = Count(EnterBin(f, Entry(alias, "ALIAS", f.cells[slot].info,
                                         f.cells[slot].type)),
                        "numberAliases")
    BY <1>2 DEF Aliased
  <2>2. f.cells[slot].info \in Address /\ f.cells[slot].type \in RecordType
    BY <2>1, FoundEntry
  <2>3. QED
    BY <2>1, <2>2, EnterBinType, CountType DEF Status, HeaderWord
<1>3. CASE Marked(f, g)
  BY <1>3, SetStatusType, CountType DEF Marked, HeaderWord
<1>4. QED
  BY <1>1, <1>2, <1>3 DEF Change

(* Storing a record counts a bin and a record. *)
LEMMA StoreRecordWords ==
    ASSUME NEW f \in Image, NEW path \in Path, NEW rec \in Record
    PROVE  LET g == StoreRecord(f, path, rec)
           IN  /\ g.hdr["numberRecords"] = f.hdr["numberRecords"] + 1
               /\ g.hdr["totalBins"] = f.hdr["totalBins"] + 1
               /\ g.hdr["numberAliases"] = f.hdr["numberAliases"]
<1> DEFINE g == StoreRecord(f, path, rec)
           base == f.hdr.fileSize
           eof == base + Size(rec.content)
           written == [hdr |-> f.hdr, hash |-> f.hash,
                       cells |-> WriteRecord(f.cells, base, path, rec),
                       spilled |-> f.spilled \/ f.hdr.binsRemain <= 0]
           entry == Entry(path, "PRIMARY", base, rec.type)
           room == IF written.hdr.binsRemain <= 0
                   THEN AllocateNewBinBlock(written) ELSE written
           taken == TakeSlot(room, entry)
<1>1. base \in Nat /\ rec.type \in RecordType
  BY ImageFields DEF HeaderWord, Record
<1>2. written \in Image
  BY <1>1, WriteRecordType DEF Image
<1>3. written.hdr = f.hdr
  OBVIOUS
<1>4. /\ g.hdr = [taken.hdr EXCEPT !["numberRecords"] = @ + 1,
                                   !["fileSize"] = eof]
      /\ taken = EnterBin(written, entry)
  BY DEF StoreRecord, WriteBinEntry, EnterBin
<1>5. taken \in Image
  BY <1>1, <1>2, <1>4, EnterBinType DEF Status, Address
<1> HIDE DEF written, entry
<1>6. /\ room.hdr["numberRecords"] = f.hdr["numberRecords"]
      /\ room.hdr["totalBins"] = f.hdr["totalBins"]
      /\ room.hdr["numberAliases"] = f.hdr["numberAliases"]
      /\ room \in Image
  BY <1>2, <1>3, AllocateType, AllocateWords DEF HeaderWord
<1> HIDE DEF room
<1>7. /\ taken.hdr["numberRecords"] = f.hdr["numberRecords"]
      /\ taken.hdr["totalBins"] = f.hdr["totalBins"] + 1
      /\ taken.hdr["numberAliases"] = f.hdr["numberAliases"]
  BY <1>6, TakeSlotWords DEF HeaderWord
<1> DEFINE k == taken.hdr
<1>8. k \in [HeaderWord -> Nat]
  BY <1>5, ImageFields DEF Header
<1>9. /\ g.hdr = [k EXCEPT !["numberRecords"] = @ + 1, !["fileSize"] = eof]
      /\ k["numberRecords"] = f.hdr["numberRecords"]
      /\ k["totalBins"] = f.hdr["totalBins"] + 1
      /\ k["numberAliases"] = f.hdr["numberAliases"]
  BY <1>4, <1>7
<1> HIDE DEF k, eof, g
<1>10. /\ g.hdr["numberRecords"] = k["numberRecords"] + 1
       /\ g.hdr["totalBins"] = k["totalBins"]
       /\ g.hdr["numberAliases"] = k["numberAliases"]
  BY <1>8, <1>9 DEF HeaderWord
<1>11. QED
  BY <1>9, <1>10 DEF g

-----------------------------------------------------------------------------
(* Records, free bin slots and the end of an image stay apart under every  *)
(* operation, and what is found under a name stays what it is, until a bin *)
(* block is allocated in the middle of storing a record.                   *)
(*                                                                         *)
(* The invariant is stated on the cells of a file, the address of its next *)
(* free slot, the number of cells in its free slots, and FILE_SIZE, since  *)
(* these are all that the operations look at.                              *)

\* An info block of a type, which addresses nothing but data; all of it in
\* front of size.
Leads(cells, info, type, size) ==
    /\ info \in DOMAIN cells
    /\ info < size
    /\ cells[info].tag = "info"
    /\ cells[info].type = type
    /\ \A a \in Area :
           /\ cells[info].at[a] < size
           /\ cells[info].at[a] # 0 =>
                  /\ cells[info].at[a] \in DOMAIN cells
                  /\ cells[cells[info].at[a]].tag = "data"

EntriesLead(cells, size) ==
    \A slot \in DOMAIN cells :
        cells[slot].tag = "entry" =>
            slot < size /\ Leads(cells, cells[slot].info, cells[slot].type, size)

\* A file in which records and bins are apart.
Laid(cells, next, free, size) ==
    /\ cells \in Seq(Cell)
    /\ next \in Nat \ {0} /\ free \in Nat /\ size \in Nat
    /\ next + free < size
    /\ size <= Len(cells) + 1
    /\ \A i \in next..(next + free) : cells[i] = Zero
    /\ EntriesLead(cells, size)

\* The invariant of one file.
Safe(f) ==
    /\ f \in Image
    /\ ~ f.spilled => Laid(f.cells, f.hdr["nextBin"],
                           f.hdr["binsRemain"] * BinSize, f.hdr["fileSize"])

-----------------------------------------------------------------------------

(* What an entry leads to is not disturbed by a change of other cells. *)
LEMMA LeadsKept ==
    ASSUME NEW cells \in Seq(Cell), NEW new, NEW info, NEW type,
           NEW size \in Nat, NEW more \in Nat, size <= more,
           Leads(cells, info, type, size),
           \A i \in DOMAIN cells :
               i < size /\ cells[i].tag \in {"info", "data"}
                 => i \in DOMAIN new /\ new[i] = cells[i]
    PROVE  Leads(new, info, type, more)
<1>1. info \in DOMAIN new /\ new[info] = cells[info] /\ info < more
      /\ new[info].tag = "info" /\ new[info].type = type
  BY DEF Leads
<1>2. ASSUME NEW a \in Area
      PROVE  /\ new[info].at[a] < more
             /\ new[info].at[a] # 0 => /\ new[info].at[a] \in DOMAIN new
                                       /\ new[new[info].at[a]].tag = "data"
  <2> DEFINE addr == cells[info].at[a]
  <2>1. addr < size
        /\ (addr # 0 => addr \in DOMAIN cells /\ cells[addr].tag = "data")
    BY DEF Leads
  <2>2. addr \in Nat
    BY <1>1 DEF Leads, Cell, Zero, EofFlag, Address
  <2> HIDE DEF addr
  <2>3. addr < more /\ (addr # 0 => addr \in DOMAIN new /\ new[addr].tag = "data")
    BY <2>1, <2>2
  <2>4. QED
    BY <1>1, <2>3 DEF addr
<1>3. QED
  BY <1>1, <1>2 DEF Leads

(* A record stored at the end of the file leaves what is in front of it, and
   an info block and data of its own. *)
LEMMA WriteLays ==
    ASSUME NEW cells, NEW next, NEW free, NEW size,
           Laid(cells, next, free, size),
           NEW path \in Path, NEW rec \in Record
    PROVE  LET new  == WriteRecord(cells, size, path, rec)
               more == size + Size(rec.content)
           IN  /\ Laid(new, next, free, more)
               /\ Leads(new, size, rec.type, more)
<1> DEFINE c == rec.content
           at == Layout(size, c)
           more == size + Size(c)
           n == Extent(cells, more + 1)
           new == WriteRecord(cells, size, path, rec)
<1>1. /\ cells \in Seq(Cell) /\ size \in Nat \ {0} /\ next \in Nat \ {0}
      /\ free \in Nat /\ next + free < size /\ size <= Len(cells) + 1
  BY DEF Laid
<1>2. c \in Content /\ rec.type \in RecordType
  BY DEF Record
<1>3. /\ more \in Nat /\ size < more
      /\ \A a \in Area : at[a] = 0 \/ at[a] \in (size + 1)..(more - 1)
  <2>1. Size(c) \in 1..7
        /\ \A a \in Area : /\ Offset(c, a) \in 1..6
                           /\ c[a] # Empty => Offset(c, a) < Size(c)
    BY <1>2, OffsetType
  <2>2. \A a \in Area : at[a] = IF c[a] = Empty THEN 0 ELSE size + Offset(c, a)
    BY DEF Layout
  <2> HIDE DEF at, c
  <2>3. more \in Nat /\ size < more
    BY <1>1, <2>1
  <2>4. ASSUME NEW a \in Area
        PROVE  at[a] = 0 \/ at[a] \in (size + 1)..(more - 1)
    <3>1. CASE c[a] = Empty
      BY <2>2, <3>1
    <3>2. CASE c[a] # Empty
      <4>1. at[a] = size + Offset(c, a)
        BY <2>2, <3>2
      <4>2. /\ Offset(c, a) \in Nat /\ Size(c) \in Nat
            /\ 1 <= Offset(c, a) /\ Offset(c, a) < Size(c)
        BY <2>1, <3>2
      <4>3. size + Offset(c, a) \in (size + 1)..(more - 1)
        BY <1>1, <4>2
      <4>4. QED
        BY <4>1, <4>3, Zenon
    <3>3. QED
      BY <3>1, <3>2
  <2>5. QED
    BY <2>3, <2>4
<1>4. n \in Nat /\ n >= more /\ n >= Len(cells)
  BY <1>1, <1>3 DEF Extent
<1>5. new = [i \in 1..n |->
            IF i = size THEN Info(path, rec.type, at)
            ELSE IF i = more THEN EofFlag
            ELSE IF \E a \in Area : at[a] = i
                 THEN Data(c[CHOOSE a \in Area : at[a] = i])
            ELSE CellAt(cells, i)]
  BY DEF WriteRecord
<1>6. new \in Seq(Cell) /\ Len(new) = n /\ DOMAIN new = 1..n
  <2>1. new \in Seq(Cell)
    BY <1>1, WriteRecordType
  <2>2. DOMAIN new = 1..n
    BY <1>5
  <2> HIDE DEF new, n
  <2>3. QED
    BY <1>4, <2>1, <2>2
<1> HIDE DEF new, n, at, more
<1>7. \A i \in 1..(size - 1) : i \in DOMAIN new /\ new[i] = cells[i]
  BY <1>1, <1>3, <1>4, <1>5, <1>6 DEF CellAt
<1>8. /\ new[size] = Info(path, rec.type, at)
      /\ \A a \in Area : at[a] # 0 =>
             at[a] \in DOMAIN new /\ new[at[a]].tag = "data"
  BY <1>1, <1>3, <1>4, <1>5, <1>6 DEF Data
<1>9. Leads(new, size, rec.type, more)
  BY <1>1, <1>3, <1>4, <1>6, <1>8 DEF Leads, Info
<1>10. \A i \in DOMAIN new : i >= size => new[i].tag # "entry"
  <2>1. \A i \in Nat : i >= size => CellAt(cells, i).tag # "entry"
    BY <1>1 DEF CellAt, Zero, Laid, EntriesLead
  <2>2. QED
    BY <1>1, <1>5, <1>6, <2>1 DEF Info, EofFlag, Data
<1>11. EntriesLead(new, more)
  <2> SUFFICES ASSUME NEW slot \in DOMAIN new, new[slot].tag = "entry"
               PROVE  slot < more
                      /\ Leads(new, new[slot].info, new[slot].type, more)
    BY DEF EntriesLead
  <2>1. slot \in 1..(size - 1) /\ slot \in DOMAIN cells
        /\ new[slot] = cells[slot]
    BY <1>1, <1>6, <1>7, <1>10
  <2>2. Leads(cells, cells[slot].info, cells[slot].type, size)
    BY <2>1 DEF Laid, EntriesLead
  <2>3. Leads(new, cells[slot].info, cells[slot].type, more)
    BY <1>1, <1>3, <1>7, <2>2, LeadsKept
  <2>4. QED
    BY <1>1, <1>3, <2>1, <2>3
<1>12. \A i \in next..(next + free) : new[i] = Zero
  BY <1>1, <1>7 DEF Laid
<1>13. QED
  BY <1>1, <1>3, <1>4, <1>6, <1>9, <1>11, <1>12 DEF Laid, new, more

(* An entry that leads to a record may take the next free slot. *)
LEMMA TakeLays ==
    ASSUME NEW cells, NEW next, NEW free, NEW size,
           Laid(cells, next, free, size), free >= BinSize,
           NEW entry \in Cell, Leads(cells, entry.info, entry.type, size)
    PROVE  Laid([cells EXCEPT ![next] = entry], next + BinSize,
                free - BinSize, size)
<1> DEFINE new == [cells EXCEPT ![next] = entry]
<1>1. /\ cells \in Seq(Cell) /\ size \in Nat /\ next \in Nat \ {0}
      /\ free \in Nat /\ next + free < size /\ size <= Len(cells) + 1
      /\ BinSize \in Nat \ {0} /\ cells[next] = Zero
  BY ImageAssumption DEF Laid
<1>2. next \in DOMAIN cells
  BY <1>1
<1>3. new \in Seq(Cell) /\ Len(new) = Len(cells) /\ DOMAIN new = DOMAIN cells
  BY <1>1, SeqExcept
<1>4. new[next] = entry
      /\ \A i \in DOMAIN cells : i # next => new[i] = cells[i]
  BY <1>2
<1> HIDE DEF new
<1>5. ASSUME NEW info, NEW type, Leads(cells, info, type, size)
      PROVE  Leads(new, info, type, size)
  <2>1. \A i \in DOMAIN cells :
           i < size /\ cells[i].tag \in {"info", "data"}
             => i \in DOMAIN new /\ new[i] = cells[i]
    BY <1>1, <1>3, <1>4 DEF Zero
  <2>2. QED
    BY <1>1, <1>5, <2>1, LeadsKept
<1>6. EntriesLead(new, size)
  <2> SUFFICES ASSUME NEW slot \in DOMAIN new, new[slot].tag = "entry"
               PROVE  slot < size
                      /\ Leads(new, new[slot].info, new[slot].type, size)
    BY DEF EntriesLead
  <2>1. CASE slot = next
    BY <1>1, <1>4, <1>5, <2>1
  <2>2. CASE slot # next
    <3>1. slot \in DOMAIN cells /\ new[slot] = cells[slot]
      BY <1>3, <1>4, <2>2
    <3>2. slot < size /\ Leads(cells, cells[slot].info, cells[slot].type, size)
      BY <3>1 DEF Laid, EntriesLead
    <3>3. QED
      BY <1>5, <3>1, <3>2
  <2>3. QED
    BY <2>1, <2>2
<1>7. \A i \in (next + BinSize)..(next + BinSize + (free - BinSize)) :
         new[i] = Zero
  BY <1>1, <1>4 DEF Laid
<1>8. QED
  BY <1>1, <1>3, <1>6, <1>7 DEF Laid, new


(* A bin block may be put at the end of the file when no slot is free. *)
LEMMA AllocateLays ==
    ASSUME NEW f \in Image,
           Laid(f.cells, f.hdr.nextBin, 0, f.hdr.fileSize)
    PROVE  LET new  == AllocateNewBinBlock(f).cells
               size == f.hdr.fileSize
           IN  /\ Laid(new, size, BinsPerBlock * BinSize, size + BlockSize)
               /\ \A info, type : Leads(f.cells, info, type, size) =>
                      Leads(new, info, type, size + BlockSize)
<1> DEFINE cells == f.cells
           next == f.hdr.nextBin
           size == f.hdr.fileSize
           new == AllocateNewBinBlock(f).cells
           end == size + BlockSize
           n == Extent(cells, end)
           free == BinsPerBlock * BinSize
<1>0. Laid(cells, next, 0, size)
  OBVIOUS
<1>1. /\ cells \in Seq(Cell) /\ size \in Nat \ {0} /\ next \in Nat \ {0}
      /\ next < size /\ size <= Len(cells) + 1 /\ cells[next] = Zero
  BY DEF Laid
<1>2. free \in Nat /\ end = size + free + 1 /\ end \in Nat
  <2>1. BinSize * BinsPerBlock = BinsPerBlock * BinSize /\ free \in Nat
    BY ImageAssumption
  <2> HIDE DEF free
  <2>2. BlockSize = free + 1
    BY <2>1 DEF BlockSize, free
  <2>3. QED
    BY <1>1, <2>1, <2>2
<1>3. n \in Nat /\ n >= end - 1 /\ n >= Len(cells)
  <2> HIDE DEF end, cells
  <2>1. QED
    BY <1>1, <1>2 DEF Extent
<1>4. /\ new = [i \in 1..n |-> IF i = next THEN Ptr(size)
                               ELSE IF i \in size..(end - 1) THEN Zero
                               ELSE CellAt(cells, i)]
      /\ new \in Seq(Cell)
  BY AllocateType, ImageFields DEF AllocateNewBinBlock
<1> HIDE DEF n, end, free, cells, next, size, new
<1>5. /\ DOMAIN new = 1..n /\ Len(new) = n
      /\ \A i \in 1..n : new[i] = IF i = next THEN Ptr(size)
                                  ELSE IF i \in size..(end - 1) THEN Zero
                                  ELSE CellAt(cells, i)
  <2>1. DOMAIN new = 1..n
    BY <1>4
  <2>2. Len(new) = n
    BY <1>3, <2>1
  <2>3. QED
    BY <1>4, <2>1, <2>2
<1>6. \A i \in 1..(size - 1) :
         i \in DOMAIN new /\ (i # next => new[i] = cells[i])
  BY <1>1, <1>2, <1>3, <1>5 DEF CellAt
<1>7. ASSUME NEW info, NEW type, Leads(cells, info, type, size)
      PROVE  Leads(new, info, type, end)
  <2>1. \A i \in DOMAIN cells :
           i < size /\ cells[i].tag \in {"info", "data"}
             => i \in DOMAIN new /\ new[i] = cells[i]
    BY <1>1, <1>6 DEF Zero
  <2>2. size <= end
    BY <1>1, <1>2
  <2>3. QED
    BY <1>1, <1>2, <1>7, <2>1, <2>2, LeadsKept
<1>8. \A i \in DOMAIN new :
         new[i].tag = "entry" => /\ i \in DOMAIN cells
                                 /\ cells[i] = new[i]
                                 /\ i < size
  <2>1. \A i \in Nat : CellAt(cells, i).tag = "entry"
          => i \in DOMAIN cells /\ CellAt(cells, i) = cells[i] /\ i < size
    BY <1>0, <1>1 DEF CellAt, Zero, Laid, EntriesLead
  <2>2. QED
    BY <1>5, <2>1 DEF Ptr, Zero
<1>9. EntriesLead(new, end)
  <2> SUFFICES ASSUME NEW slot \in DOMAIN new, new[slot].tag = "entry"
               PROVE  slot < end
                      /\ Leads(new, new[slot].info, new[slot].type, end)
    BY DEF EntriesLead
  <2>1. slot \in DOMAIN cells /\ slot < size /\ new[slot] = cells[slot]
    BY <1>8
  <2>2. Leads(cells, cells[slot].info, cells[slot].type, size)
    BY <1>0, <2>1 DEF Laid, EntriesLead
  <2>3. slot < end
    BY <1>1, <1>2, <2>1
  <2>4. QED
    BY <1>7, <2>1, <2>2, <2>3
<1>10. \A i \in size..(size + free) : new[i] = Zero
  BY <1>1, <1>2, <1>3, <1>5
<1>11. Laid(new, size, free, end)
  BY <1>1, <1>2, <1>3, <1>4, <1>5, <1>9, <1>10 DEF Laid
<1>12. QED
  BY <1>7, <1>11 DEF end, free, cells, size, new

(* The status of an entry may change. *)
LEMMA MarkLays ==
    ASSUME NEW cells, NEW next, NEW free, NEW size,
           Laid(cells, next, free, size),
           NEW slot \in DOMAIN cells, cells[slot].tag = "entry",
           NEW entry \in Cell, entry.tag = "entry",
           entry.info = cells[slot].info, entry.type = cells[slot].type
    PROVE  Laid([cells EXCEPT ![slot] = entry], next, free, size)
<1> DEFINE new == [cells EXCEPT ![slot] = entry]
<1>1. /\ cells \in Seq(Cell) /\ size \in Nat /\ next \in Nat \ {0}
      /\ free \in Nat /\ next + free < size /\ size <= Len(cells) + 1
  BY DEF Laid
<1>2. new \in Seq(Cell) /\ Len(new) = Len(cells) /\ DOMAIN new = DOMAIN cells
  BY <1>1, SeqExcept
<1>3. new[slot] = entry
      /\ \A i \in DOMAIN cells : i # slot => new[i] = cells[i]
  OBVIOUS
<1> HIDE DEF new
<1>4. ASSUME NEW info, NEW type, Leads(cells, info, type, size)
      PROVE  Leads(new, info, type, size)
  <2>1. \A i \in DOMAIN cells :
           i < size /\ cells[i].tag \in {"info", "data"}
             => i \in DOMAIN new /\ new[i] = cells[i]
    BY <1>2, <1>3
  <2>2. QED
    BY <1>1, <1>4, <2>1, LeadsKept
<1>5. EntriesLead(new, size)
  <2> SUFFICES ASSUME NEW i \in DOMAIN new, new[i].tag = "entry"
               PROVE  i < size /\ Leads(new, new[i].info, new[i].type, size)
    BY DEF EntriesLead
  <2>1. /\ i \in DOMAIN cells /\ cells[i].tag = "entry"
        /\ new[i].info = cells[i].info /\ new[i].type = cells[i].type
    BY <1>2, <1>3
  <2>2. i < size /\ Leads(cells, cells[i].info, cells[i].type, size)
    BY <2>1 DEF Laid, EntriesLead
  <2>3. QED
    BY <1>4, <2>1, <2>2
<1>6. \A i \in next..(next + free) : new[i] = Zero
  <2>1. ASSUME NEW i \in next..(next + free)
        PROVE  new[i] = Zero
    <3>1. cells[i] = Zero /\ i \in DOMAIN cells
      BY <1>1 DEF Laid
    <3>2. i # slot
      BY <3>1 DEF Zero
    <3>3. QED
      BY <1>3, <3>1, <3>2
  <2>2. QED
    BY <2>1
<1>7. QED
  BY <1>1, <1>2, <1>5, <1>6 DEF Laid, new

(* A new file has no entries; all of its first block is free. *)
LEMMA NewFileSafe == Safe(NewFile)
<1> DEFINE cells == NewFile.cells
           free == BinsPerBlock * BinSize
<1>1. BinSize * BinsPerBlock = BinsPerBlock * BinSize /\ free \in Nat
  BY ImageAssumption
<1> HIDE DEF free
<1>2. BlockSize = free + 1
  BY <1>1 DEF BlockSize, free
<1>3. /\ NewFile.hdr["nextBin"] = 1
      /\ NewFile.hdr["binsRemain"] = BinsPerBlock
      /\ NewFile.hdr["fileSize"] = 1 + BlockSize
  BY DEF NewFile, HeaderWord, FirstBin
<1>4. cells = [i \in 1..(BlockSize + 1) |->
                 IF i <= BlockSize THEN Zero ELSE EofFlag]
  BY DEF NewFile
<1>5. cells \in Seq(Cell)
  BY NewFileType, ImageFields
<1> HIDE DEF cells
<1>6. DOMAIN cells = 1..(BlockSize + 1) /\ Len(cells) = BlockSize + 1
  BY <1>1, <1>2, <1>4, <1>5
<1>7. \A i \in 1..(1 + free) : cells[i] = Zero
  BY <1>1, <1>2, <1>4
<1>8. EntriesLead(cells, 1 + BlockSize)
  BY <1>4, <1>6 DEF EntriesLead, Zero, EofFlag
<1>9. Laid(cells, 1, free, 1 + BlockSize)
  BY <1>1, <1>2, <1>5, <1>6, <1>7, <1>8 DEF Laid
<1>10. QED
  BY <1>3, <1>9, NewFileType DEF Safe, cells, free


-----------------------------------------------------------------------------
(* Every operation leaves a safe file.                                     *)

(* An entry that leads to a record is entered, in a new block if need be. *)
LEMMA EnterSafe ==
    ASSUME NEW f \in Image, NEW path \in Path, NEW status \in Status,
           NEW info \in Address, NEW type \in RecordType,
           NEW size \in Nat,
           Laid(f.cells, f.hdr["nextBin"], f.hdr["binsRemain"] * BinSize, size),
           Leads(f.cells, info, type, size),
           f.hdr["binsRemain"] = 0 => size = f.hdr["fileSize"]
    PROVE  LET g == EnterBin(f, Entry(path, status, info, type))
           IN  Laid(g.cells, g.hdr["nextBin"], g.hdr["binsRemain"] * BinSize,
                    IF f.hdr["binsRemain"] = 0 THEN size + BlockSize ELSE size)
<1> DEFINE entry == Entry(path, status, info, type)
<1>1. /\ entry \in Cell
      /\ entry.path = path /\ entry.info = info /\ entry.type = type
  BY DEF Entry, Cell
<1> HIDE DEF entry
<1>2. ASSUME NEW h \in Image, NEW more \in Nat, h.hdr["binsRemain"] # 0,
             Laid(h.cells, h.hdr["nextBin"], h.hdr["binsRemain"] * BinSize, more),
             Leads(h.cells, info, type, more)
      PROVE  LET g == TakeSlot(h, entry)
             IN  Laid(g.cells, g.hdr["nextBin"],
                      g.hdr["binsRemain"] * BinSize, more)
  <2> DEFINE g == TakeSlot(h, entry)
             next == h.hdr["nextBin"]
             remain == h.hdr["binsRemain"]
  <2>1. next \in Nat /\ remain \in Nat
    BY ImageFields DEF HeaderWord
  <2>2. /\ g.hdr["nextBin"] = next + BinSize
        /\ g.hdr["binsRemain"] = remain - 1
    BY TakeSlotWords DEF HeaderWord
  <2>3. g.cells = [h.cells EXCEPT ![next] = entry]
    BY DEF TakeSlot
  <2>4. remain # 0
    BY <1>2
  <2> HIDE DEF g, next, remain
  <2>5. /\ remain * BinSize >= BinSize
        /\ (remain - 1) * BinSize = remain * BinSize - BinSize
    BY <2>1, <2>4, ImageAssumption
  <2>6. Laid([h.cells EXCEPT ![next] = entry], next + BinSize,
             remain * BinSize - BinSize, more)
    BY <1>1, <1>2, <2>5, TakeLays DEF next, remain
  <2>7. QED
    BY <2>2, <2>3, <2>5, <2>6 DEF g
<1>3. f.hdr["binsRemain"] \in Nat
  BY ImageFields DEF HeaderWord
<1>4. CASE f.hdr["binsRemain"] = 0
  <2> DEFINE h == AllocateNewBinBlock(f)
  <2>1. EnterBin(f, entry) = TakeSlot(h, entry)
    BY <1>4 DEF EnterBin
  <2>2. /\ h.hdr["nextBin"] = f.hdr["fileSize"]
        /\ h.hdr["binsRemain"] = BinsPerBlock
    BY AllocateWords DEF HeaderWord
  <2>3. f.hdr["binsRemain"] * BinSize = 0 /\ size = f.hdr["fileSize"]
    BY <1>4, ImageAssumption
  <2>4. /\ Laid(h.cells, size, BinsPerBlock * BinSize, size + BlockSize)
        /\ Leads(h.cells, info, type, size + BlockSize)
    BY <2>3, AllocateLays
  <2>5. h \in Image
    BY AllocateType
  <2>6. size + BlockSize \in Nat /\ BinsPerBlock # 0
    BY BlockType, ImageAssumption
  <2> HIDE DEF h
  <2>7. LET g == TakeSlot(h, entry)
        IN  Laid(g.cells, g.hdr["nextBin"], g.hdr["binsRemain"] * BinSize,
                 size + BlockSize)
    BY <1>2, <2>2, <2>3, <2>4, <2>5, <2>6
  <2>8. QED
    BY <1>4, <2>1, <2>7 DEF entry
<1>5. CASE f.hdr["binsRemain"] # 0
  <2>1. EnterBin(f, entry) = TakeSlot(f, entry)
    BY <1>3, <1>5 DEF EnterBin
  <2>2. LET g == TakeSlot(f, entry)
        IN  Laid(g.cells, g.hdr["nextBin"], g.hdr["binsRemain"] * BinSize, size)
    BY <1>2, <1>5
  <2>3. QED
    BY <1>5, <2>1, <2>2 DEF entry
<1>6. QED
  BY <1>4, <1>5


(* Storing a record keeps the layout. *)
LEMMA StoredSafe ==
    ASSUME NEW f, Safe(f), NEW g, Stored(f, g)
    PROVE  Safe(g)
<1> PICK path \in Path, rec \in Record : g = StoreRecord(f, path, rec)
  BY DEF Stored
<1> DEFINE base == f.hdr["fileSize"]
           eof == base + Size(rec.content)
           written == [hdr |-> f.hdr, hash |-> f.hash,
                       cells |-> WriteRecord(f.cells, base, path, rec),
                       spilled |-> f.spilled \/ f.hdr["binsRemain"] <= 0]
           entered == EnterBin(written, Entry(path, "PRIMARY", base, rec.type))
<1>1. /\ f \in Image /\ base \in Nat /\ f.hdr["binsRemain"] \in Nat
      /\ rec.type \in RecordType /\ rec.content \in Content
  BY ImageFields DEF Safe, HeaderWord, Record
<1>2. g \in Image
  BY <1>1, StoreRecordType
<1>3. eof \in Nat
  BY <1>1, OffsetType
<1>4. written \in Image
  BY <1>1, WriteRecordType DEF Image
<1>5. /\ g.hdr = [entered.hdr EXCEPT !["numberRecords"] = @ + 1,
                                     !["fileSize"] = eof]
      /\ g.cells = entered.cells /\ g.spilled = entered.spilled
  BY DEF StoreRecord, WriteBinEntry
<1>6. entered \in Image
  BY <1>1, <1>4, EnterBinType DEF Status, Address
<1>7. entered.spilled = written.spilled
  BY DEF EnterBin, TakeSlot, AllocateNewBinBlock
<1>8. /\ g.hdr["nextBin"] = entered.hdr["nextBin"]
      /\ g.hdr["binsRemain"] = entered.hdr["binsRemain"]
      /\ g.hdr["fileSize"] = eof
  <2> DEFINE k == entered.hdr
  <2>1. k \in [HeaderWord -> Nat]
    BY <1>6, ImageFields DEF Header
  <2>2. g.hdr = [k EXCEPT !["numberRecords"] = @ + 1, !["fileSize"] = eof]
    BY <1>5
  <2> HIDE DEF k, eof
  <2>3. /\ g.hdr["nextBin"] = k["nextBin"]
        /\ g.hdr["binsRemain"] = k["binsRemain"] /\ g.hdr["fileSize"] = eof
    BY <2>1, <2>2 DEF HeaderWord
  <2>4. QED
    BY <2>3 DEF k
<1>9. ASSUME ~ g.spilled
      PROVE  Laid(g.cells, g.hdr["nextBin"], g.hdr["binsRemain"] * BinSize,
                  g.hdr["fileSize"])
  <2>1. ~ f.spilled /\ f.hdr["binsRemain"] # 0
    <3>1. ~ written.spilled
      BY <1>5, <1>7, <1>9
    <3>2. ~ f.spilled /\ ~ f.hdr["binsRemain"] <= 0
      BY <3>1
    <3>3. QED
      BY <1>1, <3>2
  <2>2. Laid(f.cells, f.hdr["nextBin"], f.hdr["binsRemain"] * BinSize, base)
    BY <2>1 DEF Safe
  <2>3. /\ Laid(written.cells, f.hdr["nextBin"],
                f.hdr["binsRemain"] * BinSize, eof)
        /\ Leads(written.cells, base, rec.type, eof)
    BY <2>2, WriteLays
  <2>4. written.hdr = f.hdr
    OBVIOUS
  <2> HIDE DEF written, eof, base
  <2>5. Laid(entered.cells, entered.hdr["nextBin"],
             entered.hdr["binsRemain"] * BinSize, eof)
    BY <1>1, <1>3, <1>4, <2>1, <2>3, <2>4, EnterSafe DEF Status, Address
  <2>6. QED
    BY <1>5, <1>8, <2>5
<1>10. QED
  BY <1>2, <1>9 DEF Safe

(* Entering an alias keeps the layout. *)
LEMMA AliasedSafe ==
    ASSUME NEW f, Safe(f), NEW g, Aliased(f, g)
    PROVE  Safe(g)
<1> PICK slot \in DOMAIN f.cells, alias \in Path :
           /\ HasTag(f, slot, "entry")
           /\ g = Count(EnterBin(f, Entry(alias, "ALIAS", f.cells[slot].info,
                                         f.cells[slot].type)),
                        "numberAliases")
  BY DEF Aliased
<1> DEFINE info == f.cells[slot].info
           type == f.cells[slot].type
           size == f.hdr["fileSize"]
           entered == EnterBin(f, Entry(alias, "ALIAS", info, type))
<1>1. /\ f \in Image /\ size \in Nat /\ f.hdr["binsRemain"] \in Nat
      /\ f.hdr["binsRemain"] <= 0 => f.hdr["binsRemain"] = 0
  BY ImageFields DEF Safe, HeaderWord
<1>2. info \in Address /\ type \in RecordType
  BY <1>1, FoundEntry
<1>3. entered \in Image
  BY <1>1, <1>2, EnterBinType DEF Status
<1>4. g \in Image
  BY <1>3, CountType DEF HeaderWord
<1>5. /\ g.hdr = [entered.hdr EXCEPT !["numberAliases"] = @ + 1]
      /\ g.cells = entered.cells /\ g.spilled = entered.spilled
  BY DEF Count
<1>6. entered.spilled = f.spilled
  BY DEF EnterBin, TakeSlot, AllocateNewBinBlock
<1>7. /\ g.hdr["nextBin"] = entered.hdr["nextBin"]
      /\ g.hdr["binsRemain"] = entered.hdr["binsRemain"]
      /\ g.hdr["fileSize"] = entered.hdr["fileSize"]
  BY <1>3, <1>5, ImageFields DEF Header, HeaderWord
<1>8. entered.hdr["fileSize"] = IF f.hdr["binsRemain"] = 0
                                THEN size + BlockSize ELSE size
  <2>1. CASE f.hdr["binsRemain"] = 0
    <3> DEFINE h == AllocateNewBinBlock(f)
    <3>1. h \in Image /\ h.hdr["fileSize"] = size + BlockSize
      BY <1>1, AllocateType, AllocateWords DEF HeaderWord
    <3>2. entered = TakeSlot(h, Entry(alias, "ALIAS", info, type))
      BY <2>1 DEF EnterBin
    <3> HIDE DEF h
    <3>3. QED
      BY <2>1, <3>1, <3>2, TakeSlotWords DEF HeaderWord
  <2>2. CASE f.hdr["binsRemain"] # 0
    <3>1. entered = TakeSlot(f, Entry(alias, "ALIAS", info, type))
      BY <1>1, <2>2 DEF EnterBin
    <3>2. QED
      BY <1>1, <2>2, <3>1, TakeSlotWords DEF HeaderWord
  <2>3. QED
    BY <2>1, <2>2
<1>9. ASSUME ~ g.spilled
      PROVE  Laid(g.cells, g.hdr["nextBin"], g.hdr["binsRemain"] * BinSize,
                  g.hdr["fileSize"])
  <2>1. Laid(f.cells, f.hdr["nextBin"], f.hdr["binsRemain"] * BinSize, size)
    BY <1>5, <1>6, <1>9 DEF Safe
  <2>2. Leads(f.cells, info, type, size)
    BY <2>1 DEF Laid, EntriesLead, HasTag
  <2> HIDE DEF info, type
  <2>3. Laid(entered.cells, entered.hdr["nextBin"],
             entered.hdr["binsRemain"] * BinSize,
             IF f.hdr["binsRemain"] = 0 THEN size + BlockSize ELSE size)
    BY <1>1, <1>2, <2>1, <2>2, EnterSafe DEF Status
  <2> HIDE DEF entered
  <2>4. QED
    BY <1>5, <1>7, <1>8, <2>3
<1>10. QED
  BY <1>4, <1>9 DEF Safe

(* Setting a status keeps the layout. *)
LEMMA MarkedSafe ==
    ASSUME NEW f, Safe(f), NEW g, Marked(f, g)
    PROVE  Safe(g)
<1> PICK slot \in DOMAIN f.cells, status \in Status :
        /\ HasTag(f, slot, "entry")
        /\ \/ g = SetStatus(f, slot, status)
           \/ \E word \in {"numberDeletes", "numberAliasDeletes"} :
                  g = Count(SetStatus(f, slot, status), word)
  BY DEF Marked
<1> DEFINE old == f.cells[slot]
           entry == Entry(old.path, status, old.info, old.type)
<1>1. f \in Image /\ g \in Image
  BY ChangeType DEF Safe, Change
<1>2. /\ entry \in Cell /\ entry.tag = "entry" /\ old.tag = "entry"
      /\ entry.info = old.info /\ entry.type = old.type
  BY <1>1, FoundEntry DEF Entry, Cell, HasTag
<1>3. /\ g.cells = [f.cells EXCEPT ![slot] = entry]
      /\ g.spilled = f.spilled
      /\ \/ g.hdr = f.hdr
         \/ \E word \in {"numberDeletes", "numberAliasDeletes"} :
                g.hdr = [f.hdr EXCEPT ![word] = @ + 1]
  BY DEF SetStatus, Count
<1>4. /\ g.hdr["nextBin"] = f.hdr["nextBin"]
      /\ g.hdr["binsRemain"] = f.hdr["binsRemain"]
      /\ g.hdr["fileSize"] = f.hdr["fileSize"]
  BY <1>1, <1>3, ImageFields DEF Header, HeaderWord
<1> HIDE DEF entry
<1>5. ASSUME ~ g.spilled
      PROVE  Laid(g.cells, f.hdr["nextBin"], f.hdr["binsRemain"] * BinSize,
                  f.hdr["fileSize"])
  <2>1. Laid(f.cells, f.hdr["nextBin"], f.hdr["binsRemain"] * BinSize,
             f.hdr["fileSize"])
    BY <1>3, <1>5 DEF Safe
  <2>2. QED
    BY <1>2, <1>3, <2>1, MarkLays
<1>6. QED
  BY <1>1, <1>4, <1>5 DEF Safe
-----------------------------------------------------------------------------
(* What is found under a name stays.                                       *)

\* Everything in front of size but free cells is as it was.
CellsKept(cells, new, size) ==
    \A i \in DOMAIN cells :
        i < size /\ cells[i] # Zero => i \in DOMAIN new /\ new[i] = cells[i]

\* So is every slot of the hash table that leads somewhere.
HashKept(hash, new) ==
    \A h \in 0..MaxHash-1 : hash[h] # 0 => new[h] = hash[h]

(* A record stored at the end of the file, an entry in a free slot and a
   bin block at the end keep all cells in use. *)
LEMMA WriteKeeps ==
    ASSUME NEW cells \in Seq(Cell), NEW size \in Nat \ {0},
           NEW path, NEW rec \in Record
    PROVE  CellsKept(cells, WriteRecord(cells, size, path, rec), size)
<1> DEFINE at == Layout(size, rec.content)
           eof == size + Size(rec.content)
           n == Extent(cells, eof + 1)
           new == WriteRecord(cells, size, path, rec)
<1>1. rec.content \in Content
  BY DEF Record
<1>2. /\ Size(rec.content) \in 1..7
      /\ \A a \in Area : Offset(rec.content, a) \in 1..6
  BY <1>1, OffsetType
<1>3. \A a \in Area : at[a] = 0 \/ at[a] = size + Offset(rec.content, a)
  BY DEF Layout
<1>4. new = [i \in 1..n |->
            IF i = size THEN Info(path, rec.type, at)
            ELSE IF i = eof THEN EofFlag
            ELSE IF \E a \in Area : at[a] = i
                 THEN Data(rec.content[CHOOSE a \in Area : at[a] = i])
            ELSE CellAt(cells, i)]
  BY DEF WriteRecord
<1>5. eof \in Nat /\ size < eof
  BY <1>2
<1> HIDE DEF at, eof, new
<1>6. n \in Nat /\ n >= Len(cells)
  BY <1>5 DEF Extent
<1> HIDE DEF n
<1>7. ASSUME NEW i \in DOMAIN cells, i < size
      PROVE  i \in DOMAIN new /\ new[i] = cells[i]
  <2>1. i \in 1..n /\ i # size /\ i # eof /\ i # 0
    BY <1>5, <1>6, <1>7
  <2>2. \A a \in Area : at[a] # i
    BY <1>2, <1>3, <1>7, <2>1
  <2>3. new[i] = CellAt(cells, i)
    BY <1>4, <2>1, <2>2
  <2>4. QED
    BY <1>4, <2>1, <2>3 DEF CellAt
<1>8. QED
  BY <1>7 DEF CellsKept, new

(* Entering a name overwrites nothing but zeros, and no hash slot in use. *)
LEMMA EnterKeeps ==
    ASSUME NEW f \in Image, NEW entry \in Cell, entry.path \in Path,
           NEW size \in Nat, f.hdr["binsRemain"] = 0 => size = f.hdr["fileSize"],
           f.cells[f.hdr["nextBin"]] = Zero
    PROVE  /\ CellsKept(f.cells, EnterBin(f, entry).cells, size)
           /\ HashKept(f.hash, EnterBin(f, entry).hash)
<1> DEFINE cells == f.cells
           next == f.hdr["nextBin"]
<1>1. /\ f.hdr["binsRemain"] \in Nat /\ next \in Nat
      /\ f.hdr["fileSize"] \in Nat /\ cells \in Seq(Cell)
      /\ f.hash \in [0..MaxHash-1 -> Nat]
  BY ImageFields DEF HeaderWord
<1>2. ASSUME NEW h
      PROVE  /\ TakeSlot(h, entry).cells = [h.cells EXCEPT ![h.hdr["nextBin"]] = entry]
             /\ TakeSlot(h, entry).hash =
                  [h.hash EXCEPT ![TableHash[entry.path]] =
                      IF h.hash[TableHash[entry.path]] = 0
                      THEN h.hdr["nextBin"] ELSE @]
  BY DEF TakeSlot
<1>3. ASSUME NEW h, h.hash = f.hash
      PROVE  HashKept(f.hash, TakeSlot(h, entry).hash)
  <2> DEFINE new == TakeSlot(h, entry).hash
             t == TableHash[entry.path]
  <2>1. new = [f.hash EXCEPT ![t] =
                  IF f.hash[t] = 0 THEN h.hdr["nextBin"] ELSE f.hash[t]]
    BY <1>2, <1>3
  <2> HIDE DEF new, t
  <2>2. \A k \in 0..MaxHash-1 : f.hash[k] # 0 => new[k] = f.hash[k]
    BY <1>1, <2>1
  <2>3. QED
    BY <2>2 DEF HashKept, new
<1>4. CASE f.hdr["binsRemain"] = 0
  <2> DEFINE h == AllocateNewBinBlock(f)
             end == size + BlockSize
             n == Extent(cells, end)
  <2>1. EnterBin(f, entry) = TakeSlot(h, entry) /\ size = f.hdr["fileSize"]
    BY <1>4 DEF EnterBin
  <2>2. /\ h.cells = [i \in 1..n |-> IF i = next THEN Ptr(size)
                                     ELSE IF i \in size..(end - 1) THEN Zero
                                     ELSE CellAt(cells, i)]
        /\ h.hash = f.hash
    BY <2>1 DEF AllocateNewBinBlock
  <2>3. h.hdr["nextBin"] = size
    BY <2>1, AllocateWords DEF HeaderWord
  <2>4. end \in Nat
    BY BlockType
  <2> HIDE DEF h, end, cells, next
  <2>5. n \in Nat /\ n >= Len(cells)
    BY <1>1, <2>4 DEF Extent
  <2> HIDE DEF n
  <2>6. ASSUME NEW i \in DOMAIN cells, i < size, cells[i] # Zero
        PROVE  i \in DOMAIN h.cells /\ h.cells[i] = cells[i]
    <3>1. i \in 1..n /\ i # next
      BY <1>1, <2>5, <2>6 DEF cells, next
    <3>2. ~ i \in size..(end - 1)
      BY <2>4, <2>6
    <3>3. h.cells[i] = CellAt(cells, i) /\ i \in DOMAIN h.cells
      BY <2>2, <3>1, <3>2
    <3>4. QED
      BY <2>6, <3>3 DEF CellAt
  <2>7. TakeSlot(h, entry).cells = [h.cells EXCEPT ![size] = entry]
    BY <1>2, <2>3
  <2>8. ASSUME NEW i \in DOMAIN cells, i < size, cells[i] # Zero
        PROVE  /\ i \in DOMAIN TakeSlot(h, entry).cells
               /\ TakeSlot(h, entry).cells[i] = cells[i]
    <3>1. i # size
      BY <1>1, <2>8 DEF cells
    <3>2. QED
      BY <2>6, <2>7, <2>8, <3>1
  <2>9. QED
    BY <1>3, <2>1, <2>2, <2>8 DEF CellsKept, cells
<1>5. CASE f.hdr["binsRemain"] # 0
  <2>1. EnterBin(f, entry) = TakeSlot(f, entry)
    BY <1>1, <1>5 DEF EnterBin
  <2>2. TakeSlot(f, entry).cells = [cells EXCEPT ![next] = entry]
    BY <1>2
  <2>3. \A i \in DOMAIN cells : cells[i] # Zero =>
            /\ i \in DOMAIN TakeSlot(f, entry).cells
            /\ TakeSlot(f, entry).cells[i] = cells[i]
    BY <2>2
  <2>4. QED
    BY <1>3, <2>1, <2>3 DEF CellsKept
<1>6. QED
  BY <1>4, <1>5

(* A name is read through its slot of the hash table, the entry there, the
   info block and its areas: where these stay, so does what is read. *)
LEMMA ReadingKept ==
    ASSUME NEW f \in Image, NEW g \in Image, NEW size \in Nat,
           EntriesLead(f.cells, size), HashKept(f.hash, g.hash),
           \A i \in DOMAIN f.cells :
               /\ f.cells[i].tag = "entry" =>
                      /\ i \in DOMAIN g.cells
                      /\ g.cells[i].tag = "entry"
                      /\ g.cells[i].path = f.cells[i].path
                      /\ g.cells[i].info = f.cells[i].info
               /\ i < size /\ f.cells[i].tag \in {"info", "data"} =>
                      i \in DOMAIN g.cells /\ g.cells[i] = f.cells[i],
           NEW path, ReadRecord(f, path) # NoRecord
    PROVE  ReadRecord(g, path) = ReadRecord(f, path)
<1> DEFINE slot == FindRecord(f, path)
           info == f.cells[slot].info
           block == f.cells[info]
<1>1. HasInfo(f, slot) /\ path \in Path
  BY ReadRecordType DEF ReadRecord, RecordAt
<1>2. /\ HasTag(f, slot, "entry") /\ slot # 0
      /\ info \in DOMAIN f.cells /\ block.tag = "info"
  BY <1>1, FoundEntry DEF HasInfo, HasTag
<1>3. slot = HashSlot(f, path) /\ f.cells[slot].path = path
  BY <1>2 DEF FindRecord
<1>4. HashSlot(g, path) = slot
  <2>1. TableHash[path] \in 0..MaxHash-1
    BY <1>1, ImageAssumption
  <2>2. QED
    BY <1>2, <1>3, <2>1 DEF HashSlot, HashKept
<1>5. Leads(f.cells, info, f.cells[slot].type, size)
  BY <1>2 DEF EntriesLead, HasTag
<1> HIDE DEF slot
<1>6. /\ HasTag(g, slot, "entry") /\ g.cells[slot].path = path
      /\ g.cells[slot].info = info
  BY <1>2, <1>3 DEF HasTag
<1>7. FindRecord(g, path) = slot
  BY <1>4, <1>6 DEF FindRecord
<1> HIDE DEF info
<1>8. info \in DOMAIN g.cells /\ g.cells[info] = block
  BY <1>2, <1>5 DEF Leads
<1>9. HasInfo(g, slot)
  BY <1>2, <1>6, <1>8 DEF HasInfo, HasTag
<1>10. ASSUME NEW a \in Area
       PROVE  ReadArea(g, block.at[a]) = ReadArea(f, block.at[a])
  <2> DEFINE addr == block.at[a]
  <2>1. addr < size
        /\ (addr # 0 => addr \in DOMAIN f.cells /\ f.cells[addr].tag = "data")
    BY <1>5 DEF Leads
  <2> HIDE DEF addr
  <2>2. addr # 0 => addr \in DOMAIN g.cells /\ g.cells[addr] = f.cells[addr]
    BY <2>1
  <2>3. ReadArea(g, addr) = ReadArea(f, addr)
    BY <2>1, <2>2 DEF ReadArea, HasTag
  <2>4. QED
    BY <2>3 DEF addr
<1>11. RecordAt(f, slot) = [type |-> block.type,
                            content |-> [a \in Area |-> ReadArea(f, block.at[a])]]
  BY <1>1 DEF RecordAt, info, slot
<1>12. RecordAt(g, slot) = [type |-> block.type,
                            content |-> [a \in Area |-> ReadArea(g, block.at[a])]]
  BY <1>6, <1>8, <1>9 DEF RecordAt
<1> HIDE DEF block
<1>13. [a \in Area |-> ReadArea(g, block.at[a])]
         = [a \in Area |-> ReadArea(f, block.at[a])]
  BY <1>10
<1>14. QED
  BY <1>7, <1>11, <1>12, <1>13 DEF ReadRecord, slot

(* What is read under a name stays through every operation. *)
LEMMA StoredReads ==
    ASSUME NEW f, Safe(f), NEW g, Stored(f, g), ~ g.spilled,
           NEW path, ReadRecord(f, path) # NoRecord
    PROVE  ReadRecord(g, path) = ReadRecord(f, path)
<1> PICK name \in Path, rec \in Record : g = StoreRecord(f, name, rec)
  BY DEF Stored
<1> DEFINE base == f.hdr["fileSize"]
           entry == Entry(name, "PRIMARY", base, rec.type)
           written == [hdr |-> f.hdr, hash |-> f.hash,
                       cells |-> WriteRecord(f.cells, base, name, rec),
                       spilled |-> f.spilled \/ f.hdr["binsRemain"] <= 0]
           entered == EnterBin(written, entry)
<1>1. /\ f \in Image /\ base \in Nat /\ f.hdr["binsRemain"] \in Nat
      /\ f.cells \in Seq(Cell) /\ rec.type \in RecordType
  BY ImageFields DEF Safe, HeaderWord, Record
<1>2. g \in Image /\ written \in Image
  BY <1>1, StoreRecordType, WriteRecordType DEF Image
<1>3. g.cells = entered.cells /\ g.hash = entered.hash
      /\ g.spilled = entered.spilled
  BY DEF StoreRecord, WriteBinEntry
<1>4. entered.spilled = written.spilled
  BY DEF EnterBin, TakeSlot, AllocateNewBinBlock
<1>5. ~ f.spilled /\ f.hdr["binsRemain"] # 0
  <2>1. ~ f.spilled /\ ~ f.hdr["binsRemain"] <= 0
    BY <1>3, <1>4
  <2>2. QED
    BY <1>1, <2>1
<1>6. Laid(f.cells, f.hdr["nextBin"], f.hdr["binsRemain"] * BinSize, base)
  BY <1>5 DEF Safe
<1>7. /\ base \in Nat \ {0} /\ EntriesLead(f.cells, base)
      /\ f.hdr["nextBin"] \in DOMAIN f.cells
      /\ f.hdr["nextBin"] < base
      /\ f.cells[f.hdr["nextBin"]] = Zero
  <2> DEFINE next == f.hdr["nextBin"]
             free == f.hdr["binsRemain"] * BinSize
  <2>1. Laid(f.cells, next, free, base)
    BY <1>6
  <2> HIDE DEF next, free, base
  <2>2. /\ base \in Nat \ {0} /\ EntriesLead(f.cells, base)
        /\ next \in DOMAIN f.cells /\ next < base /\ f.cells[next] = Zero
    BY <2>1 DEF Laid
  <2>3. QED
    BY <2>2 DEF next
<1>8. CellsKept(f.cells, written.cells, base)
  BY <1>1, <1>7, WriteKeeps
<1>9. written.cells[f.hdr["nextBin"]] = Zero
  <2>1. Laid(written.cells, f.hdr["nextBin"], f.hdr["binsRemain"] * BinSize,
             base + Size(rec.content))
    BY <1>6, WriteLays
  <2>2. f.hdr["nextBin"] \in f.hdr["nextBin"]
           ..(f.hdr["nextBin"] + f.hdr["binsRemain"] * BinSize)
    BY <2>1 DEF Laid
  <2>3. QED
    BY <2>1, <2>2 DEF Laid
<1>10. entry \in Cell /\ entry.path \in Path
  BY <1>1 DEF Entry, Cell, Status, Address
<1>11. written.hdr = f.hdr /\ written.hash = f.hash
  OBVIOUS
<1> HIDE DEF written, entry, base
<1>12. /\ CellsKept(written.cells, entered.cells, base)
       /\ HashKept(f.hash, entered.hash)
  <2>1. /\ written.hdr["binsRemain"] = 0 => base = written.hdr["fileSize"]
        /\ written.cells[written.hdr["nextBin"]] = Zero
    BY <1>5, <1>9, <1>11
  <2>2. QED
    BY <1>1, <1>2, <1>10, <1>11, <2>1, EnterKeeps
<1> HIDE DEF entered
<1>13. \A i \in DOMAIN f.cells :
          i < base /\ f.cells[i] # Zero => i \in DOMAIN g.cells /\ g.cells[i] = f.cells[i]
  BY <1>3, <1>8, <1>12 DEF CellsKept
<1>14. \A i \in DOMAIN f.cells :
          f.cells[i].tag = "entry" => i < base /\ f.cells[i] # Zero
  BY <1>7 DEF EntriesLead, Zero
<1>15. \A i \in DOMAIN f.cells :
          f.cells[i].tag \in {"info", "data"} => f.cells[i] # Zero
  BY DEF Zero
<1>16. QED
  BY <1>1, <1>2, <1>3, <1>7, <1>12, <1>13, <1>14, <1>15, ReadingKept

(* An alias entered changes nothing that is read. *)
LEMMA AliasedReads ==
    ASSUME NEW f, Safe(f), NEW g, Aliased(f, g), ~ g.spilled,
           NEW path, ReadRecord(f, path) # NoRecord
    PROVE  ReadRecord(g, path) = ReadRecord(f, path)
<1> PICK slot \in DOMAIN f.cells, alias \in Path :
           /\ HasTag(f, slot, "entry")
           /\ g = Count(EnterBin(f, Entry(alias, "ALIAS", f.cells[slot].info,
                                         f.cells[slot].type)),
                        "numberAliases")
  BY DEF Aliased
<1> DEFINE size == f.hdr["fileSize"]
           next == f.hdr["nextBin"]
           free == f.hdr["binsRemain"] * BinSize
           entry == Entry(alias, "ALIAS", f.cells[slot].info, f.cells[slot].type)
           entered == EnterBin(f, entry)
<1>1. f \in Image /\ g \in Image /\ size \in Nat
  BY ChangeType, ImageFields DEF Safe, Change, HeaderWord
<1>2. /\ g.cells = entered.cells /\ g.hash = entered.hash
      /\ g.spilled = entered.spilled
  BY DEF Count
<1>3. entered.spilled = f.spilled
  BY DEF EnterBin, TakeSlot, AllocateNewBinBlock
<1>4. Laid(f.cells, next, free, size)
  BY <1>2, <1>3 DEF Safe
<1>5. entry \in Cell /\ entry.path \in Path
  BY <1>1, FoundEntry DEF Entry, Cell, Status
<1> HIDE DEF entry, next, free
<1>6. EntriesLead(f.cells, size) /\ f.cells[next] = Zero
  <2> HIDE DEF size
  <2>1. QED
    BY <1>4 DEF Laid
<1>7. /\ CellsKept(f.cells, entered.cells, size)
      /\ HashKept(f.hash, entered.hash)
  BY <1>1, <1>5, <1>6, EnterKeeps DEF next
<1> HIDE DEF entered, size
<1>8. \A i \in DOMAIN f.cells :
          f.cells[i].tag = "entry" => i < size /\ f.cells[i] # Zero
  BY <1>6 DEF EntriesLead, Zero
<1>9. \A i \in DOMAIN f.cells :
          f.cells[i].tag \in {"info", "data"} => f.cells[i] # Zero
  BY DEF Zero
<1>10. \A i \in DOMAIN f.cells :
          i < size /\ f.cells[i] # Zero => i \in DOMAIN g.cells /\ g.cells[i] = f.cells[i]
  BY <1>2, <1>7 DEF CellsKept
<1>11. QED
  BY <1>1, <1>2, <1>6, <1>7, <1>8, <1>9, <1>10, ReadingKept

(* A status set changes nothing that is read. *)
LEMMA MarkedReads ==
    ASSUME NEW f, Safe(f), NEW g, Marked(f, g), ~ g.spilled,
           NEW path, ReadRecord(f, path) # NoRecord
    PROVE  ReadRecord(g, path) = ReadRecord(f, path)
<1> PICK slot \in DOMAIN f.cells, status \in Status :
        /\ HasTag(f, slot, "entry")
        /\ \/ g = SetStatus(f, slot, status)
           \/ \E word \in {"numberDeletes", "numberAliasDeletes"} :
                  g = Count(SetStatus(f, slot, status), word)
  BY DEF Marked
<1> DEFINE entry == Entry(f.cells[slot].path, status, f.cells[slot].info,
                          f.cells[slot].type)
           size == f.hdr["fileSize"]
<1>1. f \in Image /\ g \in Image /\ size \in Nat
  BY ChangeType, ImageFields DEF Safe, Change, HeaderWord
<1>2. /\ g.cells = [f.cells EXCEPT ![slot] = entry]
      /\ g.hash = f.hash /\ g.spilled = f.spilled
  BY DEF SetStatus, Count
<1>3. /\ entry.tag = "entry" /\ entry.path = f.cells[slot].path
      /\ entry.info = f.cells[slot].info
  BY DEF Entry
<1>4. f.cells[slot].tag = "entry"
  BY DEF HasTag
<1>5. EntriesLead(f.cells, size)
  BY <1>2 DEF Safe, Laid
<1> HIDE DEF entry, size
<1>6. \A i \in DOMAIN f.cells :
         i \in DOMAIN g.cells /\ g.cells[i] = IF i = slot THEN entry ELSE f.cells[i]
  BY <1>2
<1>7. HashKept(f.hash, g.hash)
  BY <1>2 DEF HashKept
<1>8. \A i \in DOMAIN f.cells :
         /\ f.cells[i].tag = "entry" =>
                /\ i \in DOMAIN g.cells
                /\ g.cells[i].tag = "entry"
                /\ g.cells[i].path = f.cells[i].path
                /\ g.cells[i].info = f.cells[i].info
         /\ i < size /\ f.cells[i].tag \in {"info", "data"} =>
                i \in DOMAIN g.cells /\ g.cells[i] = f.cells[i]
  BY <1>3, <1>4, <1>6
<1>9. QED
  BY <1>1, <1>5, <1>7, <1>8, ReadingKept

(* No change alters what a name reads. *)
LEMMA ChangeReads ==
    ASSUME NEW f, Safe(f), NEW g, Change(f, g), ~ g.spilled,
           NEW path, ReadRecord(f, path) # NoRecord
    PROVE  ReadRecord(g, path) = ReadRecord(f, path)
  BY StoredReads, AliasedReads, MarkedReads DEF Change

(* Every change keeps the layout. *)
LEMMA ChangeSafe ==
    ASSUME NEW f, Safe(f), NEW g, Change(f, g)
    PROVE  Safe(g)
  BY StoredSafe, AliasedSafe, MarkedSafe DEF Change

(* No operation forgets that a bin block was laid over a record. *)
LEMMA SpilledStays ==
    ASSUME NEW f, NEW g, Change(f, g), f.spilled
    PROVE  g.spilled
<1>1. \A h, entry : EnterBin(h, entry).spilled = h.spilled
  BY DEF EnterBin, TakeSlot, AllocateNewBinBlock
<1>2. CASE Stored(f, g)
  <2>1. PICK path \in Path, rec \in Record : g = StoreRecord(f, path, rec)
    BY <1>2 DEF Stored
  <2> DEFINE base == f.hdr["fileSize"]
             written == [hdr |-> f.hdr, hash |-> f.hash,
                         cells |-> WriteRecord(f.cells, base, path, rec),
                         spilled |-> f.spilled \/ f.hdr["binsRemain"] <= 0]
             entry == Entry(path, "PRIMARY", base, rec.type)
  <2>2. g.spilled = EnterBin(written, entry).spilled
    BY <2>1 DEF StoreRecord, WriteBinEntry
  <2>3. written.spilled
    OBVIOUS
  <2> HIDE DEF written, entry
  <2>4. QED
    BY <1>1, <2>2, <2>3
<1>3. CASE Aliased(f, g)
  BY <1>1, <1>3 DEF Aliased, Count
<1>4. CASE Marked(f, g)
  BY <1>4 DEF Marked, Count, SetStatus
<1>5. QED
  BY <1>2, <1>3, <1>4 DEF Change

-----------------------------------------------------------------------------
(* Induction and recursion over the natural numbers.                       *)

(* A set of naturals has a least element. *)
LEMMA LeastNatural ==
    ASSUME NEW T, T \subseteq Nat, T # {}
    PROVE  \E x \in T : \A y \in T : x <= y
<1> DEFINE Less == {ss \in Nat \X Nat : ss[1] < ss[2]}
<1>1. Less = OpToRel(<, Nat)
  BY DEF OpToRel
<1>2. IsWellFoundedOn(Less, Nat)
  BY <1>1, NatLessThanWellFounded
<1>3. \A x, y \in Nat : <<y, x>> \in Less <=> y < x
  OBVIOUS
<1> HIDE DEF Less
<1>4. PICK x \in T : \A y \in T : ~ (<<y, x>> \in Less)
  BY <1>2, WFMin
<1>5. \A y \in T : ~ (y < x)
  BY <1>3, <1>4
<1>6. x \in Nat /\ \A y \in T : y \in Nat
  OBVIOUS
<1>7. QED
  BY <1>4, <1>5, <1>6

(* A set that has 0 and with each number the next has them all. *)
LEMMA SetInduction ==
    ASSUME NEW S, 0 \in S, \A n \in Nat : n \in S => n + 1 \in S
    PROVE  Nat \subseteq S
<1> SUFFICES ASSUME Nat \ S # {} PROVE FALSE
  OBVIOUS
<1>1. PICK x \in Nat \ S : \A y \in Nat \ S : x <= y
  BY LeastNatural
<1>2. x - 1 \in Nat /\ x - 1 \in S
  BY <1>1
<1>3. QED
  BY <1>1, <1>2

\* A function that begins with first and goes on by the function step.
Unfolds(g, first, step, upto) ==
    /\ g[0] = first
    /\ \A n \in 0..(upto - 1) : g[n + 1] = step[n][g[n]]

(* Two such functions agree as far as both go. *)
LEMMA UnfoldsAgree ==
    ASSUME NEW g, NEW h, NEW first, NEW step, NEW upto \in Nat,
           Unfolds(g, first, step, upto), Unfolds(h, first, step, upto)
    PROVE  \A n \in 0..upto : g[n] = h[n]
<1> DEFINE S == {n \in Nat : n <= upto => g[n] = h[n]}
<1>1. 0 \in S
  BY DEF Unfolds
<1>2. ASSUME NEW n \in Nat, n \in S PROVE n + 1 \in S
  <2>1. CASE n + 1 <= upto
    <3>1. n \in 0..(upto - 1) /\ g[n] = h[n]
      BY <1>2, <2>1
    <3>2. g[n + 1] = step[n][g[n]] /\ h[n + 1] = step[n][h[n]]
      BY <3>1 DEF Unfolds
    <3>3. QED
      BY <3>1, <3>2
  <2>2. QED
    BY <2>1
<1> HIDE DEF S
<1>3. Nat \subseteq S
  BY <1>1, <1>2, SetInduction
<1>4. QED
  BY <1>3 DEF S

UnfoldsAll(g, first, step) ==
    /\ g[0] = first
    /\ \A n \in Nat : g[n + 1] = step[n][g[n]]

(* There is one for all numbers. *)
LEMMA UnfoldsExists ==
    ASSUME NEW V, NEW first \in V, NEW step \in [Nat -> [V -> V]]
    PROVE  \E g \in [Nat -> V] : UnfoldsAll(g, first, step)
<1> DEFINE Upto(n) == {g \in [0..n -> V] : Unfolds(g, first, step, n)}
           S == {n \in Nat : Upto(n) # {}}
<1>1. 0 \in S
  <2>1. [i \in 0..0 |-> first] \in Upto(0)
    BY DEF Unfolds
  <2>2. QED
    BY <2>1
<1>2. ASSUME NEW n \in Nat, n \in S PROVE n + 1 \in S
  <2>1. PICK g \in [0..n -> V] : Unfolds(g, first, step, n)
    BY <1>2
  <2> DEFINE h == [i \in 0..(n + 1) |-> IF i = n + 1 THEN step[n][g[n]] ELSE g[i]]
  <2>2. step[n][g[n]] \in V
    OBVIOUS
  <2>3. h \in [0..(n + 1) -> V]
    BY <2>2
  <2>4. Unfolds(h, first, step, n + 1)
    <3>1. h[0] = first
      BY <2>1 DEF Unfolds
    <3>2. ASSUME NEW i \in 0..n PROVE h[i + 1] = step[i][h[i]]
      <4>1. h[i] = g[i]
        OBVIOUS
      <4>2. CASE i = n
        BY <4>1, <4>2
      <4>3. CASE i # n
        <5>1. i \in 0..(n - 1) /\ i + 1 \in 0..n
          BY <4>3
        <5>2. g[i + 1] = step[i][g[i]]
          BY <2>1, <5>1 DEF Unfolds
        <5>3. QED
          BY <4>1, <5>1, <5>2
      <4>4. QED
        BY <4>2, <4>3
    <3> HIDE DEF h
    <3>3. QED
      BY <3>1, <3>2 DEF Unfolds
  <2>5. QED
    BY <2>3, <2>4
<1>3. Nat \subseteq S
  <2> HIDE DEF S
  <2>1. QED
    BY <1>1, <1>2, SetInduction
<1> DEFINE part == [n \in Nat |-> CHOOSE g \in [0..n -> V] : Unfolds(g, first, step, n)]
           all  == [n \in Nat |-> part[n][n]]
<1>4. \A n \in Nat : part[n] \in [0..n -> V] /\ Unfolds(part[n], first, step, n)
  BY <1>3
<1> HIDE DEF part
<1>5. all \in [Nat -> V]
  BY <1>4
<1>6. all[0] = first
  BY <1>4 DEF Unfolds
<1>7. ASSUME NEW n \in Nat PROVE all[n + 1] = step[n][all[n]]
  <2>1. Unfolds(part[n + 1], first, step, n)
    BY <1>4 DEF Unfolds
  <2>2. part[n + 1][n] = part[n][n]
    BY <1>4, <2>1, UnfoldsAgree
  <2>3. part[n + 1][n + 1] = step[n][part[n + 1][n]]
    BY <1>4 DEF Unfolds
  <2>4. QED
    BY <2>2, <2>3
<1> HIDE DEF all
<1>8. QED
  BY <1>5, <1>6, <1>7 DEF UnfoldsAll

-----------------------------------------------------------------------------
(* The elements of a sequence at the positions in a set.                   *)

\* What the loop has kept when it has looked at n elements.
Kept(seq, at) ==
    LET kept[n \in Nat] ==
            IF n = 0 THEN << >>
            ELSE IF n \in at THEN Append(kept[n - 1], seq[n])
            ELSE kept[n - 1]
    IN  kept

Keeps(k, seq, at) ==
    /\ k[0] = << >>
    /\ \A n \in 1..Len(seq) :
           k[n] = IF n \in at THEN Append(k[n - 1], seq[n]) ELSE k[n - 1]

(* It is defined for every n, and one element makes of it what it should. *)
LEMMA KeptSteps ==
    ASSUME NEW V, NEW s \in Seq(V), NEW at, at \subseteq 1..Len(s)
    PROVE  Kept(s, at) \in [Nat -> Seq(V)] /\ Keeps(Kept(s, at), s, at)
<1> DEFINE step == [n \in Nat |-> [v \in Seq(V) |->
                       IF n + 1 \in at THEN Append(v, s[n + 1]) ELSE v]]
           Body(k) == [n \in Nat |-> IF n = 0 THEN << >>
                                     ELSE IF n \in at THEN Append(k[n - 1], s[n])
                                     ELSE k[n - 1]]
<1>1. step \in [Nat -> [Seq(V) -> Seq(V)]]
  <2>1. ASSUME NEW n \in Nat, NEW v \in Seq(V), n + 1 \in at
        PROVE  Append(v, s[n + 1]) \in Seq(V)
    BY <2>1
  <2>2. QED
    BY <2>1
<1>2. \A n \in Nat, v \in Seq(V) :
          step[n][v] = IF n + 1 \in at THEN Append(v, s[n + 1]) ELSE v
  OBVIOUS
<1>3. << >> \in Seq(V)
  OBVIOUS
<1> HIDE DEF step
<1>4. PICK g \in [Nat -> Seq(V)] : UnfoldsAll(g, << >>, step)
  <2> DEFINE W == Seq(V)
             first == << >>
  <2>1. first \in W /\ step \in [Nat -> [W -> W]]
    BY <1>1, <1>3
  <2> HIDE DEF W, first
  <2>2. \E g \in [Nat -> W] : UnfoldsAll(g, first, step)
    BY <2>1, UnfoldsExists
  <2>3. QED
    BY <2>2 DEF W, first
<1>5. ASSUME NEW n \in Nat \ {0}
      PROVE  g[n] = IF n \in at THEN Append(g[n - 1], s[n]) ELSE g[n - 1]
  <2>1. n - 1 \in Nat /\ (n - 1) + 1 = n
    OBVIOUS
  <2>2. g[n] = step[n - 1][g[n - 1]] /\ g[n - 1] \in Seq(V)
    BY <1>4, <2>1 DEF UnfoldsAll
  <2>3. QED
    BY <1>2, <2>1, <2>2
<1>6. g = Body(g)
  <2>1. \A n \in Nat : g[n] = Body(g)[n]
    BY <1>4, <1>5 DEF UnfoldsAll
  <2>2. g = [n \in Nat |-> g[n]] /\ Body(g) = [n \in Nat |-> Body(g)[n]]
    OBVIOUS
  <2> HIDE DEF Body
  <2>3. QED
    BY <2>1, <2>2
<1>7. Kept(s, at) = CHOOSE k : k = Body(k)
  BY DEF Kept
<1> DEFINE k == Kept(s, at)
<1>8. k = Body(k)
  <2> HIDE DEF Body
  <2>1. QED
    BY <1>6, <1>7
<1> HIDE DEF k
<1>9. /\ k = [n \in Nat |-> k[n]]
      /\ k[0] = << >>
      /\ \A n \in Nat \ {0} :
             k[n] = IF n \in at THEN Append(k[n - 1], s[n]) ELSE k[n - 1]
  BY <1>8
<1> HIDE DEF Body
<1>10. \A n \in Nat : k[n] = g[n]
  <2> DEFINE S == {n \in Nat : k[n] = g[n]}
  <2>1. 0 \in S
    BY <1>4, <1>9 DEF UnfoldsAll
  <2>2. ASSUME NEW n \in Nat, n \in S PROVE n + 1 \in S
    <3>1. n + 1 \in Nat \ {0} /\ (n + 1) - 1 = n
      OBVIOUS
    <3>2. k[n + 1] = IF n + 1 \in at THEN Append(k[n], s[n + 1]) ELSE k[n]
      BY <1>9, <3>1
    <3>3. g[n + 1] = IF n + 1 \in at THEN Append(g[n], s[n + 1]) ELSE g[n]
      BY <1>5, <3>1
    <3>4. QED
      BY <2>2, <3>2, <3>3
  <2> HIDE DEF S
  <2>3. Nat \subseteq S
    BY <2>1, <2>2, SetInduction
  <2>4. QED
    BY <2>3 DEF S
<1>11. k \in [Nat -> Seq(V)]
  <2>1. \A n \in Nat : k[n] \in Seq(V)
    BY <1>10
  <2>2. QED
    BY <1>9, <2>1
<1>12. \A n \in 1..Len(s) :
          k[n] = IF n \in at THEN Append(k[n - 1], s[n]) ELSE k[n - 1]
  <2>1. \A n \in 1..Len(s) : n \in Nat \ {0}
    OBVIOUS
  <2>2. QED
    BY <1>9, <2>1
<1>13. QED
  BY <1>9, <1>11, <1>12 DEF k, Keeps

(* What is selected is what the loop has kept at its end. *)
LEMMA SelectedIsKept ==
    ASSUME NEW s, NEW at
    PROVE  Selected(s, at) = Kept(s, at)[Len(s)]
  BY DEF Selected, Kept

\* Two sequences of the same set, a selection from each, and a length up to
\* which they are the same.
SameUpTo(V, s, at, t, bt, m) ==
    /\ s \in Seq(V) /\ at \subseteq 1..Len(s)
    /\ t \in Seq(V) /\ bt \subseteq 1..Len(t)
    /\ m \in Nat /\ m <= Len(s) /\ m <= Len(t)
    /\ \A i \in 1..m : s[i] = t[i] /\ (i \in at <=> i \in bt)

(* What was kept of a part depends on that part only. *)
LEMMA KeptAgree ==
    ASSUME NEW V, NEW s, NEW at, NEW t, NEW bt, NEW m,
           SameUpTo(V, s, at, t, bt, m)
    PROVE  Kept(s, at)[m] = Kept(t, bt)[m]
<1> DEFINE k == Kept(s, at)
           l == Kept(t, bt)
           S == {n \in Nat : n <= m => k[n] = l[n]}
<1>1. Keeps(k, s, at) /\ Keeps(l, t, bt)
  BY KeptSteps DEF SameUpTo
<1>2. /\ m \in Nat /\ m <= Len(s) /\ m <= Len(t)
      /\ \A i \in 1..m : s[i] = t[i] /\ (i \in at <=> i \in bt)
  BY DEF SameUpTo
<1> HIDE DEF k, l
<1>3. 0 \in S
  BY <1>1 DEF Keeps
<1>4. ASSUME NEW n \in Nat, n \in S PROVE n + 1 \in S
  <2>1. CASE n + 1 <= m
    <3>1. n + 1 \in 1..Len(s) /\ n + 1 \in 1..Len(t) /\ n + 1 \in 1..m
          /\ (n + 1) - 1 = n /\ k[n] = l[n]
      BY <1>2, <1>4, <2>1
    <3>2. k[n + 1] = IF n + 1 \in at THEN Append(k[n], s[n + 1]) ELSE k[n]
      BY <1>1, <3>1 DEF Keeps
    <3>3. l[n + 1] = IF n + 1 \in bt THEN Append(l[n], t[n + 1]) ELSE l[n]
      BY <1>1, <3>1 DEF Keeps
    <3>4. QED
      BY <1>2, <3>1, <3>2, <3>3
  <2>2. QED
    BY <2>1
<1> HIDE DEF S
<1>5. Nat \subseteq S
  BY <1>3, <1>4, SetInduction
<1>6. QED
  BY <1>2, <1>5 DEF S, k, l

(* A selection has elements of the sequence. *)
LEMMA SelectedType ==
    ASSUME NEW V, NEW s \in Seq(V), NEW at, at \subseteq 1..Len(s)
    PROVE  Selected(s, at) \in Seq(V)
<1>1. Kept(s, at) \in [Nat -> Seq(V)]
  BY KeptSteps, Zenon
<1>2. Kept(s, at)[Len(s)] \in Seq(V)
  BY <1>1
<1>3. QED
  BY <1>2, SelectedIsKept

(* Of nothing, nothing is selected. *)
LEMMA SelectedNone == Selected(<< >>, {}) = << >>
<1>1. << >> \in Seq({}) /\ {} \subseteq 1..Len(<< >>) /\ Len(<< >>) = 0
  OBVIOUS
<1>2. Keeps(Kept(<< >>, {}), << >>, {})
  BY <1>1, KeptSteps, Zenon
<1>3. Kept(<< >>, {})[0] = << >>
  BY <1>2 DEF Keeps
<1>4. QED
  BY <1>1, <1>3, SelectedIsKept

\* One element more is kept behind the others, or not at all.
SelectedNext(s, x, at, bt) ==
    Selected(Append(s, x), bt) = IF Len(s) + 1 \in bt
                                 THEN Append(Selected(s, at), x)
                                 ELSE Selected(s, at)

(* This is so when the two sets have the same positions of the others. *)
LEMMA SelectedAppend ==
    ASSUME NEW V, NEW s \in Seq(V), NEW x \in V,
           NEW at, at \subseteq 1..Len(s), NEW bt, bt \subseteq 1..(Len(s) + 1),
           \A i \in 1..Len(s) : i \in at <=> i \in bt
    PROVE  SelectedNext(s, x, at, bt)
<1> DEFINE t == Append(s, x)
           n == Len(s)
<1>1. /\ t \in Seq(V) /\ Len(t) = n + 1 /\ n \in Nat /\ t[n + 1] = x
      /\ \A i \in 1..n : t[i] = s[i]
      /\ bt \subseteq 1..Len(t)
  OBVIOUS
<1> HIDE DEF t
<1>2. Kept(t, bt)[n + 1] = IF n + 1 \in bt THEN Append(Kept(t, bt)[n], x)
                           ELSE Kept(t, bt)[n]
  <2>1. n + 1 \in 1..Len(t) /\ (n + 1) - 1 = n
    BY <1>1
  <2>2. Keeps(Kept(t, bt), t, bt)
    BY <1>1, KeptSteps, Zenon
  <2>3. QED
    BY <1>1, <2>1, <2>2 DEF Keeps
<1>3. Kept(t, bt)[n] = Kept(s, at)[n]
  <2>1. SameUpTo(V, t, bt, s, at, n)
    BY <1>1 DEF SameUpTo
  <2>2. QED
    BY <2>1, KeptAgree
<1>4. Selected(t, bt) = Kept(t, bt)[n + 1] /\ Selected(s, at) = Kept(s, at)[n]
  BY <1>1, SelectedIsKept
<1>5. QED
  BY <1>2, <1>3, <1>4 DEF t, SelectedNext

(* Keeping the first elements gives the beginning of a sequence. *)
LEMMA SelectedFirst ==
    ASSUME NEW V, NEW s \in Seq(V), NEW m \in 0..Len(s)
    PROVE  Selected(s, 1..m) = SubSeq(s, 1, m)
<1> DEFINE k == Kept(s, 1..m)
           S == {n \in Nat : n <= Len(s) =>
                     k[n] = SubSeq(s, 1, IF n <= m THEN n ELSE m)}
<1>1. Keeps(k, s, 1..m)
  <2>1. 1..m \subseteq 1..Len(s)
    OBVIOUS
  <2>2. QED
    BY <2>1, KeptSteps
<1> HIDE DEF k
<1>2. 0 \in S
  <2>1. k[0] = << >> /\ SubSeq(s, 1, 0) = << >> /\ 0 <= m
    BY <1>1 DEF Keeps
  <2>2. QED
    BY <2>1, Zenon
<1>3. ASSUME NEW n \in Nat, n \in S, n + 1 <= Len(s)
      PROVE  k[n + 1] = SubSeq(s, 1, IF n + 1 <= m THEN n + 1 ELSE m)
  <2>1. n + 1 \in 1..Len(s) /\ (n + 1) - 1 = n
    BY <1>3
  <2>2. k[n + 1] = IF n + 1 \in 1..m THEN Append(k[n], s[n + 1]) ELSE k[n]
    BY <1>1, <2>1 DEF Keeps
  <2>3. CASE n + 1 <= m
    <3>1. k[n] = SubSeq(s, 1, n) /\ n + 1 \in 1..m
      BY <1>3, <2>3
    <3>2. Append(SubSeq(s, 1, n), s[n + 1]) = SubSeq(s, 1, n + 1)
      BY <2>1
    <3>3. QED
      BY <2>2, <2>3, <3>1, <3>2
  <2>4. CASE n + 1 > m
    <3>1. SubSeq(s, 1, IF n <= m THEN n ELSE m) = SubSeq(s, 1, m)
      BY <2>4
    <3>2. k[n] = SubSeq(s, 1, m) /\ ~ (n + 1 \in 1..m) /\ ~ (n + 1 <= m)
      BY <1>3, <2>4, <3>1
    <3>3. QED
      BY <2>2, <3>2
  <2>5. QED
    BY <2>3, <2>4
<1>4. ASSUME NEW n \in Nat, n \in S PROVE n + 1 \in S
  BY <1>3, <1>4
<1> HIDE DEF S
<1>5. Nat \subseteq S
  BY <1>2, <1>4, SetInduction
<1>6. k[Len(s)] = SubSeq(s, 1, IF Len(s) <= m THEN Len(s) ELSE m)
  BY <1>5 DEF S
<1>7. (IF Len(s) <= m THEN Len(s) ELSE m) = m
  OBVIOUS
<1>8. QED
  BY <1>6, <1>7, SelectedIsKept DEF k

\* The positions in a set of positions up to n, in their order.
Positions(at, n) == Selected([i \in 1..n |-> i], at)

\* a are the positions in at up to m, in their order.
Enumerates(a, at, m) ==
    /\ a \in Seq(Nat)
    /\ \A i \in 1..Len(a) : a[i] \in at /\ a[i] <= m
    /\ \A p \in at : p <= m => \E i \in 1..Len(a) : a[i] = p
    /\ \A i, j \in 1..Len(a) : i < j => a[i] < a[j]

\* b has the elements of s at the positions a.
At(a, b, s) ==
    /\ Len(b) = Len(a)
    /\ \A i \in 1..Len(a) : b[i] = s[a[i]]

(* The next position is the greatest. *)
LEMMA EnumeratesNext ==
    ASSUME NEW at, NEW m \in Nat, NEW a, Enumerates(a, at, m),
           NEW V, NEW s \in Seq(V), NEW b \in Seq(V), At(a, b, s),
           m + 1 \in 1..Len(s), at \subseteq 1..Len(s)
    PROVE  /\ m + 1 \in at => /\ Enumerates(Append(a, m + 1), at, m + 1)
                              /\ At(Append(a, m + 1), Append(b, s[m + 1]), s)
           /\ m + 1 \notin at => Enumerates(a, at, m + 1)
<1>1. /\ a \in Seq(Nat) /\ Len(a) \in Nat
      /\ \A i \in 1..Len(a) : a[i] \in at /\ a[i] <= m /\ a[i] \in Nat
      /\ \A p \in at : p <= m => \E i \in 1..Len(a) : a[i] = p
      /\ \A i, j \in 1..Len(a) : i < j => a[i] < a[j]
  BY DEF Enumerates
<1>2. \A p \in at : p \in Nat
  OBVIOUS
<1>3. ASSUME m + 1 \notin at
      PROVE  Enumerates(a, at, m + 1)
  <2>1. \A i \in 1..Len(a) : a[i] \in at /\ a[i] <= m + 1
    BY <1>1
  <2>2. ASSUME NEW p \in at, p <= m + 1
        PROVE  \E i \in 1..Len(a) : a[i] = p
    <3>1. p <= m
      BY <1>2, <1>3, <2>2
    <3>2. QED
      BY <1>1, <3>1
  <2>3. QED
    BY <1>1, <2>1, <2>2 DEF Enumerates
<1>4. ASSUME m + 1 \in at
      PROVE  /\ Enumerates(Append(a, m + 1), at, m + 1)
             /\ At(Append(a, m + 1), Append(b, s[m + 1]), s)
  <2> DEFINE c == Append(a, m + 1)
             d == Append(b, s[m + 1])
  <2>1. /\ c \in Seq(Nat) /\ Len(c) = Len(a) + 1 /\ c[Len(a) + 1] = m + 1
        /\ \A i \in 1..Len(a) : c[i] = a[i]
    BY <1>1
  <2>2. /\ Len(b) = Len(a) /\ \A i \in 1..Len(a) : b[i] = s[a[i]]
    BY DEF At
  <2>3. /\ Len(d) = Len(a) + 1 /\ d[Len(a) + 1] = s[m + 1]
        /\ \A i \in 1..Len(a) : d[i] = b[i]
    BY <2>2
  <2> HIDE DEF c, d
  <2>4. \A i \in 1..Len(c) : i \in 1..Len(a) \/ i = Len(a) + 1
    <3>1. Len(c) = Len(a) + 1 /\ Len(a) \in Nat
      BY <1>1, <2>1
    <3>2. QED
      BY <3>1
  <2>5. ASSUME NEW i \in 1..Len(c) PROVE c[i] \in at /\ c[i] <= m + 1
    <3>1. CASE i \in 1..Len(a)
      <4>1. c[i] = a[i] /\ a[i] \in at /\ a[i] <= m /\ a[i] \in Nat
        BY <1>1, <2>1, <3>1
      <4>2. QED
        BY <4>1
    <3>2. CASE i = Len(a) + 1
      BY <1>4, <2>1, <3>2
    <3>3. QED
      BY <2>4, <3>1, <3>2
  <2>6. ASSUME NEW p \in at, p <= m + 1
        PROVE  \E i \in 1..Len(c) : c[i] = p
    <3>1. CASE p <= m
      <4>1. PICK i \in 1..Len(a) : a[i] = p
        BY <1>1, <3>1
      <4>2. i \in 1..Len(c) /\ c[i] = p
        BY <1>1, <2>1, <4>1
      <4>3. QED
        BY <4>2
    <3>2. CASE p = m + 1
      <4>1. Len(a) + 1 \in 1..Len(c)
        BY <1>1, <2>1
      <4>2. QED
        BY <2>1, <3>2, <4>1
    <3>3. QED
      BY <1>2, <2>6, <3>1, <3>2
  <2>7. ASSUME NEW i \in 1..Len(c), NEW j \in 1..Len(c), i < j
        PROVE  c[i] < c[j]
    <3>1. i \in 1..Len(a)
      BY <1>1, <2>1, <2>7
    <3>2. CASE j \in 1..Len(a)
      BY <1>1, <2>1, <2>7, <3>1, <3>2
    <3>3. CASE j = Len(a) + 1
      <4>1. a[i] <= m /\ a[i] \in Nat /\ c[i] = a[i] /\ c[j] = m + 1
        BY <1>1, <2>1, <3>1, <3>3
      <4>2. QED
        BY <4>1
    <3>4. QED
      BY <2>4, <3>2, <3>3
  <2>8. At(c, d, s)
    BY <2>1, <2>2, <2>3, <2>4 DEF At
  <2>9. Enumerates(c, at, m + 1)
    BY <2>1, <2>5, <2>6, <2>7 DEF Enumerates
  <2>10. QED
    BY <2>8, <2>9 DEF c, d
<1>5. QED
  BY <1>3, <1>4

(* A selection has the elements at the positions, in their order. *)
LEMMA SelectedPositions ==
    ASSUME NEW V, NEW s \in Seq(V), NEW at, at \subseteq 1..Len(s)
    PROVE  /\ Enumerates(Positions(at, Len(s)), at, Len(s))
           /\ At(Positions(at, Len(s)), Selected(s, at), s)
<1> DEFINE id == [i \in 1..Len(s) |-> i]
           k == Kept(id, at)
           l == Kept(s, at)
           S == {m \in Nat : m <= Len(s) =>
                    Enumerates(k[m], at, m) /\ At(k[m], l[m], s)}
<1>1. id \in Seq(Nat) /\ Len(id) = Len(s) /\ \A i \in 1..Len(s) : id[i] = i
  OBVIOUS
<1> HIDE DEF id
<1>2. Keeps(k, id, at)
  BY <1>1, KeptSteps
<1>3. Keeps(l, s, at) /\ l \in [Nat -> Seq(V)]
  <2>1. Keeps(Kept(s, at), s, at)
    BY KeptSteps
  <2>2. Kept(s, at) \in [Nat -> Seq(V)]
    BY KeptSteps, Zenon
  <2>3. QED
    BY <2>1, <2>2
<1>4. Positions(at, Len(s)) = k[Len(s)] /\ Selected(s, at) = l[Len(s)]
  BY <1>1, SelectedIsKept DEF Positions, id
<1> HIDE DEF k, l
<1>5. 0 \in S
  <2>1. k[0] = << >> /\ l[0] = << >>
    BY <1>2, <1>3 DEF Keeps
  <2>2. Enumerates(<< >>, at, 0) /\ At(<< >>, << >>, s)
    BY DEF Enumerates, At
  <2>3. QED
    BY <2>1, <2>2
<1>6. ASSUME NEW m \in Nat, m \in S PROVE m + 1 \in S
  <2> SUFFICES ASSUME m + 1 <= Len(s)
               PROVE  /\ Enumerates(k[m + 1], at, m + 1)
                      /\ At(k[m + 1], l[m + 1], s)
    OBVIOUS
  <2>1. /\ m + 1 \in 1..Len(s) /\ (m + 1) - 1 = m /\ id[m + 1] = m + 1
        /\ Enumerates(k[m], at, m) /\ At(k[m], l[m], s) /\ l[m] \in Seq(V)
    <3>1. m + 1 \in 1..Len(s) /\ (m + 1) - 1 = m /\ m <= Len(s)
      OBVIOUS
    <3>2. id[m + 1] = m + 1
      BY <1>1, <3>1
    <3>3. Enumerates(k[m], at, m) /\ At(k[m], l[m], s)
      BY <1>6, <3>1
    <3>4. l[m] \in Seq(V)
      BY <1>3
    <3>5. QED
      BY <3>1, <3>2, <3>3, <3>4
  <2>2. k[m + 1] = IF m + 1 \in at THEN Append(k[m], m + 1) ELSE k[m]
    BY <1>1, <1>2, <2>1 DEF Keeps
  <2>3. l[m + 1] = IF m + 1 \in at THEN Append(l[m], s[m + 1]) ELSE l[m]
    BY <1>3, <2>1 DEF Keeps
  <2> DEFINE a == k[m]
             b == l[m]
  <2>4. Enumerates(a, at, m) /\ At(a, b, s) /\ b \in Seq(V)
    BY <2>1
  <2>5. /\ k[m + 1] = IF m + 1 \in at THEN Append(a, m + 1) ELSE a
        /\ l[m + 1] = IF m + 1 \in at THEN Append(b, s[m + 1]) ELSE b
    BY <2>2, <2>3
  <2> HIDE DEF a, b
  <2>6. /\ m + 1 \in at => /\ Enumerates(Append(a, m + 1), at, m + 1)
                           /\ At(Append(a, m + 1), Append(b, s[m + 1]), s)
        /\ m + 1 \notin at => Enumerates(a, at, m + 1)
    BY <2>1, <2>4, EnumeratesNext
  <2>7. QED
    BY <2>4, <2>5, <2>6
<1> HIDE DEF S
<1>7. Nat \subseteq S
  BY <1>5, <1>6, SetInduction
<1>8. Enumerates(k[Len(s)], at, Len(s)) /\ At(k[Len(s)], l[Len(s)], s)
  BY <1>7 DEF S
<1>9. QED
  BY <1>4, <1>8

\* b starts as a does.
StartsAs(a, b) == Len(a) <= Len(b) /\ \A i \in 1..Len(a) : a[i] = b[i]

(* Up to any n, two lists of the same positions are the same. *)
LEMMA EnumeratesAlike ==
    ASSUME NEW at, NEW m \in Nat, NEW a, NEW b,
           Enumerates(a, at, m), Enumerates(b, at, m)
    PROVE  StartsAs(a, b)
<1> DEFINE S == {n \in Nat : n <= Len(a) =>
                    n <= Len(b) /\ \A i \in 1..n : a[i] = b[i]}
<1>1. /\ a \in Seq(Nat) /\ Len(a) \in Nat
      /\ \A i \in 1..Len(a) : a[i] \in at /\ a[i] <= m /\ a[i] \in Nat
      /\ \A p \in at : p <= m => \E i \in 1..Len(a) : a[i] = p
      /\ \A i, j \in 1..Len(a) : i < j => a[i] < a[j]
  BY DEF Enumerates
<1>2. /\ b \in Seq(Nat) /\ Len(b) \in Nat
      /\ \A i \in 1..Len(b) : b[i] \in at /\ b[i] <= m /\ b[i] \in Nat
      /\ \A p \in at : p <= m => \E i \in 1..Len(b) : b[i] = p
      /\ \A i, j \in 1..Len(b) : i < j => b[i] < b[j]
  BY DEF Enumerates
<1>3. 0 \in S
  BY <1>2
<1>4. ASSUME NEW n \in Nat, n \in S, n + 1 <= Len(a)
      PROVE  n + 1 <= Len(b) /\ a[n + 1] = b[n + 1]
  <2>1. n <= Len(b) /\ \A i \in 1..n : a[i] = b[i]
    BY <1>1, <1>4
  <2>2. PICK j \in 1..Len(b) : b[j] = a[n + 1]
    <3>1. n + 1 \in 1..Len(a)
      BY <1>1, <1>4
    <3>2. a[n + 1] \in at /\ a[n + 1] <= m
      BY <1>1, <3>1
    <3>3. QED
      BY <1>2, <3>2
  <2>3. j > n
    <3>1. ASSUME j <= n PROVE FALSE
      <4>1. j \in 1..n /\ j \in 1..Len(a) /\ n + 1 \in 1..Len(a) /\ j < n + 1
        BY <1>1, <1>4, <2>2, <3>1
      <4>2. a[j] < a[n + 1] /\ a[j] = b[j] /\ a[j] \in Nat /\ a[n + 1] \in Nat
        BY <1>1, <2>1, <4>1
      <4>3. QED
        BY <2>2, <4>2
    <3>2. QED
      BY <1>2, <2>2, <3>1
  <2>4. n + 1 \in 1..Len(b)
    BY <1>2, <2>2, <2>3
  <2>5. PICK l \in 1..Len(a) : a[l] = b[n + 1]
    BY <1>1, <1>2, <2>4
  <2>6. l > n
    <3>1. ASSUME l <= n PROVE FALSE
      <4>1. l \in 1..n /\ l \in 1..Len(b) /\ l < n + 1
        BY <1>2, <2>1, <2>5, <3>1
      <4>2. b[l] < b[n + 1] /\ a[l] = b[l] /\ b[l] \in Nat /\ b[n + 1] \in Nat
        BY <1>2, <2>1, <2>4, <4>1
      <4>3. QED
        BY <2>5, <4>2
    <3>2. QED
      BY <1>1, <2>5, <3>1
  <2>7. n + 1 \in 1..Len(a) /\ a[n + 1] \in Nat /\ b[n + 1] \in Nat
    <3>1. Len(a) \in Nat
      BY <1>1
    <3>2. n + 1 \in 1..Len(a)
      BY <1>4, <3>1
    <3>3. a[n + 1] \in Nat
      BY <1>1, <3>2
    <3>4. b[n + 1] \in Nat
      BY <1>2, <2>4
    <3>5. QED
      BY <3>2, <3>3, <3>4
  <2>8. b[n + 1] <= a[n + 1]
    BY <1>2, <2>2, <2>3, <2>4, <2>7
  <2>9. a[n + 1] <= b[n + 1]
    BY <1>1, <2>5, <2>6, <2>7
  <2>10. QED
    BY <2>4, <2>7, <2>8, <2>9
<1>5. ASSUME NEW n \in Nat, n \in S PROVE n + 1 \in S
  <2>1. SUFFICES ASSUME n + 1 <= Len(a)
                 PROVE  n + 1 <= Len(b) /\ \A i \in 1..(n + 1) : a[i] = b[i]
    OBVIOUS
  <2>2. \A i \in 1..n : a[i] = b[i]
    BY <1>1, <1>5, <2>1
  <2>3. n + 1 <= Len(b) /\ a[n + 1] = b[n + 1]
    BY <1>4, <1>5, <2>1
  <2>4. QED
    BY <2>2, <2>3
<1> HIDE DEF S
<1>6. Nat \subseteq S
  BY <1>3, <1>5, SetInduction
<1>7. Len(a) \in S
  BY <1>1, <1>6
<1>8. QED
  BY <1>1, <1>7 DEF S, StartsAs

(* There is one list of the positions in a set. *)
LEMMA EnumeratesOnce ==
    ASSUME NEW at, NEW m \in Nat, NEW a, NEW b,
           Enumerates(a, at, m), Enumerates(b, at, m)
    PROVE  a = b
<1>1. a \in Seq(Nat) /\ b \in Seq(Nat) /\ Len(a) \in Nat /\ Len(b) \in Nat
  BY DEF Enumerates
<1>2. StartsAs(a, b) /\ StartsAs(b, a)
  BY EnumeratesAlike
<1>3. Len(a) = Len(b) /\ \A i \in 1..Len(a) : a[i] = b[i]
  BY <1>1, <1>2 DEF StartsAs
<1>4. a = [i \in 1..Len(a) |-> a[i]] /\ b = [i \in 1..Len(b) |-> b[i]]
  BY <1>1
<1>5. QED
  BY <1>3, <1>4

(* What is at one of the positions is selected. *)
LEMMA SelectedHas ==
    ASSUME NEW V, NEW s \in Seq(V), NEW at, at \subseteq 1..Len(s), NEW p \in at
    PROVE  \E i \in DOMAIN Selected(s, at) : Selected(s, at)[i] = s[p]
<1> DEFINE a == Positions(at, Len(s))
           b == Selected(s, at)
<1>1. Enumerates(a, at, Len(s)) /\ At(a, b, s) /\ b \in Seq(V)
  BY SelectedPositions, SelectedType
<1> HIDE DEF a, b
<1>2. PICK i \in 1..Len(a) : a[i] = p
  BY <1>1 DEF Enumerates
<1>3. i \in DOMAIN b /\ b[i] = s[p]
  BY <1>1, <1>2 DEF At
<1>4. QED
  BY <1>3 DEF b

-----------------------------------------------------------------------------
(* The walk of the bins.                                                   *)

(* The position of a slot in its block. *)
LEMMA DivMod ==
    ASSUME NEW a \in Nat, NEW b \in Nat \ {0}
    PROVE  /\ a \div b \in Nat /\ a % b \in 0..(b - 1)
           /\ a = b * (a \div b) + (a % b)
OBVIOUS

(* A position in front of the end of l blocks is in one of them. *)
LEMMA DivBelow ==
    ASSUME NEW k \in Nat, NEW b \in Nat \ {0}, NEW l \in Nat, k < b * l
    PROVE  k \div b < l
<1> DEFINE q == k \div b
<1>1. q \in Nat /\ b * q <= k
  BY DivMod
<1> HIDE DEF q
<1>2. q < l
  BY <1>1
<1>3. QED
  BY <1>2 DEF q

(* A position in the last of l blocks. *)
LEMMA DivLast ==
    ASSUME NEW k \in Nat, NEW b \in Nat \ {0}, NEW l \in Nat \ {0},
           b * (l - 1) <= k, k < b * l
    PROVE  k \div b = l - 1 /\ k % b = k - b * (l - 1)
<1> DEFINE q == l - 1
           r == k - b * (l - 1)
<1>1. q \in Nat /\ r \in 0..(b - 1) /\ k = b * q + r
  OBVIOUS
<1> HIDE DEF q, r
<1>2. (b * q + r) \div b = q /\ (b * q + r) % b = r
  BY <1>1
<1>3. QED
  BY <1>1, <1>2 DEF q, r

\* The cell of the k-th slot of the blocks of a chain, and of the first m.
SlotAt(chain, k) ==
    chain[((k - 1) \div BinsPerBlock) + 1] + ((k - 1) % BinsPerBlock) * BinSize
SlotsOf(chain, m) == [k \in 1..m |-> SlotAt(chain, k)]

\* The blocks of the bins, each named by the overflow word of the one before.
Chained(cells, chain) ==
    /\ chain \in Seq(Nat) /\ Len(chain) # 0
    /\ chain[1] = FirstBin
    /\ \A n \in 1..Len(chain) :
           /\ n <= chain[n] /\ chain[n] <= chain[Len(chain)]
           /\ chain[n] + BlockSize - 1 \in DOMAIN cells
    /\ \A n \in 1..(Len(chain) - 1) :
           cells[chain[n] + BlockSize - 1] = Ptr(chain[n + 1])

\* Their first m slots, and no other slot twice, hold entries.
Filled(cells, chain, m) ==
    /\ m \in Nat
    /\ BinsPerBlock * (Len(chain) - 1) <= m /\ m <= BinsPerBlock * Len(chain)
    /\ \A k \in 1..m : /\ SlotAt(chain, k) \in DOMAIN cells
                       /\ cells[SlotAt(chain, k)].tag = "entry"
    /\ \A i, j \in 1..m : SlotAt(chain, i) = SlotAt(chain, j) => i = j

\* Each slot of the hash table leads to the first entry of its hash.
HashAt(cells, chain, k) == TableHash[cells[SlotAt(chain, k)].path]
FirstOf(h, k, cells, chain) ==
    /\ HashAt(cells, chain, k) = h
    /\ \A j \in 1..(k - 1) : HashAt(cells, chain, j) # h
Hashed(hash, cells, chain, m) ==
    \A h \in 0..MaxHash-1 :
        \/ hash[h] = 0 /\ \A k \in 1..m : HashAt(cells, chain, k) # h
        \/ \E k \in 1..m : hash[h] = SlotAt(chain, k) /\ FirstOf(h, k, cells, chain)

\* The counters of the header say where the walk ends.
EndsAt(hdr, chain) ==
    /\ hdr["binsRemain"] = BinsPerBlock * Len(chain) - hdr["totalBins"]
    /\ hdr["nextBin"] = chain[Len(chain)]
         + (hdr["totalBins"] - BinsPerBlock * (Len(chain) - 1)) * BinSize

Walked(f, chain) ==
    /\ Chained(f.cells, chain)
    /\ Filled(f.cells, chain, f.hdr["totalBins"])
    /\ EndsAt(f.hdr, chain)
    /\ Hashed(f.hash, f.cells, chain, f.hdr["totalBins"])

\* A file whose bins can be walked, as long as none was laid over a record.
Walkable(f) == Safe(f) /\ (~ f.spilled => \E chain : Walked(f, chain))

-----------------------------------------------------------------------------
(* Reading the bins.                                                       *)

(* The chain of a file begins with the first block and follows the overflow
   words. *)
LEMMA BlockChainSteps ==
    ASSUME NEW f \in Image
    PROVE  /\ BlockChain(f)[0] = FirstBin
           /\ \A n \in Nat : BlockChain(f)[n + 1] = Overflow(f, BlockChain(f)[n])
<1> DEFINE step == [n \in Nat |-> [b \in Nat |-> Overflow(f, b)]]
           Body(k) == [n \in Nat |-> IF n = 0 THEN FirstBin
                                     ELSE Overflow(f, k[n - 1])]
           first == FirstBin
<1>1. first \in Nat
  BY DEF FirstBin
<1>2. ASSUME NEW b \in Nat PROVE Overflow(f, b) \in Nat
  <2> DEFINE word == b + BlockSize - 1
  <2>1. CASE word \in DOMAIN f.cells /\ f.cells[word].tag = "ptr"
    <3>1. f.cells[word] \in Cell
      BY <2>1, ImageFields
    <3>2. f.cells[word].addr \in Nat
      BY <2>1, <3>1 DEF Cell, Zero, EofFlag, Address
    <3>3. QED
      BY <2>1, <3>2 DEF Overflow, HasTag
  <2>2. CASE ~ (word \in DOMAIN f.cells /\ f.cells[word].tag = "ptr")
    BY <2>2 DEF Overflow, HasTag
  <2>3. QED
    BY <2>1, <2>2
<1>3. step \in [Nat -> [Nat -> Nat]]
  BY <1>2
<1>4. \A n \in Nat, b \in Nat : step[n][b] = Overflow(f, b)
  OBVIOUS
<1> HIDE DEF step
<1>5. PICK g \in [Nat -> Nat] : UnfoldsAll(g, first, step)
  BY <1>1, <1>3, UnfoldsExists
<1>6. \A n \in Nat : g[n + 1] = Overflow(f, g[n])
  BY <1>4, <1>5 DEF UnfoldsAll
<1>7. ASSUME NEW n \in Nat PROVE g[n] = Body(g)[n]
  <2>1. CASE n = 0
    BY <1>5, <2>1 DEF UnfoldsAll
  <2>2. CASE n # 0
    <3>1. n - 1 \in Nat /\ (n - 1) + 1 = n
      BY <2>2
    <3>2. g[n] = Overflow(f, g[n - 1])
      BY <1>6, <3>1
    <3>3. QED
      BY <2>2, <3>2
  <2>3. QED
    BY <2>1, <2>2
<1>8. g = Body(g)
  <2>1. g = [n \in Nat |-> g[n]] /\ Body(g) = [n \in Nat |-> Body(g)[n]]
    OBVIOUS
  <2> HIDE DEF Body
  <2>2. QED
    BY <1>7, <2>1
<1> DEFINE k == BlockChain(f)
<1>9. k = CHOOSE b : b = Body(b)
  BY DEF BlockChain
<1>10. k = Body(k)
  <2> HIDE DEF Body, k
  <2>1. QED
    BY <1>8, <1>9
<1> HIDE DEF k
<1>11. k[0] = FirstBin /\ \A n \in Nat \ {0} : k[n] = Overflow(f, k[n - 1])
  BY <1>10
<1>12. \A n \in Nat : n + 1 \in Nat \ {0} /\ (n + 1) - 1 = n
  OBVIOUS
<1>13. QED
  BY <1>11, <1>12 DEF k

(* A block is its slots and the overflow word. *)
LEMMA BlockSizeType == BlockSize \in Nat \ {0} /\ BlockSize = BinsPerBlock * BinSize + 1
<1>1. BinSize \in Nat \ {0} /\ BinsPerBlock \in Nat \ {0}
  BY ImageAssumption
<1>2. BinSize * BinsPerBlock = BinsPerBlock * BinSize /\ BinSize * BinsPerBlock \in Nat
  BY <1>1
<1>3. QED
  BY <1>2 DEF BlockSize

\* The blocks of a file that leads to no further one behind the last.
Ends(f, chain) == Overflow(f, chain[Len(chain)]) = 0

(* As far as a chain goes, it is the chain the walk follows. *)
LEMMA WalkFollows ==
    ASSUME NEW f \in Image, NEW chain, Chained(f.cells, chain), Ends(f, chain)
    PROVE  /\ \A n \in 0..(Len(chain) - 1) : BlockChain(f)[n] = chain[n + 1]
           /\ Overflow(f, BlockChain(f)[Len(chain) - 1]) = 0
           /\ \A n \in 0..(Len(chain) - 2) : Overflow(f, BlockChain(f)[n]) # 0
           /\ Len(chain) - 1 \in 0..Len(f.cells)
<1> DEFINE block == BlockChain(f)
           l == Len(chain)
           S == {n \in Nat : n < l => block[n] = chain[n + 1]}
<1>1. /\ l \in Nat \ {0} /\ chain \in Seq(Nat) /\ chain[1] = FirstBin
      /\ \A n \in 1..l : /\ n <= chain[n] /\ chain[n] \in Nat
                         /\ chain[n] + BlockSize - 1 \in DOMAIN f.cells
      /\ \A n \in 1..(l - 1) : f.cells[chain[n] + BlockSize - 1] = Ptr(chain[n + 1])
  BY DEF Chained
<1>2. block[0] = FirstBin /\ \A n \in Nat : block[n + 1] = Overflow(f, block[n])
  BY BlockChainSteps
<1> HIDE DEF block, l
<1>3. ASSUME NEW n \in 1..(l - 1) PROVE Overflow(f, chain[n]) = chain[n + 1]
  <2>1. n \in 1..l
    BY <1>1
  <2>2. /\ chain[n] + BlockSize - 1 \in DOMAIN f.cells
        /\ f.cells[chain[n] + BlockSize - 1] = Ptr(chain[n + 1])
    BY <1>1, <2>1
  <2>3. QED
    BY <2>2 DEF Overflow, HasTag, Ptr
<1>4. 0 \in S
  <2>1. block[0] = chain[0 + 1]
    BY <1>1, <1>2
  <2>2. QED
    BY <2>1
<1>5. ASSUME NEW n \in Nat, n \in S PROVE n + 1 \in S
  <2> SUFFICES ASSUME n + 1 < l PROVE block[n + 1] = chain[n + 1 + 1]
    OBVIOUS
  <2>1. n + 1 \in 1..(l - 1) /\ n < l
    BY <1>1
  <2>2. block[n] = chain[n + 1]
    BY <1>5, <2>1
  <2>3. block[n + 1] = Overflow(f, block[n])
    BY <1>2
  <2>4. Overflow(f, chain[n + 1]) = chain[n + 1 + 1]
    BY <1>3, <2>1
  <2>5. QED
    BY <2>2, <2>3, <2>4
<1> HIDE DEF S
<1>6. Nat \subseteq S
  BY <1>4, <1>5, SetInduction
<1>7. ASSUME NEW n \in 0..(l - 1) PROVE block[n] = chain[n + 1]
  <2>1. n \in Nat /\ n < l
    BY <1>1
  <2>2. n \in S
    BY <1>6, <2>1
  <2>3. QED
    BY <2>1, <2>2 DEF S
<1>8. Overflow(f, block[l - 1]) = 0
  <2>1. l - 1 \in 0..(l - 1) /\ (l - 1) + 1 = l
    BY <1>1
  <2>2. block[l - 1] = chain[l]
    BY <1>7, <2>1
  <2>3. QED
    BY <2>2 DEF Ends, l
<1>9. ASSUME NEW n \in 0..(l - 2) PROVE Overflow(f, block[n]) # 0
  <2>1. n + 1 \in 1..(l - 1) /\ n + 2 \in 1..l /\ n \in 0..(l - 1)
    BY <1>1
  <2>2. block[n] = chain[n + 1] /\ Overflow(f, chain[n + 1]) = chain[n + 1 + 1]
    BY <1>3, <1>7, <2>1
  <2>3. n + 2 <= chain[n + 2] /\ chain[n + 2] \in Nat /\ n + 1 + 1 = n + 2
    BY <1>1, <2>1
  <2>4. QED
    BY <2>2, <2>3
<1>10. l - 1 \in 0..Len(f.cells)
  <2>1. l \in 1..l
    BY <1>1
  <2>2. l <= chain[l] /\ chain[l] \in Nat /\ chain[l] + BlockSize - 1 \in DOMAIN f.cells
    BY <1>1, <2>1
  <2>3. BlockSize \in Nat \ {0} /\ Len(f.cells) \in Nat
        /\ DOMAIN f.cells = 1..Len(f.cells)
    BY ImageFields, BlockSizeType
  <2>4. chain[l] + BlockSize - 1 <= Len(f.cells)
    BY <2>2, <2>3
  <2>5. l \in Nat \ {0}
    BY <1>1
  <2> DEFINE last == chain[l]
             b == BlockSize
             c == Len(f.cells)
  <2>6. last \in Nat /\ b \in Nat \ {0} /\ c \in Nat /\ l <= last /\ last + b - 1 <= c
    BY <2>2, <2>3, <2>4
  <2> HIDE DEF last, b, c
  <2>7. l <= c /\ l - 1 \in 0..c
    BY <2>5, <2>6
  <2>8. QED
    BY <2>7 DEF c
<1>11. QED
  BY <1>7, <1>8, <1>9, <1>10 DEF block, l

(* A slot of the blocks is a cell; one of the last block lies behind its
   beginning. *)
LEMMA SlotAtType ==
    ASSUME NEW chain \in Seq(Nat), NEW k \in Nat \ {0},
           k <= BinsPerBlock * Len(chain)
    PROVE  /\ (k - 1) \div BinsPerBlock \in 0..(Len(chain) - 1)
           /\ SlotAt(chain, k) \in Nat
<1> DEFINE d == (k - 1) \div BinsPerBlock
           r == (k - 1) % BinsPerBlock
           l == Len(chain)
<1>1. k - 1 \in Nat /\ BinsPerBlock \in Nat \ {0} /\ l \in Nat
      /\ k - 1 < BinsPerBlock * l
  BY ImageAssumption
<1>2. d \in Nat /\ r \in Nat /\ d < l
  <2> DEFINE j == k - 1
             b == BinsPerBlock
  <2>1. j \in Nat /\ b \in Nat \ {0} /\ l \in Nat /\ j < b * l
    BY <1>1
  <2> HIDE DEF j, b, l
  <2>2. j \div b \in Nat /\ j % b \in 0..(b - 1) /\ j \div b < l
    BY <2>1, DivMod, DivBelow
  <2>3. j % b \in Nat
    BY <2>1, <2>2
  <2>4. QED
    BY <2>2, <2>3 DEF j, b
<1> HIDE DEF d, r
<1>3. r * BinSize \in Nat
  BY <1>2, ImageAssumption
<1>4. d \in 0..(l - 1) /\ chain[d + 1] \in Nat
  BY <1>1, <1>2
<1>5. SlotAt(chain, k) = chain[d + 1] + r * BinSize
  BY DEF SlotAt, d, r
<1>6. QED
  BY <1>3, <1>4, <1>5 DEF d, l

(* The place of a slot in its block. *)
LEMMA SlotInBlock ==
    ASSUME NEW chain, NEW l \in Nat \ {0}, NEW k \in Nat \ {0},
           BinsPerBlock * (l - 1) < k, k <= BinsPerBlock * l
    PROVE  SlotAt(chain, k) = chain[l] + (k - 1 - BinsPerBlock * (l - 1)) * BinSize
<1> DEFINE b == BinsPerBlock
<1>1. b \in Nat \ {0} /\ k - 1 \in Nat
  BY ImageAssumption
<1>2. b * (l - 1) \in Nat /\ b * l \in Nat
  BY <1>1
<1>3. b * (l - 1) <= k - 1 /\ k - 1 < b * l
  BY <1>2
<1> HIDE DEF b
<1>4. (k - 1) \div b = l - 1 /\ (k - 1) % b = k - 1 - b * (l - 1)
  BY <1>1, <1>3, DivLast
<1>5. (l - 1) + 1 = l
  OBVIOUS
<1>6. SlotAt(chain, k) = chain[(k - 1) \div b + 1] + ((k - 1) % b) * BinSize
  BY DEF SlotAt, b
<1>7. QED
  BY <1>4, <1>5, <1>6 DEF b

\* What a file that can be walked has behind its entries.
Free(f, chain) ==
    /\ Ends(f, chain)
    /\ f.hdr["nextBin"] + f.hdr["binsRemain"] * BinSize
         = chain[Len(chain)] + BlockSize - 1
    /\ \A k \in (f.hdr["totalBins"] + 1)..(BinsPerBlock * Len(chain)) :
           f.cells[SlotAt(chain, k)] = Zero
    /\ f.hdr["binsRemain"] # 0
         => f.hdr["nextBin"] = SlotAt(chain, f.hdr["totalBins"] + 1)

\* Records, bins and free slots of a file lie apart in front of size.
LaidTo(f, size) ==
    Laid(f.cells, f.hdr["nextBin"], f.hdr["binsRemain"] * BinSize, size)
LaidOut(f) == \E size : LaidTo(f, size)

(* Behind the entries there are free slots only, and no further block. *)
LEMMA WalkedFree ==
    ASSUME NEW f \in Image, LaidOut(f), NEW chain, Walked(f, chain)
    PROVE  Free(f, chain)
<1> DEFINE l == Len(chain)
           m == f.hdr["totalBins"]
           next == f.hdr["nextBin"]
           remain == f.hdr["binsRemain"]
           before == BinsPerBlock * (Len(chain) - 1)
           all == BinsPerBlock * Len(chain)
           last == chain[Len(chain)]
<1>1. /\ chain \in Seq(Nat) /\ l \in Nat \ {0} /\ last \in Nat
      /\ m \in Nat /\ remain \in Nat /\ next \in Nat
      /\ BinSize \in Nat \ {0} /\ BinsPerBlock \in Nat \ {0}
  BY ImageFields, ImageAssumption DEF Walked, Chained, HeaderWord
<1>2. /\ before \in Nat /\ all \in Nat /\ before + BinsPerBlock = all
  BY <1>1
<1>3. before <= m /\ m <= all
  BY DEF Walked, Filled
<1>4. remain = all - m /\ next = last + (m - before) * BinSize
  BY DEF Walked, EndsAt
<1>5. \A i \in next..(next + remain * BinSize) : f.cells[i] = Zero
  BY DEF LaidOut, LaidTo, Laid
<1> HIDE DEF l, m, next, remain, before, all, last
<1>6. next + remain * BinSize = last + BlockSize - 1
  <2> DEFINE x == m - before
  <2>1. x \in Nat /\ remain \in Nat /\ x + remain = BinsPerBlock
    BY <1>1, <1>2, <1>3, <1>4
  <2> HIDE DEF x
  <2>2. x * BinSize + remain * BinSize = BinsPerBlock * BinSize
    BY <1>1, <2>1
  <2>3. x * BinSize \in Nat /\ remain * BinSize \in Nat
    BY <1>1, <2>1
  <2>4. next = last + x * BinSize
    BY <1>4 DEF x
  <2> DEFINE a == x * BinSize
             b == remain * BinSize
             c == BinsPerBlock * BinSize
  <2>5. /\ a \in Nat /\ b \in Nat /\ a + b = c /\ next = last + a
        /\ BlockSize = c + 1
    BY <2>2, <2>3, <2>4, BlockSizeType
  <2> HIDE DEF a, b, c
  <2>6. next + b = last + BlockSize - 1
    BY <1>1, <2>5
  <2>7. QED
    BY <2>6 DEF b
<1>7. ASSUME NEW k \in (m + 1)..all
      PROVE  /\ SlotAt(chain, k) = last + (k - 1 - before) * BinSize
             /\ SlotAt(chain, k) \in next..(next + remain * BinSize)
  <2>1. k \in Nat \ {0} /\ before < k /\ k <= all
    BY <1>1, <1>2, <1>3
  <2>2. SlotAt(chain, k) = last + (k - 1 - before) * BinSize
    BY <1>1, <2>1, SlotInBlock DEF l, before, all, last
  <2> DEFINE x == m - before
             y == k - 1 - m
             z == all - k + 1
  <2>3. x \in Nat /\ y \in Nat /\ z \in Nat /\ k - 1 - before = x + y
        /\ y + z = remain
    BY <1>1, <1>2, <1>3, <1>4
  <2>4. next = last + x * BinSize
    BY <1>4
  <2> HIDE DEF x, y, z
  <2>5. (x + y) * BinSize = x * BinSize + y * BinSize
        /\ y * BinSize + z * BinSize = remain * BinSize
    BY <1>1, <2>3
  <2>6. x * BinSize \in Nat /\ y * BinSize \in Nat /\ z * BinSize \in Nat
    BY <1>1, <2>3
  <2>7. SlotAt(chain, k) = next + y * BinSize
    BY <1>1, <2>2, <2>3, <2>4, <2>5, <2>6
  <2>8. SlotAt(chain, k) \in next..(next + remain * BinSize)
    BY <1>1, <2>5, <2>6, <2>7
  <2>9. QED
    BY <2>2, <2>8
<1>8. Ends(f, chain)
  <2>1. last + BlockSize - 1 \in next..(next + remain * BinSize)
    <3>1. remain * BinSize \in Nat
      BY <1>1
    <3>2. QED
      BY <1>1, <1>6, <3>1
  <2>2. f.cells[last + BlockSize - 1] = Zero
    BY <1>5, <2>1
  <2>3. QED
    BY <2>2 DEF Ends, Overflow, HasTag, Zero, last
<1>9. ASSUME remain # 0 PROVE next = SlotAt(chain, m + 1)
  <2> DEFINE k == m + 1
             x == k - 1 - before
  <2>1. k \in (m + 1)..all /\ x = m - before
    BY <1>1, <1>2, <1>4, <1>9
  <2>2. SlotAt(chain, k) = last + x * BinSize
    BY <1>7, <2>1
  <2> HIDE DEF k, x
  <2>3. next = SlotAt(chain, k)
    BY <1>4, <2>1, <2>2
  <2>4. QED
    BY <2>3 DEF k
<1>10. \A k \in (m + 1)..all : f.cells[SlotAt(chain, k)] = Zero
  BY <1>5, <1>7
<1>11. QED
  BY <1>6, <1>8, <1>9, <1>10 DEF Free, l, m, next, remain, all, last

(* The walk looks at every slot of the chain. *)
LEMMA WalkOfChain ==
    ASSUME NEW f \in Image, NEW chain, Chained(f.cells, chain), Ends(f, chain)
    PROVE  SlotsInOrder(f) = SlotsOf(chain, BinsPerBlock * Len(chain))
<1> DEFINE l == Len(chain)
           block == BlockChain(f)
           n == Len(f.cells)
           Stops(i) == /\ Overflow(f, block[i]) = 0
                       /\ \A j \in 0..(i - 1) : Overflow(f, block[j]) # 0
           last == CHOOSE i \in 0..n : Stops(i)
<1>1. Chained(f.cells, chain) /\ Ends(f, chain) /\ chain \in Seq(Nat)
      /\ l \in Nat \ {0} /\ n \in Nat
  <2>1. f.cells \in Seq(Cell)
    BY ImageFields
  <2>2. n \in Nat
    BY <2>1
  <2>3. QED
    BY <2>2 DEF Chained
<1>2. /\ \A i \in 0..(l - 1) : block[i] = chain[i + 1]
      /\ Overflow(f, block[l - 1]) = 0
      /\ \A i \in 0..(l - 2) : Overflow(f, block[i]) # 0
      /\ l - 1 \in 0..n
  BY <1>1, WalkFollows
<1>3. SlotsInOrder(f) =
        [k \in 1..((last + 1) * BinsPerBlock) |->
            block[(k - 1) \div BinsPerBlock] + ((k - 1) % BinsPerBlock) * BinSize]
  BY DEF SlotsInOrder
<1>4. last = l - 1
  <2> HIDE DEF block, n, l
  <2>1. Stops(l - 1)
    <3>1. (l - 1) - 1 = l - 2
      BY <1>1
    <3>2. QED
      BY <1>2, <3>1
  <2>2. ASSUME NEW i \in 0..n, Stops(i) PROVE i = l - 1
    <3>1. ~ (i < l - 1)
      <4>1. i < l - 1 => i \in 0..(l - 2)
        BY <1>1
      <4>2. QED
        BY <1>2, <2>2, <4>1
    <3>2. ~ (l - 1 < i)
      <4>1. l - 1 < i => l - 1 \in 0..(i - 1)
        BY <1>1
      <4>2. QED
        BY <1>2, <2>2, <4>1
    <3>3. QED
      BY <1>1, <3>1, <3>2
  <2> HIDE DEF Stops
  <2>3. l - 1 \in 0..n
    BY <1>2
  <2>4. last \in 0..n /\ Stops(last)
    BY <2>1, <2>3, Zenon
  <2> HIDE DEF last
  <2>5. QED
    BY <2>2, <2>4
<1>5. (last + 1) * BinsPerBlock = BinsPerBlock * l
  <2> HIDE DEF last, l
  <2>1. last + 1 = l
    BY <1>1, <1>4
  <2>2. l * BinsPerBlock = BinsPerBlock * l
    BY <1>1, ImageAssumption
  <2>3. QED
    BY <2>1, <2>2
<1> DEFINE all == BinsPerBlock * l
<1>6. ASSUME NEW k \in 1..all
      PROVE  block[(k - 1) \div BinsPerBlock] + ((k - 1) % BinsPerBlock) * BinSize
               = SlotAt(chain, k)
  <2>1. k \in Nat \ {0} /\ k <= BinsPerBlock * Len(chain)
    OBVIOUS
  <2> DEFINE d == (k - 1) \div BinsPerBlock
  <2>2. d \in 0..(l - 1)
    BY <1>1, <2>1, SlotAtType
  <2> HIDE DEF d, block, l
  <2>3. block[d] = chain[d + 1]
    BY <1>2, <2>2
  <2>4. QED
    BY <2>3 DEF SlotAt, d
<1> HIDE DEF block, last
<1>7. SlotsInOrder(f) =
        [k \in 1..all |->
            block[(k - 1) \div BinsPerBlock] + ((k - 1) % BinsPerBlock) * BinSize]
  BY <1>3, <1>5
<1>8. SlotsInOrder(f) = [k \in 1..all |-> SlotAt(chain, k)]
  <2> HIDE DEF all
  <2>1. QED
    BY <1>6, <1>7
<1>9. QED
  BY <1>8 DEF SlotsOf

(* So does the walk of a file whose entries fill the chain in order. *)
LEMMA WalkVisits ==
    ASSUME NEW f \in Image, LaidOut(f), NEW chain, Walked(f, chain)
    PROVE  SlotsInOrder(f) = SlotsOf(chain, BinsPerBlock * Len(chain))
<1>1. Free(f, chain)
  BY WalkedFree
<1>2. QED
  BY <1>1, WalkOfChain DEF Walked, Free

(* It finds the entries, in the order in which they took their slots. *)
LEMMA WalkFinds ==
    ASSUME NEW f \in Image, LaidOut(f), NEW chain, Walked(f, chain)
    PROVE  /\ ReadAllBins(f) = SlotsOf(chain, f.hdr["totalBins"])
           /\ SlotsOf(chain, f.hdr["totalBins"]) \in Seq(Nat)
           /\ f.hdr["totalBins"] \in Nat
<1> DEFINE m == f.hdr["totalBins"]
           all == BinsPerBlock * Len(chain)
           slots == SlotsOf(chain, all)
           at == {k \in DOMAIN slots : HasTag(f, slots[k], "entry")}
<1>1. SlotsInOrder(f) = slots
  BY WalkVisits
<1>2. ReadAllBins(f) = Selected(slots, at)
  BY <1>1 DEF ReadAllBins
<1>3. /\ chain \in Seq(Nat) /\ Len(chain) \in Nat /\ all \in Nat /\ m \in Nat
      /\ m <= all
      /\ \A k \in 1..m : HasTag(f, SlotAt(chain, k), "entry")
  <2>1. chain \in Seq(Nat)
    BY DEF Walked, Chained
  <2>2. /\ m \in Nat /\ m <= all
        /\ \A k \in 1..m : HasTag(f, SlotAt(chain, k), "entry")
    BY DEF Walked, Filled, HasTag
  <2>3. Len(chain) \in Nat /\ all \in Nat
    BY <2>1, ImageAssumption
  <2>4. QED
    BY <2>1, <2>2, <2>3
<1>4. \A k \in (m + 1)..all : ~ HasTag(f, SlotAt(chain, k), "entry")
  BY WalkedFree DEF Free, HasTag, Zero
<1>5. \A k \in 1..all : SlotAt(chain, k) \in Nat
  <2>1. \A k \in 1..all : k \in Nat \ {0} /\ k <= BinsPerBlock * Len(chain)
    BY <1>3
  <2>2. QED
    BY <1>3, <2>1, SlotAtType
<1> HIDE DEF all, m
<1>6. slots \in Seq(Nat) /\ Len(slots) = all
      /\ \A k \in 1..all : slots[k] = SlotAt(chain, k)
  BY <1>3, <1>5 DEF SlotsOf
<1>7. at = 1..m
  <2>1. DOMAIN slots = 1..all
    BY <1>3 DEF SlotsOf
  <2>2. \A k \in 1..all : k \in at <=> HasTag(f, SlotAt(chain, k), "entry")
    BY <1>6, <2>1
  <2>3. \A k \in 1..m : k \in 1..all
    BY <1>3
  <2>4. \A k \in 1..all : k \in 1..m \/ k \in (m + 1)..all
    BY <1>3
  <2>5. at \subseteq 1..all
    BY <2>1
  <2> HIDE DEF at
  <2>6. QED
    BY <1>3, <1>4, <2>2, <2>3, <2>4, <2>5
<1> HIDE DEF slots, at
<1>8. Selected(slots, 1..m) = SubSeq(slots, 1, m)
  BY <1>3, <1>6, SelectedFirst
<1>9. SubSeq(slots, 1, m) = [k \in 1..m |-> slots[k]]
  BY <1>3, <1>6
<1>10. [k \in 1..m |-> slots[k]] = SlotsOf(chain, m)
  <2>1. \A k \in 1..m : slots[k] = SlotAt(chain, k)
    BY <1>3, <1>6
  <2>2. QED
    BY <2>1 DEF SlotsOf
<1>11. SlotsOf(chain, m) \in Seq(Nat)
  <2>1. \A k \in 1..m : SlotAt(chain, k) \in Nat
    BY <1>3, <1>5
  <2>2. QED
    BY <1>3, <2>1 DEF SlotsOf
<1>12. QED
  BY <1>2, <1>3, <1>7, <1>8, <1>9, <1>10, <1>11 DEF m

-----------------------------------------------------------------------------
(* What the operations make of the bins.                                   *)

\* The bins of f are still there in g, only the status of entries may differ.
KeepsBins(f, g, chain) ==
    /\ g.hash = f.hash
    /\ \A w \in {"totalBins", "binsRemain", "nextBin"} : g.hdr[w] = f.hdr[w]
    /\ \A i \in DOMAIN f.cells : f.cells[i].tag = "entry" =>
           /\ i \in DOMAIN g.cells
           /\ g.cells[i].tag = "entry" /\ g.cells[i].path = f.cells[i].path
    /\ \A n \in 1..Len(chain) :
           chain[n] + BlockSize - 1 \in DOMAIN g.cells
    /\ \A n \in 1..(Len(chain) - 1) :
           g.cells[chain[n] + BlockSize - 1] = f.cells[chain[n] + BlockSize - 1]

(* A chain stays one when its entries and overflow words stay. *)
LEMMA WalkedKept ==
    ASSUME NEW f, NEW g, NEW chain, Walked(f, chain), KeepsBins(f, g, chain)
    PROVE  Walked(g, chain)
<1> DEFINE m == f.hdr["totalBins"]
<1>1. m \in Nat
  BY DEF Walked, Filled
<1>2. \A k \in 1..m : /\ SlotAt(chain, k) \in DOMAIN g.cells
                      /\ g.cells[SlotAt(chain, k)].tag = "entry"
                      /\ HashAt(g.cells, chain, k) = HashAt(f.cells, chain, k)
  BY DEF Walked, Filled, KeepsBins, HashAt
<1>3. g.hash = f.hash /\ g.hdr["totalBins"] = m
      /\ g.hdr["binsRemain"] = f.hdr["binsRemain"]
      /\ g.hdr["nextBin"] = f.hdr["nextBin"]
  BY DEF KeepsBins
<1>4. Chained(g.cells, chain)
  BY DEF Walked, Chained, KeepsBins
<1>5. Filled(g.cells, chain, m)
  BY <1>2 DEF Walked, Filled
<1>6. EndsAt(g.hdr, chain)
  BY <1>3 DEF Walked, EndsAt
<1>7. \A h, k : k \in 1..m /\ FirstOf(h, k, f.cells, chain)
        => FirstOf(h, k, g.cells, chain)
  <2> SUFFICES ASSUME NEW h, NEW k \in 1..m, FirstOf(h, k, f.cells, chain)
               PROVE  FirstOf(h, k, g.cells, chain)
    OBVIOUS
  <2>1. \A j \in 1..(k - 1) : j \in 1..m
    BY <1>1
  <2>2. QED
    BY <1>2, <2>1 DEF FirstOf
<1>8. Hashed(g.hash, g.cells, chain, m)
  <2>1. Hashed(f.hash, f.cells, chain, m)
    BY DEF Walked
  <2> HIDE DEF m
  <2>2. QED
    BY <1>2, <1>3, <1>7, <2>1 DEF Hashed
<1>9. QED
  BY <1>3, <1>4, <1>5, <1>6, <1>8 DEF Walked

(* A new file has one block of free slots. *)
LEMMA NewFileWalked == Walked(NewFile, << FirstBin >>)
<1> DEFINE chain == << FirstBin >>
           f == NewFile
<1>1. chain \in Seq(Nat) /\ Len(chain) = 1 /\ chain[1] = 1 /\ FirstBin = 1
  BY DEF FirstBin
<1>2. /\ f.hdr["totalBins"] = 0 /\ f.hdr["binsRemain"] = BinsPerBlock
      /\ f.hdr["nextBin"] = 1
      /\ f.hash = [h \in 0..MaxHash-1 |-> 0]
      /\ DOMAIN f.cells = 1..(BlockSize + 1)
  BY DEF NewFile, HeaderWord, FirstBin
<1> HIDE DEF chain, f
<1>3. Chained(f.cells, chain)
  <2>1. \A n \in 1..Len(chain) : n = 1
    BY <1>1
  <2>2. 1 + BlockSize - 1 \in DOMAIN f.cells
    BY <1>2, BlockSizeType
  <2>3. QED
    BY <1>1, <2>1, <2>2 DEF Chained
<1>4. BinsPerBlock * (Len(chain) - 1) = 0 /\ BinsPerBlock * Len(chain) = BinsPerBlock
      /\ BinsPerBlock \in Nat
  BY <1>1, ImageAssumption
<1>5. Filled(f.cells, chain, 0)
  BY <1>4 DEF Filled
<1>6. EndsAt(f.hdr, chain)
  <2>1. 0 * BinSize = 0
    BY ImageAssumption
  <2>2. QED
    BY <1>1, <1>2, <1>4, <2>1 DEF EndsAt
<1>7. Hashed(f.hash, f.cells, chain, 0)
  BY <1>2 DEF Hashed
<1>8. QED
  BY <1>2, <1>3, <1>5, <1>6, <1>7 DEF Walked, chain, f

(* A new block takes its place behind the last, and no slot changes.  *)
LEMMA AllocateWalked ==
    ASSUME NEW f \in Image, LaidTo(f, f.hdr["fileSize"]),
           NEW chain, Walked(f, chain), f.hdr["binsRemain"] = 0
    PROVE  LET new == Append(chain, f.hdr["fileSize"])
               m   == f.hdr["totalBins"]
           IN  /\ Walked(AllocateNewBinBlock(f), new)
               /\ AllocateNewBinBlock(f).hdr["totalBins"] = m
               /\ \A k \in 1..m : SlotAt(new, k) = SlotAt(chain, k)
<1> DEFINE g == AllocateNewBinBlock(f)
           start == f.hdr["fileSize"]
           next == f.hdr["nextBin"]
           end == start + BlockSize
           m == f.hdr["totalBins"]
           l == Len(chain)
           new == Append(chain, start)
           Word(n) == chain[n] + BlockSize - 1
           b == BinsPerBlock
<1>1. /\ start \in Nat /\ next \in Nat \ {0} /\ next < start
      /\ start <= Len(f.cells) + 1 /\ f.cells \in Seq(Cell)
      /\ f.cells[next] = Zero
      /\ \A i \in DOMAIN f.cells : f.cells[i].tag = "entry" => i < start
  <2>1. f.hdr["binsRemain"] * BinSize = 0
    BY ImageAssumption
  <2>2. Laid(f.cells, next, 0, start)
    BY <2>1 DEF LaidTo
  <2>3. next \in next..(next + 0)
    BY <2>2 DEF Laid
  <2>4. QED
    BY <2>2, <2>3 DEF Laid, EntriesLead
<1>2. /\ g.hdr["totalBins"] = m /\ g.hdr["nextBin"] = start
      /\ g.hdr["binsRemain"] = b /\ g.hash = f.hash
      /\ g.cells = [i \in 1..Extent(f.cells, end) |->
                       IF i = next THEN Ptr(start)
                       ELSE IF i \in start..(end - 1) THEN Zero
                       ELSE CellAt(f.cells, i)]
  BY ImageFields DEF AllocateNewBinBlock, Header, HeaderWord
<1>3. /\ chain \in Seq(Nat) /\ l \in Nat \ {0} /\ b \in Nat \ {0}
      /\ chain[1] = FirstBin
      /\ \A n \in 1..l : /\ chain[n] \in Nat /\ n <= chain[n]
                         /\ chain[n] <= chain[l]
                         /\ Word(n) \in DOMAIN f.cells
      /\ \A n \in 1..(l - 1) : f.cells[Word(n)] = Ptr(chain[n + 1])
  BY ImageAssumption DEF Walked, Chained
<1>4. /\ m \in Nat /\ m = b * l
      /\ \A k \in 1..m : /\ SlotAt(chain, k) \in DOMAIN f.cells
                         /\ f.cells[SlotAt(chain, k)].tag = "entry"
      /\ \A i, j \in 1..m : SlotAt(chain, i) = SlotAt(chain, j) => i = j
  <2>1. 0 = b * Len(chain) - m
    BY DEF Walked, EndsAt
  <2>2. Filled(f.cells, chain, m)
    BY DEF Walked
  <2>3. b * l \in Nat
    BY <1>3
  <2>4. m \in Nat
    BY <2>2 DEF Filled
  <2> HIDE DEF m, b, l
  <2>5. m = b * l
    BY <2>1, <2>3, <2>4 DEF l
  <2>6. QED
    BY <2>2, <2>4, <2>5 DEF Filled
<1>5. Word(l) = next /\ chain[l] < start
  <2>1. next + f.hdr["binsRemain"] * BinSize = Word(l)
    BY WalkedFree DEF Free, LaidOut
  <2>2. f.hdr["binsRemain"] * BinSize = 0
    BY ImageAssumption
  <2>3. Word(l) = next
    BY <1>1, <2>1, <2>2
  <2>4. chain[l] <= Word(l) /\ chain[l] \in Nat
    BY <1>3, BlockSizeType
  <2>5. QED
    BY <1>1, <2>3, <2>4
<1>6. /\ new \in Seq(Nat) /\ Len(new) = l + 1 /\ new[l + 1] = start
      /\ \A n \in 1..l : new[n] = chain[n]
  BY <1>1, <1>3
<1> DEFINE size == Extent(f.cells, end)
<1>7. size \in Nat /\ end - 1 <= size /\ Len(f.cells) <= size /\ end \in Nat
      /\ start < end
  <2>1. end \in Nat /\ Len(f.cells) \in Nat /\ start < end
    BY <1>1, BlockSizeType
  <2> HIDE DEF end
  <2>2. QED
    BY <2>1 DEF Extent
<1>8. DOMAIN g.cells = 1..size
      /\ \A i \in DOMAIN f.cells : i \in DOMAIN g.cells
  BY <1>1, <1>2, <1>7
<1> HIDE DEF g, start, next, m, l, new, size, end, b
<1>9. ASSUME NEW i \in DOMAIN f.cells, i < start, i # next
      PROVE  i \in DOMAIN g.cells /\ g.cells[i] = f.cells[i]
  <2>1. ~ (i \in start..(end - 1))
    BY <1>1, <1>7, <1>9
  <2>2. g.cells[i] = CellAt(f.cells, i)
    BY <1>2, <1>8, <1>9, <2>1 DEF size
  <2>3. QED
    BY <1>8, <2>2 DEF CellAt
<1>10. g.cells[next] = Ptr(start)
  <2>1. next \in DOMAIN g.cells
    BY <1>3, <1>5, <1>8
  <2>2. QED
    BY <1>2, <1>8, <2>1 DEF size
<1>11. ASSUME NEW n \in 1..(l - 1)
       PROVE  g.cells[Word(n)] = Ptr(chain[n + 1])
  <2>1. n \in 1..l
    BY <1>3
  <2>2. /\ Word(n) \in DOMAIN f.cells /\ f.cells[Word(n)] = Ptr(chain[n + 1])
        /\ chain[n] <= chain[l] /\ chain[n] \in Nat /\ chain[l] \in Nat
    BY <1>3, <2>1
  <2>3. Word(n) # next
    BY <1>1, <2>2 DEF Ptr, Zero
  <2>4. Word(n) <= Word(l)
    BY <2>2, BlockSizeType
  <2>5. Word(n) < start
    <3> HIDE DEF Word
    <3>1. Word(n) \in Nat
      BY <1>1, <2>2
    <3>2. QED
      BY <1>1, <1>5, <2>4, <3>1
  <2>6. QED
    BY <1>9, <2>2, <2>3, <2>5
<1>12. Chained(g.cells, new)
  <2>1. Len(new) # 0 /\ new[1] = FirstBin
    BY <1>3, <1>6
  <2>2. ASSUME NEW n \in 1..Len(new)
        PROVE  /\ n <= new[n] /\ new[n] <= new[Len(new)]
               /\ new[n] + BlockSize - 1 \in DOMAIN g.cells
    <3>1. CASE n \in 1..l
      <4>1. new[n] = chain[n] /\ new[Len(new)] = start
        BY <1>6, <3>1
      <4>2. n <= chain[n] /\ chain[n] <= chain[l] /\ chain[n] \in Nat
            /\ chain[l] \in Nat /\ Word(n) \in DOMAIN f.cells
        <5>1. l \in 1..l
          BY <1>3
        <5>2. QED
          BY <1>3, <3>1, <5>1
      <4>3. chain[n] <= start
        BY <1>1, <1>5, <4>2
      <4>4. QED
        BY <1>8, <4>1, <4>2, <4>3
    <3>2. CASE n = l + 1
      <4>1. new[n] = start /\ new[Len(new)] = start
        BY <1>6, <3>2
      <4>2. l <= chain[l] /\ chain[l] \in Nat
        <5>1. l \in 1..l
          BY <1>3
        <5>2. QED
          BY <1>3, <5>1
      <4>3. n <= start
        BY <1>1, <1>3, <1>5, <3>2, <4>2
      <4>4. start + BlockSize - 1 \in 1..size
        <5>1. start + BlockSize - 1 = end - 1
          BY <1>1, BlockSizeType DEF end
        <5>2. start # 0
          BY <1>1
        <5>3. QED
          BY <1>1, <1>7, <5>1, <5>2, BlockSizeType
      <4>5. QED
        BY <1>1, <1>8, <4>1, <4>3, <4>4
    <3>3. QED
      BY <1>3, <1>6, <3>1, <3>2
  <2>3. ASSUME NEW n \in 1..(Len(new) - 1)
        PROVE  g.cells[new[n] + BlockSize - 1] = Ptr(new[n + 1])
    <3>1. n \in 1..l /\ new[n] = chain[n]
      BY <1>3, <1>6
    <3>2. CASE n = l
      <4>1. new[n + 1] = start /\ chain[n] + BlockSize - 1 = next
        BY <1>5, <1>6, <3>2
      <4>2. QED
        BY <1>10, <3>1, <4>1
    <3>3. CASE n # l
      <4>1. n \in 1..(l - 1) /\ n + 1 \in 1..l
        BY <1>3, <3>1, <3>3
      <4>2. new[n + 1] = chain[n + 1]
        BY <1>6, <4>1
      <4>3. QED
        BY <1>11, <3>1, <4>1, <4>2
    <3>4. QED
      BY <3>2, <3>3
  <2>4. QED
    BY <1>6, <2>1, <2>2, <2>3 DEF Chained
<1>13. ASSUME NEW k \in 1..m PROVE SlotAt(new, k) = SlotAt(chain, k)
  <2> DEFINE d == (k - 1) \div BinsPerBlock
  <2>1. k \in Nat \ {0} /\ k <= BinsPerBlock * Len(chain)
    BY <1>4 DEF b, l
  <2>2. d \in 0..(l - 1)
    BY <1>3, <2>1, SlotAtType DEF l
  <2> HIDE DEF d
  <2>3. new[d + 1] = chain[d + 1]
    BY <1>3, <1>6, <2>2
  <2>4. QED
    BY <2>3 DEF SlotAt, d
<1>14. \A k \in 1..m : /\ SlotAt(new, k) \in DOMAIN g.cells
                       /\ g.cells[SlotAt(new, k)] = f.cells[SlotAt(chain, k)]
                       /\ HashAt(g.cells, new, k) = HashAt(f.cells, chain, k)
  <2> SUFFICES ASSUME NEW k \in 1..m
               PROVE  /\ SlotAt(chain, k) \in DOMAIN g.cells
                      /\ g.cells[SlotAt(chain, k)] = f.cells[SlotAt(chain, k)]
    BY <1>13 DEF HashAt
  <2>1. /\ SlotAt(chain, k) \in DOMAIN f.cells
        /\ f.cells[SlotAt(chain, k)].tag = "entry"
    BY <1>4
  <2>2. SlotAt(chain, k) # next /\ SlotAt(chain, k) < start
    BY <1>1, <2>1 DEF Zero
  <2>3. QED
    BY <1>9, <2>1, <2>2
<1>15. (l + 1) - 1 = l /\ b * (l + 1) = b * l + b /\ b * l \in Nat
  BY <1>3
<1>16. Filled(g.cells, new, m)
  <2>1. m = b * (Len(new) - 1) /\ m <= b * Len(new)
    BY <1>3, <1>4, <1>6, <1>15
  <2>2. \A i, j \in 1..m : SlotAt(new, i) = SlotAt(new, j) => i = j
    BY <1>4, <1>13
  <2>3. QED
    BY <1>4, <1>14, <2>1, <2>2 DEF Filled, b
<1>17. EndsAt(g.hdr, new)
  <2>1. b = b * Len(new) - m
    BY <1>3, <1>4, <1>6, <1>15
  <2>2. (m - b * (Len(new) - 1)) * BinSize = 0
    <3>1. m - b * (Len(new) - 1) = 0
      BY <1>3, <1>4, <1>6, <1>15
    <3>2. 0 * BinSize = 0
      BY ImageAssumption
    <3>3. QED
      BY <3>1, <3>2
  <2>3. start = new[Len(new)] + (m - b * (Len(new) - 1)) * BinSize
    BY <1>1, <1>6, <2>2
  <2>4. QED
    BY <1>2, <2>1, <2>3 DEF EndsAt, b
<1>18. Hashed(g.hash, g.cells, new, m)
  <2>1. Hashed(f.hash, f.cells, chain, m)
    BY DEF Walked, m
  <2>2. ASSUME NEW h, NEW k \in 1..m, FirstOf(h, k, f.cells, chain)
        PROVE  FirstOf(h, k, g.cells, new)
    <3>1. \A j \in 1..(k - 1) : j \in 1..m
      BY <1>4
    <3>2. QED
      BY <1>14, <2>2, <3>1 DEF FirstOf
  <2>3. QED
    BY <1>2, <1>13, <1>14, <2>1, <2>2 DEF Hashed
<1>19. QED
  BY <1>2, <1>12, <1>13, <1>16, <1>17, <1>18 DEF Walked, g, start, m, new

(* An entry takes the next slot, and the hash table if it is the first of its
   hash. *)
LEMMA TakeWalked ==
    ASSUME NEW f \in Image, LaidOut(f), NEW chain, Walked(f, chain),
           f.hdr["binsRemain"] # 0,
           NEW entry \in Cell, entry.tag = "entry", entry.path \in Path
    PROVE  /\ Walked(TakeSlot(f, entry), chain)
           /\ SlotAt(chain, f.hdr["totalBins"] + 1) = f.hdr["nextBin"]
<1> DEFINE g == TakeSlot(f, entry)
           next == f.hdr["nextBin"]
           m == f.hdr["totalBins"]
           remain == f.hdr["binsRemain"]
           l == Len(chain)
           b == BinsPerBlock
           hash == TableHash[entry.path]
           S(k) == SlotAt(chain, k)
           Word(n) == chain[n] + BlockSize - 1
<1>1. /\ next \in Nat \ {0} /\ f.cells \in Seq(Cell) /\ next \in DOMAIN f.cells
      /\ f.cells[next] = Zero
  <2>1. remain * BinSize \in Nat
    BY ImageFields, ImageAssumption DEF HeaderWord
  <2> HIDE DEF remain
  <2>2. PICK size : Laid(f.cells, next, remain * BinSize, size)
    BY DEF LaidOut, LaidTo, remain
  <2>3. next \in next..(next + remain * BinSize)
    BY <2>1, <2>2 DEF Laid
  <2>4. next <= Len(f.cells)
    BY <2>1, <2>2 DEF Laid
  <2>5. QED
    BY <2>2, <2>3, <2>4 DEF Laid
<1>2. /\ g.hdr["totalBins"] = m + 1 /\ g.hdr["nextBin"] = next + BinSize
      /\ g.hdr["binsRemain"] = remain - 1
      /\ g.hash = [f.hash EXCEPT ![hash] = IF f.hash[hash] = 0 THEN next ELSE @]
      /\ g.cells = [f.cells EXCEPT ![next] = entry]
  BY ImageFields DEF TakeSlot, Header, HeaderWord
<1>3. /\ m \in Nat /\ remain \in Nat \ {0} /\ remain = b * l - m
      /\ chain \in Seq(Nat) /\ l \in Nat \ {0} /\ b \in Nat \ {0}
      /\ hash \in 0..MaxHash-1 /\ f.hash \in [0..MaxHash-1 -> Nat]
      /\ next = chain[l] + (m - b * (l - 1)) * BinSize
      /\ b * (l - 1) <= m
  <2>1. hash \in 0..MaxHash-1
    BY ImageAssumption
  <2>2. f.hash \in [0..MaxHash-1 -> Nat] /\ remain \in Nat \ {0}
    BY ImageFields DEF HeaderWord
  <2>3. b \in Nat \ {0} /\ l \in Nat \ {0} /\ chain \in Seq(Nat) /\ m \in Nat
    BY ImageAssumption DEF Walked, Chained, Filled
  <2>4. remain = b * l - m /\ next = chain[l] + (m - b * (l - 1)) * BinSize
        /\ b * (l - 1) <= m
    BY DEF Walked, EndsAt, Filled
  <2>5. QED
    BY <2>1, <2>2, <2>3, <2>4
<1>4. /\ \A k \in 1..m : S(k) \in DOMAIN f.cells /\ f.cells[S(k)].tag = "entry"
      /\ \A i, j \in 1..m : S(i) = S(j) => i = j
  BY DEF Walked, Filled
<1>5. S(m + 1) = next
  BY WalkedFree DEF Free
<1> HIDE DEF g, next, m, remain, l, b, hash, S
<1>6. /\ DOMAIN g.cells = DOMAIN f.cells
      /\ g.cells[next] = entry
      /\ \A i \in DOMAIN f.cells : i # next => g.cells[i] = f.cells[i]
  BY <1>1, <1>2
<1>7. \A k \in 1..(m + 1) : k \in 1..m \/ k = m + 1
  BY <1>3
<1>8. \A k \in 1..m : /\ S(k) # next /\ g.cells[S(k)] = f.cells[S(k)]
                      /\ HashAt(g.cells, chain, k) = HashAt(f.cells, chain, k)
  BY <1>1, <1>4, <1>6 DEF Zero, HashAt, S
<1>9. HashAt(g.cells, chain, m + 1) = hash
  BY <1>5, <1>6 DEF HashAt, hash, S
<1>10. Chained(g.cells, chain)
  <2>1. ASSUME NEW n \in 1..(l - 1)
        PROVE  g.cells[Word(n)] = Ptr(chain[n + 1])
    <3>1. n \in 1..l
      BY <1>3
    <3>2. Word(n) \in DOMAIN f.cells /\ f.cells[Word(n)] = Ptr(chain[n + 1])
      BY <3>1 DEF Walked, Chained, l
    <3>3. Word(n) # next
      BY <1>1, <3>2 DEF Ptr, Zero
    <3>4. QED
      BY <1>6, <3>2, <3>3
  <2>2. QED
    BY <1>6, <2>1 DEF Walked, Chained, l
<1>11. Filled(g.cells, chain, m + 1)
  <2>1. b * l \in Nat /\ b * (l - 1) \in Nat
    BY <1>3
  <2>2. b * (l - 1) <= m + 1 /\ m + 1 <= b * l /\ m + 1 \in Nat
    BY <1>3, <2>1
  <2>3. \A k \in 1..(m + 1) : /\ S(k) \in DOMAIN g.cells
                              /\ g.cells[S(k)].tag = "entry"
    BY <1>1, <1>4, <1>5, <1>6, <1>7, <1>8
  <2>4. ASSUME NEW i \in 1..(m + 1), NEW j \in 1..(m + 1), S(i) = S(j)
        PROVE  i = j
    <3>1. CASE i \in 1..m /\ j \in 1..m
      BY <1>4, <2>4, <3>1
    <3>2. CASE i = m + 1
      BY <1>5, <1>7, <1>8, <2>4, <3>2
    <3>3. CASE j = m + 1
      BY <1>5, <1>7, <1>8, <2>4, <3>3
    <3>4. QED
      BY <1>7, <3>1, <3>2, <3>3
  <2>5. QED
    BY <2>2, <2>3, <2>4 DEF Filled, b, l, S
<1>12. EndsAt(g.hdr, chain)
  <2> DEFINE x == m - b * (l - 1)
             before == b * (l - 1)
  <2>1. b * l \in Nat /\ before \in Nat /\ x \in Nat /\ x = m - before
    BY <1>3
  <2>2. (m + 1) - before = x + 1
    BY <1>3, <2>1
  <2>3. next = chain[l] + x * BinSize /\ chain[l] \in Nat
    <3>1. l \in 1..l
      BY <1>3
    <3>2. QED
      BY <1>3, <3>1 DEF l
  <2> HIDE DEF x, before
  <2>4. (x + 1) * BinSize = x * BinSize + BinSize /\ x * BinSize \in Nat
        /\ BinSize \in Nat
    BY <2>1, ImageAssumption
  <2>5. next + BinSize = chain[l] + (x + 1) * BinSize
    BY <2>3, <2>4
  <2>6. next + BinSize = chain[l] + ((m + 1) - before) * BinSize
    BY <2>2, <2>5
  <2>7. remain - 1 = b * l - (m + 1)
    BY <1>3, <2>1
  <2>8. QED
    BY <1>2, <2>6, <2>7 DEF EndsAt, b, l, before
<1>13. Hashed(g.hash, g.cells, chain, m + 1)
  <2> DEFINE Old(h) == f.hash[h] = 0 /\ \A k \in 1..m : HashAt(f.cells, chain, k) # h
             Led(h) == \E k \in 1..m : /\ f.hash[h] = S(k)
                                       /\ FirstOf(h, k, f.cells, chain)
  <2>1. \A h \in 0..MaxHash-1 : Old(h) \/ Led(h)
    BY DEF Walked, Hashed, m, S
  <2>2. \A h : \A k \in 1..m :
           FirstOf(h, k, f.cells, chain) => FirstOf(h, k, g.cells, chain)
    <3> SUFFICES ASSUME NEW k \in 1..m, NEW h, FirstOf(h, k, f.cells, chain)
                 PROVE  FirstOf(h, k, g.cells, chain)
      OBVIOUS
    <3>1. \A j \in 1..(k - 1) : j \in 1..m
      BY <1>3
    <3>2. QED
      BY <1>8, <3>1 DEF FirstOf
  <2> SUFFICES ASSUME NEW h \in 0..MaxHash-1
               PROVE  \/ /\ g.hash[h] = 0
                         /\ \A k \in 1..(m + 1) : HashAt(g.cells, chain, k) # h
                      \/ \E k \in 1..(m + 1) :
                             g.hash[h] = S(k) /\ FirstOf(h, k, g.cells, chain)
    BY DEF Hashed, S
  <2>3. g.hash[h] = IF h = hash /\ f.hash[h] = 0 THEN next ELSE f.hash[h]
    BY <1>2, <1>3
  <2>4. CASE Led(h)
    <3>1. PICK k \in 1..m : f.hash[h] = S(k) /\ FirstOf(h, k, f.cells, chain)
      BY <2>4
    <3>2. S(k) # 0
      BY <1>1, <1>4
    <3>3. k \in 1..(m + 1) /\ g.hash[h] = S(k)
      BY <1>3, <2>3, <3>1, <3>2
    <3>4. QED
      BY <2>2, <3>1, <3>3
  <2>5. CASE Old(h) /\ h # hash
    <3>1. g.hash[h] = 0
      BY <2>3, <2>5
    <3>2. \A k \in 1..(m + 1) : HashAt(g.cells, chain, k) # h
      BY <1>7, <1>8, <1>9, <2>5
    <3>3. QED
      BY <3>1, <3>2
  <2>6. CASE Old(h) /\ h = hash
    <3>1. g.hash[h] = S(m + 1) /\ m + 1 \in 1..(m + 1)
      BY <1>3, <1>5, <2>3, <2>6
    <3>2. (m + 1) - 1 = m
      BY <1>3
    <3>3. FirstOf(h, m + 1, g.cells, chain)
      BY <1>8, <1>9, <2>6, <3>2 DEF FirstOf
    <3>4. QED
      BY <3>1, <3>3
  <2> HIDE DEF Old, Led
  <2>7. QED
    BY <2>1, <2>4, <2>5, <2>6
<1>14. QED
  BY <1>2, <1>5, <1>10, <1>11, <1>12, <1>13 DEF Walked, g, next, m, S

-----------------------------------------------------------------------------
(* The file as the list of its entries and the records they lead to.       *)

Logged(f, slot) ==
    [path |-> f.cells[slot].path, type |-> RecordAt(f, slot).type,
     content |-> RecordAt(f, slot).content, status |-> f.cells[slot].status]
Logs(f, chain) ==
    [k \in 1..f.hdr["totalBins"] |-> Logged(f, SlotAt(chain, k))]

\* What an entry in front of size may lead to is as it was.
DataKept(cells, new, size) ==
    \A i \in DOMAIN cells :
        i < size /\ cells[i].tag \in {"info", "data"} =>
            i \in DOMAIN new /\ new[i] = cells[i]

(* An entry's record stays where its info block and data stay; an entry for
   the same info block leads to the same record. *)
LEMMA RecordKept ==
    ASSUME NEW f \in Image, NEW g, NEW size \in Nat, NEW slot, NEW other,
           HasTag(f, slot, "entry"), HasTag(g, other, "entry"),
           g.cells[other].info = f.cells[slot].info,
           Leads(f.cells, f.cells[slot].info, f.cells[slot].type, size),
           DataKept(f.cells, g.cells, size)
    PROVE  RecordAt(g, other) = RecordAt(f, slot)
<1> DEFINE info == f.cells[slot].info
           block == f.cells[info]
<1>1. info \in DOMAIN f.cells /\ info < size /\ block.tag = "info"
  BY DEF Leads
<1>2. info \in DOMAIN g.cells /\ g.cells[info] = block
  BY <1>1 DEF DataKept
<1>3. ASSUME NEW a \in Area
       PROVE  ReadArea(g, block.at[a]) = ReadArea(f, block.at[a])
  <2> DEFINE addr == block.at[a]
  <2>1. addr < size
        /\ (addr # 0 => addr \in DOMAIN f.cells /\ f.cells[addr].tag = "data")
    BY DEF Leads
  <2> HIDE DEF addr
  <2>2. addr # 0 => addr \in DOMAIN g.cells /\ g.cells[addr] = f.cells[addr]
    BY <2>1 DEF DataKept
  <2>3. ReadArea(g, addr) = ReadArea(f, addr)
    BY <2>1, <2>2 DEF ReadArea, HasTag
  <2>4. QED
    BY <2>3 DEF addr
<1>4. RecordAt(f, slot) = [type |-> block.type,
                            content |-> [a \in Area |-> ReadArea(f, block.at[a])]]
  BY <1>1 DEF RecordAt, HasInfo, HasTag
<1>5. RecordAt(g, other) = [type |-> block.type,
                            content |-> [a \in Area |-> ReadArea(g, block.at[a])]]
  BY <1>1, <1>2 DEF RecordAt, HasInfo, HasTag
<1> HIDE DEF block
<1>6. [a \in Area |-> ReadArea(g, block.at[a])]
         = [a \in Area |-> ReadArea(f, block.at[a])]
  BY <1>3
<1>7. QED
  BY <1>4, <1>5, <1>6

(* The areas of a record follow each other. *)
LEMMA OffsetsDiffer ==
    ASSUME NEW c \in Content, NEW a \in Area, NEW b \in Area, a # b,
           c[a] # Empty, c[b] # Empty
    PROVE  Offset(c, a) # Offset(c, b)
<1>1. \A x \in Area : Present(c, x) = IF c[x] = Empty THEN 0 ELSE 1
  BY DEF Present
<1> DEFINE ih == Present(c, "ih")
           h2 == Present(c, "h2")
           v1 == Present(c, "v1")
           v2 == Present(c, "v2")
           v3 == Present(c, "v3")
<1>2. ih \in Nat /\ h2 \in Nat /\ v1 \in Nat /\ v2 \in Nat /\ v3 \in Nat
  BY DEF Present
<1>3. /\ Offset(c, "ih") = 1 /\ Offset(c, "h2") = 1 + ih
      /\ Offset(c, "v1") = 1 + ih + h2 /\ Offset(c, "v2") = 1 + ih + h2 + v1
      /\ Offset(c, "v3") = 1 + ih + h2 + v1 + v2
      /\ Offset(c, "uh") = 1 + ih + h2 + v1 + v2 + v3
  BY DEF Offset
<1>4. /\ c["ih"] # Empty => ih = 1
      /\ c["h2"] # Empty => h2 = 1
      /\ c["v1"] # Empty => v1 = 1
      /\ c["v2"] # Empty => v2 = 1
      /\ c["v3"] # Empty => v3 = 1
  BY DEF Present
<1> HIDE DEF ih, h2, v1, v2, v3
<1>5. QED
  BY <1>2, <1>3, <1>4 DEF Area

(* What was stored is what is read. *)
LEMMA StoredReadsBack ==
    ASSUME NEW cells \in Seq(Cell), NEW base \in Nat \ {0},
           NEW path \in Path, NEW rec \in Record,
           NEW g, NEW slot, HasTag(g, slot, "entry"),
           g.cells[slot].info = base,
           \A i \in DOMAIN WriteRecord(cells, base, path, rec) :
               WriteRecord(cells, base, path, rec)[i].tag \in {"info", "data"} =>
                   /\ i \in DOMAIN g.cells
                   /\ g.cells[i] = WriteRecord(cells, base, path, rec)[i]
    PROVE  RecordAt(g, slot) = rec
<1> DEFINE c == rec.content
           at == Layout(base, c)
           eof == base + Size(c)
           n == Extent(cells, eof + 1)
           new == WriteRecord(cells, base, path, rec)
<1>1. c \in Content /\ rec.type \in RecordType
      /\ rec = [type |-> rec.type, content |-> c]
  BY DEF Record
<1>2. /\ Size(c) \in 1..7
      /\ \A a \in Area : /\ Offset(c, a) \in 1..6
                         /\ c[a] # Empty => Offset(c, a) < Size(c)
  BY <1>1, OffsetType
<1>3. \A a \in Area : at[a] = IF c[a] = Empty THEN 0 ELSE base + Offset(c, a)
  BY DEF Layout
<1>4. new = [i \in 1..n |->
            IF i = base THEN Info(path, rec.type, at)
            ELSE IF i = eof THEN EofFlag
            ELSE IF \E a \in Area : at[a] = i
                 THEN Data(c[CHOOSE a \in Area : at[a] = i])
            ELSE CellAt(cells, i)]
  BY DEF WriteRecord
<1>5. eof \in Nat /\ base < eof
  BY <1>2
<1>6. n \in Nat /\ n >= eof
  BY <1>5 DEF Extent
<1>7. c = [a \in Area |-> c[a]]
  BY <1>1 DEF Content
<1>8. \A a, b \in Area : at[a] # 0 /\ at[a] = at[b] => a = b
  <2> SUFFICES ASSUME NEW a \in Area, NEW b \in Area, at[a] # 0, at[a] = at[b],
                      a # b
               PROVE  FALSE
    OBVIOUS
  <2>1. c[a] # Empty /\ at[a] = base + Offset(c, a) /\ Offset(c, a) \in Nat
        /\ Offset(c, b) \in Nat
    BY <1>2, <1>3
  <2>2. c[b] # Empty /\ at[b] = base + Offset(c, b)
    BY <1>3, <2>1
  <2>3. Offset(c, a) # Offset(c, b)
    BY <1>1, <2>1, <2>2, OffsetsDiffer
  <2> DEFINE x == Offset(c, a)
             y == Offset(c, b)
  <2>4. x \in Nat /\ y \in Nat /\ x # y /\ base + x = base + y
    BY <2>1, <2>2, <2>3
  <2> HIDE DEF x, y
  <2>5. QED
    BY <2>4
<1> HIDE DEF at, n, new
<1>9. new[base] = Info(path, rec.type, at) /\ base \in DOMAIN new
  BY <1>4, <1>5, <1>6
<1>10. base \in DOMAIN g.cells /\ g.cells[base] = Info(path, rec.type, at)
  BY <1>9 DEF Info, new
<1>11. ASSUME NEW a \in Area
       PROVE  ReadArea(g, at[a]) = c[a]
  <2>1. CASE c[a] = Empty
    BY <1>3, <2>1 DEF ReadArea
  <2>2. CASE c[a] # Empty
    <3>1. at[a] = base + Offset(c, a) /\ Offset(c, a) \in 1..6
          /\ Offset(c, a) < Size(c) /\ Size(c) \in Nat
      BY <1>2, <1>3, <2>2
    <3>2. at[a] \in 1..n /\ at[a] # base /\ at[a] # eof /\ at[a] # 0
      BY <1>6, <3>1
    <3>3. (CHOOSE x \in Area : at[x] = at[a]) = a
      BY <1>8, <3>2
    <3>4. new[at[a]] = Data(c[a]) /\ at[a] \in DOMAIN new
      BY <1>4, <3>2, <3>3
    <3>5. at[a] \in DOMAIN g.cells /\ g.cells[at[a]] = Data(c[a])
      BY <3>4 DEF Data, new
    <3>6. QED
      BY <3>2, <3>5 DEF ReadArea, HasTag, Data
  <2>3. QED
    BY <2>1, <2>2
<1>12. RecordAt(g, slot) = [type |-> rec.type,
                            content |-> [a \in Area |-> ReadArea(g, at[a])]]
  BY <1>10 DEF RecordAt, HasInfo, HasTag, Info
<1> HIDE DEF c
<1>13. [a \in Area |-> ReadArea(g, at[a])] = [a \in Area |-> c[a]]
  BY <1>11
<1>14. QED
  BY <1>1, <1>7, <1>12, <1>13

\* A record has been written to FILE_SIZE, and its entry to the next slot.
StoredAt(f, g, chain, path, rec) ==
    LET base  == f.hdr["fileSize"]
        next  == f.hdr["nextBin"]
        cells == WriteRecord(f.cells, base, path, rec)
    IN  /\ SlotAt(chain, f.hdr["totalBins"] + 1) = next
        /\ g.hdr["totalBins"] = f.hdr["totalBins"] + 1
        /\ next \in DOMAIN cells /\ cells[next] = Zero
        /\ g.cells = [cells EXCEPT ![next] = Entry(path, "PRIMARY", base, rec.type)]

(* A record that is stored is listed at the end, and nothing else changes. *)
LEMMA StoredWalk ==
    ASSUME NEW f, Safe(f), ~ f.spilled, NEW chain, Walked(f, chain),
           NEW path \in Path, NEW rec \in Record,
           ~ StoreRecord(f, path, rec).spilled
    PROVE  /\ StoredAt(f, StoreRecord(f, path, rec), chain, path, rec)
           /\ Walked(StoreRecord(f, path, rec), chain)
           /\ Logs(StoreRecord(f, path, rec), chain)
                = Append(Logs(f, chain),
                         [path |-> path, type |-> rec.type,
                          content |-> rec.content, status |-> "PRIMARY"])
<1> DEFINE g == StoreRecord(f, path, rec)
           base == f.hdr["fileSize"]
           cells == f.cells
           next == f.hdr["nextBin"]
           m == f.hdr["totalBins"]
           entry == Entry(path, "PRIMARY", base, rec.type)
           written == [hdr |-> f.hdr, hash |-> f.hash,
                       cells |-> WriteRecord(f.cells, base, path, rec),
                       spilled |-> f.spilled \/ f.hdr["binsRemain"] <= 0]
           taken == TakeSlot(written, entry)
           S(k) == SlotAt(chain, k)
<1>1. /\ f \in Image /\ base \in Nat /\ f.hdr["binsRemain"] \in Nat
      /\ cells \in Seq(Cell) /\ rec.type \in RecordType /\ m \in Nat
  BY ImageFields DEF Safe, HeaderWord, Record
<1>2. written \in Image
  BY <1>1, WriteRecordType DEF Image
<1>3. ~ f.hdr["binsRemain"] <= 0
  BY DEF StoreRecord, WriteBinEntry, EnterBin, TakeSlot, AllocateNewBinBlock
<1>4. /\ g.cells = taken.cells /\ g.hash = taken.hash
      /\ \A w \in {"totalBins", "binsRemain", "nextBin"} :
             g.hdr[w] = taken.hdr[w]
  <2>1. g = [hdr |-> [taken.hdr EXCEPT
                        !["numberRecords"] = @ + 1,
                        !["fileSize"] = base + Size(rec.content)],
             hash |-> taken.hash, cells |-> taken.cells,
             spilled |-> taken.spilled]
    BY <1>3 DEF StoreRecord, WriteBinEntry, EnterBin
  <2>2. DOMAIN taken.hdr = HeaderWord
    BY <1>1, ImageFields DEF TakeSlot, Header
  <2> HIDE DEF taken, g
  <2>3. QED
    BY <2>1, <2>2 DEF HeaderWord
<1>5. /\ base \in Nat \ {0} /\ EntriesLead(cells, base) /\ next < base
      /\ LaidTo(f, base) /\ LaidTo(written, base + Size(rec.content))
      /\ next + f.hdr["binsRemain"] * BinSize < base
  <2>1. Laid(cells, next, f.hdr["binsRemain"] * BinSize, base)
    BY DEF Safe
  <2>2. Laid(written.cells, next, f.hdr["binsRemain"] * BinSize,
             base + Size(rec.content))
    BY <2>1, WriteLays
  <2>3. f.hdr["binsRemain"] * BinSize \in Nat
    BY <2>1 DEF Laid
  <2> DEFINE free == f.hdr["binsRemain"] * BinSize
  <2> HIDE DEF free, next, base, written
  <2>4. base \in Nat \ {0} /\ EntriesLead(cells, base) /\ next < base
        /\ next + free < base
    BY <1>1, <2>1, <2>3 DEF Laid, free
  <2>5. QED
    BY <2>1, <2>2, <2>4 DEF LaidTo, free, next, base, written
<1>6. CellsKept(cells, written.cells, base)
  BY <1>1, <1>5, WriteKeeps
<1>7. \A i \in DOMAIN cells : i < base /\ cells[i] # Zero =>
          i \in DOMAIN written.cells /\ written.cells[i] = cells[i]
  BY <1>6 DEF CellsKept
<1>8. \A i \in DOMAIN cells : cells[i].tag = "entry" =>
          i < base /\ cells[i] # Zero
  BY <1>5 DEF EntriesLead, Zero
<1>9. KeepsBins(f, written, chain)
  <2>1. \A n \in 1..Len(chain) :
            /\ chain[n] + BlockSize - 1 \in DOMAIN cells
            /\ chain[n] + BlockSize - 1 < base
    <3>1. Free(f, chain) /\ chain \in Seq(Nat) /\ Len(chain) \in Nat \ {0}
      BY <1>1, <1>5, WalkedFree DEF LaidOut, Walked, Chained
    <3>2. chain[Len(chain)] + BlockSize - 1 < base
      BY <1>5, <3>1 DEF Free
    <3>3. ASSUME NEW n \in 1..Len(chain)
          PROVE  /\ chain[n] + BlockSize - 1 \in DOMAIN cells
                 /\ chain[n] + BlockSize - 1 < base
      <4>1. /\ chain[n] + BlockSize - 1 \in DOMAIN cells
            /\ chain[n] <= chain[Len(chain)]
        BY DEF Walked, Chained
      <4>2. chain[n] \in Nat /\ chain[Len(chain)] \in Nat
        BY <3>1
      <4> DEFINE x == chain[n]
                 y == chain[Len(chain)]
      <4>3. x \in Nat /\ y \in Nat /\ x <= y /\ y + BlockSize - 1 < base
        BY <3>2, <4>1, <4>2
      <4> HIDE DEF x, y, base
      <4>4. x + BlockSize - 1 < base
        BY <1>1, <4>3, BlockSizeType
      <4>5. QED
        BY <4>1, <4>4 DEF x
    <3>4. QED
      BY <3>3
  <2>2. \A n \in 1..Len(chain) : chain[n] + BlockSize - 1 \in DOMAIN written.cells
    <3>1. \A i \in DOMAIN cells : i \in DOMAIN written.cells
      <4> DEFINE end == base + Size(rec.content) + 1
      <4>1. DOMAIN written.cells = 1..Extent(cells, end)
        BY DEF WriteRecord
      <4>2. Size(rec.content) \in Nat
        BY OffsetType DEF Record
      <4>3. end \in Nat /\ Len(cells) \in Nat /\ DOMAIN cells = 1..Len(cells)
        BY <1>1, <4>2
      <4> HIDE DEF written, end, cells
      <4>4. Extent(cells, end) \in Nat /\ Len(cells) <= Extent(cells, end)
        BY <4>3 DEF Extent
      <4>5. QED
        BY <4>1, <4>3, <4>4
    <3>2. QED
      BY <2>1, <3>1
  <2>3. \A n \in 1..(Len(chain) - 1) :
            written.cells[chain[n] + BlockSize - 1] = cells[chain[n] + BlockSize - 1]
    <3> SUFFICES ASSUME NEW n \in 1..(Len(chain) - 1)
                 PROVE  written.cells[chain[n] + BlockSize - 1]
                          = cells[chain[n] + BlockSize - 1]
      OBVIOUS
    <3>1. n \in 1..Len(chain)
      BY DEF Walked, Chained
    <3>2. cells[chain[n] + BlockSize - 1] = Ptr(chain[n + 1])
      BY DEF Walked, Chained
    <3>3. cells[chain[n] + BlockSize - 1] # Zero
      BY <3>2 DEF Ptr, Zero
    <3> HIDE DEF written, cells, base
    <3>4. QED
      BY <1>7, <2>1, <3>1, <3>3
  <2>4. written.hdr = f.hdr /\ written.hash = f.hash
    OBVIOUS
  <2> HIDE DEF written
  <2>5. QED
    BY <1>7, <1>8, <2>2, <2>3, <2>4 DEF KeepsBins
<1>10. Walked(written, chain)
  BY <1>9, WalkedKept
<1>11. entry \in Cell /\ entry.tag = "entry" /\ entry.path = path
       /\ entry.info = base /\ entry.status = "PRIMARY"
  BY <1>1 DEF Entry, Cell, Status, Address
<1>12. written.hdr = f.hdr /\ written.cells = WriteRecord(cells, base, path, rec)
  OBVIOUS
<1> HIDE DEF written, entry, g
<1>13. Walked(taken, chain) /\ S(m + 1) = next
  <2>1. LaidOut(written) /\ written.hdr["binsRemain"] # 0
    BY <1>3, <1>5, <1>12 DEF LaidOut
  <2>2. QED
    BY <1>2, <1>10, <1>11, <1>12, <2>1, TakeWalked
<1>14. Walked(g, chain)
  <2>1. KeepsBins(taken, g, chain)
    <3> HIDE DEF taken
    <3>1. Chained(taken.cells, chain)
      BY <1>13 DEF Walked
    <3>2. \A n \in 1..Len(chain) : chain[n] + BlockSize - 1 \in DOMAIN taken.cells
      BY <3>1 DEF Chained
    <3>3. QED
      BY <1>4, <3>2 DEF KeepsBins
  <2>2. QED
    BY <1>13, <2>1, WalkedKept
<1>15. /\ taken.cells = [written.cells EXCEPT ![next] = entry]
       /\ next \in DOMAIN written.cells /\ written.cells[next] = Zero
       /\ taken.hdr["totalBins"] = m + 1
  <2> DEFINE free == f.hdr["binsRemain"] * BinSize
             size == base + Size(rec.content)
  <2>1. Laid(written.cells, next, free, size)
    BY <1>5, <1>12 DEF LaidTo
  <2>2. next \in DOMAIN written.cells /\ written.cells[next] = Zero
    <3> HIDE DEF next, free, size
    <3>1. QED
      BY <2>1 DEF Laid
  <2>3. QED
    BY <1>1, <1>12, <2>2, ImageFields DEF TakeSlot, Header, HeaderWord
<1> HIDE DEF taken, next, cells, base, m
<1>16. /\ next \in DOMAIN g.cells /\ g.cells[next] = entry
       /\ \A i \in DOMAIN written.cells : i # next =>
              i \in DOMAIN g.cells /\ g.cells[i] = written.cells[i]
       /\ g.hdr["totalBins"] = m + 1
  BY <1>4, <1>15
<1>17. RecordAt(g, next) = rec
  <2>1. HasTag(g, next, "entry") /\ g.cells[next].info = base
    BY <1>11, <1>16 DEF HasTag
  <2>2. \A i \in DOMAIN written.cells :
           written.cells[i].tag \in {"info", "data"} =>
               i \in DOMAIN g.cells /\ g.cells[i] = written.cells[i]
    BY <1>15, <1>16 DEF Zero
  <2>3. QED
    BY <1>1, <1>5, <1>12, <2>1, <2>2, StoredReadsBack
<1>18. ASSUME NEW k \in 1..m
       PROVE  Logged(g, S(k)) = Logged(f, S(k))
  <2> DEFINE slot == S(k)
  <2>1. slot \in DOMAIN cells /\ cells[slot].tag = "entry"
    BY DEF Walked, Filled, m, cells
  <2>2. slot < base /\ slot \in DOMAIN written.cells
        /\ written.cells[slot] = cells[slot]
    BY <1>7, <1>8, <2>1
  <2>3. slot # next
    BY <1>15, <2>1, <2>2 DEF Zero
  <2>4. slot \in DOMAIN g.cells /\ g.cells[slot] = cells[slot]
    BY <1>16, <2>2, <2>3
  <2> HIDE DEF slot
  <2>5. DataKept(cells, g.cells, base)
    <3>1. \A i \in DOMAIN cells : cells[i].tag \in {"info", "data"} => cells[i] # Zero
      BY DEF Zero
    <3>2. \A i \in DOMAIN cells : i < base /\ cells[i].tag \in {"info", "data"} =>
             /\ i \in DOMAIN written.cells /\ written.cells[i] = cells[i]
             /\ i # next
      BY <1>7, <1>15, <3>1
    <3>3. QED
      BY <1>16, <3>2 DEF DataKept
  <2>6. Leads(cells, cells[slot].info, cells[slot].type, base)
    BY <1>5, <2>1 DEF EntriesLead
  <2>7. RecordAt(g, slot) = RecordAt(f, slot)
    <3>1. HasTag(f, slot, "entry") /\ HasTag(g, slot, "entry")
          /\ g.cells[slot].info = f.cells[slot].info
      BY <2>1, <2>4 DEF HasTag, cells
    <3>2. QED
      BY <1>1, <1>5, <2>5, <2>6, <3>1, RecordKept DEF cells
  <2>8. QED
    BY <2>4, <2>7 DEF Logged, slot, cells
<1>19. Logged(g, S(m + 1))
         = [path |-> path, type |-> rec.type, content |-> rec.content,
            status |-> "PRIMARY"]
  BY <1>11, <1>13, <1>16, <1>17 DEF Logged
<1>20. Logs(g, chain) = [k \in 1..(m + 1) |-> Logged(g, S(k))]
  BY <1>16 DEF Logs
<1>21. Logs(f, chain) = [k \in 1..m |-> Logged(f, S(k))]
  BY DEF Logs, m
<1>22. StoredAt(f, g, chain, path, rec)
  BY <1>4, <1>12, <1>13, <1>15, <1>16 DEF StoredAt, next, cells, base, m, entry
<1> DEFINE item == [path |-> path, type |-> rec.type, content |-> rec.content,
                    status |-> "PRIMARY"]
<1> HIDE DEF S, item
<1>23. Logs(g, chain) = Append(Logs(f, chain), item)
  <2>1. Logged(g, S(m + 1)) = item
    BY <1>19 DEF item
  <2>2. QED
    BY <1>1, <1>18, <1>20, <1>21, <2>1 DEF m
<1>24. QED
  BY <1>14, <1>22, <1>23 DEF g, item

\* An entry has been made in g that was not in f.
Entered(f, g, chain, new, entry) ==
    LET m == f.hdr["totalBins"]
    IN  /\ Walked(g, new)
        /\ g.hdr["totalBins"] = m + 1
        /\ \A k \in 1..m : SlotAt(new, k) = SlotAt(chain, k)
        /\ SlotAt(new, m + 1) \in DOMAIN g.cells
        /\ g.cells[SlotAt(new, m + 1)] = entry

(* A name entered, with or without a new block, comes last in the chain. *)
LEMMA EnterWalked ==
    ASSUME NEW f \in Image, LaidTo(f, f.hdr["fileSize"]),
           NEW chain, Walked(f, chain),
           NEW entry \in Cell, entry.tag = "entry", entry.path \in Path
    PROVE  \E new : Entered(f, EnterBin(f, entry), chain, new, entry)
<1> DEFINE g == EnterBin(f, entry)
           m == f.hdr["totalBins"]
<1>1. f.hdr["binsRemain"] \in Nat
  BY ImageFields DEF HeaderWord
<1>2. ASSUME NEW h \in Image, LaidOut(h), NEW new, Walked(h, new),
             h.hdr["binsRemain"] # 0, h.hdr["totalBins"] = m,
             g = TakeSlot(h, entry),
             \A k \in 1..m : SlotAt(new, k) = SlotAt(chain, k)
      PROVE  Entered(f, g, chain, new, entry)
  <2> DEFINE next == h.hdr["nextBin"]
  <2>1. Walked(g, new) /\ SlotAt(new, m + 1) = next
    BY <1>2, TakeWalked
  <2>2. g.hdr["totalBins"] = m + 1 /\ g.cells = [h.cells EXCEPT ![next] = entry]
    BY <1>2, ImageFields DEF TakeSlot, Header, HeaderWord
  <2> HIDE DEF g, m, next
  <2>3. next \in DOMAIN h.cells
    <3>1. Filled(g.cells, new, m + 1)
      BY <2>1, <2>2 DEF Walked
    <3>2. m \in Nat
      BY <1>2 DEF Walked, Filled
    <3>3. next \in DOMAIN g.cells
      BY <2>1, <3>1, <3>2 DEF Filled
    <3>4. QED
      BY <2>2, <3>3
  <2>4. QED
    BY <1>2, <2>1, <2>2, <2>3 DEF Entered, m
<1>3. CASE f.hdr["binsRemain"] # 0
  <2>1. g = TakeSlot(f, entry)
    BY <1>1, <1>3 DEF EnterBin
  <2>2. LaidOut(f)
    BY DEF LaidOut
  <2> HIDE DEF g
  <2>3. QED
    BY <1>2, <1>3, <2>1, <2>2 DEF g
<1>4. CASE f.hdr["binsRemain"] = 0
  <2> DEFINE h == AllocateNewBinBlock(f)
             new == Append(chain, f.hdr["fileSize"])
  <2>1. g = TakeSlot(h, entry)
    BY <1>4 DEF EnterBin
  <2>2. h \in Image
    BY AllocateType
  <2>3. /\ Walked(h, new) /\ h.hdr["totalBins"] = m
        /\ \A k \in 1..m : SlotAt(new, k) = SlotAt(chain, k)
    BY <1>4, AllocateWalked
  <2>4. h.hdr["binsRemain"] = BinsPerBlock /\ h.hdr["nextBin"] = f.hdr["fileSize"]
    BY ImageFields DEF AllocateNewBinBlock, Header, HeaderWord
  <2>5. LaidOut(h)
    <3>1. f.hdr["binsRemain"] * BinSize = 0
      BY <1>4, ImageAssumption
    <3>2. Laid(f.cells, f.hdr.nextBin, 0, f.hdr.fileSize)
      BY <3>1 DEF LaidTo
    <3>3. Laid(h.cells, f.hdr.fileSize, BinsPerBlock * BinSize,
               f.hdr.fileSize + BlockSize)
      BY <3>2, AllocateLays
    <3>4. QED
      BY <2>4, <3>3 DEF LaidOut, LaidTo
  <2>6. h.hdr["binsRemain"] # 0
    BY <2>4, ImageAssumption
  <2> HIDE DEF h, new, g
  <2>7. QED
    BY <1>2, <2>1, <2>2, <2>3, <2>5, <2>6 DEF g
<1>5. QED
  BY <1>3, <1>4

(* An alias is listed at the end, with the record of the entry it is for. *)
LEMMA AliasedWalk ==
    ASSUME NEW f, Safe(f), ~ f.spilled, NEW chain, Walked(f, chain),
           NEW slot \in DOMAIN f.cells, HasTag(f, slot, "entry"),
           NEW alias \in Path, NEW g,
           g = Count(EnterBin(f, Entry(alias, "ALIAS", f.cells[slot].info,
                                       f.cells[slot].type)), "numberAliases")
    PROVE  \E new :
             /\ Walked(g, new)
             /\ Entered(f, g, chain, new, Entry(alias, "ALIAS", f.cells[slot].info,
                                               f.cells[slot].type))
             /\ Logs(g, new)
                  = Append(Logs(f, chain),
                           [path |-> alias, type |-> RecordAt(f, slot).type,
                            content |-> RecordAt(f, slot).content,
                            status |-> "ALIAS"])
<1> DEFINE base == f.hdr["fileSize"]
           cells == f.cells
           m == f.hdr["totalBins"]
           entry == Entry(alias, "ALIAS", f.cells[slot].info, f.cells[slot].type)
           entered == EnterBin(f, entry)
<1>1. f \in Image /\ base \in Nat /\ cells \in Seq(Cell) /\ m \in Nat
  BY ImageFields DEF Safe, HeaderWord
<1>2. LaidTo(f, base) /\ EntriesLead(cells, base)
      /\ cells[f.hdr["nextBin"]] = Zero
  <2> DEFINE next == f.hdr["nextBin"]
             free == f.hdr["binsRemain"] * BinSize
  <2>1. Laid(cells, next, free, base)
    BY DEF Safe
  <2>2. EntriesLead(cells, base) /\ cells[next] = Zero
    <3> HIDE DEF next, free, base, cells
    <3>1. next \in next..(next + free)
      BY <2>1 DEF Laid
    <3>2. QED
      BY <2>1, <3>1 DEF Laid
  <2>3. QED
    BY <2>1, <2>2 DEF LaidTo
<1>3. entry \in Cell /\ entry.tag = "entry" /\ entry.path = alias
      /\ entry.info = cells[slot].info /\ entry.status = "ALIAS"
  <2>1. cells[slot] \in Cell /\ cells[slot].tag = "entry"
    BY <1>1 DEF HasTag
  <2>2. cells[slot].info \in Address /\ cells[slot].type \in RecordType
    BY <2>1 DEF Cell, Zero, EofFlag
  <2>3. QED
    BY <2>2 DEF Entry, Cell, Status
<1>4. g = Count(entered, "numberAliases")
  OBVIOUS
<1> HIDE DEF entry, base, m
<1>5. PICK new : Entered(f, entered, chain, new, entry)
  BY <1>1, <1>2, <1>3, EnterWalked DEF base
<1>6. CellsKept(cells, entered.cells, base)
  BY <1>1, <1>2, <1>3, EnterKeeps DEF base
<1> DEFINE next == SlotAt(new, m + 1)
<1>7. /\ Walked(entered, new) /\ entered.hdr["totalBins"] = m + 1
      /\ \A k \in 1..m : SlotAt(new, k) = SlotAt(chain, k)
      /\ next \in DOMAIN entered.cells /\ entered.cells[next] = entry
  BY <1>5 DEF Entered, m
<1>8. /\ g.cells = entered.cells /\ g.hash = entered.hash
      /\ \A w \in {"totalBins", "binsRemain", "nextBin"} :
             g.hdr[w] = entered.hdr[w]
  <2>1. DOMAIN entered.hdr = HeaderWord
    BY <1>1, ImageFields
       DEF EnterBin, TakeSlot, AllocateNewBinBlock, Header
  <2> HIDE DEF entered
  <2>2. QED
    BY <1>4, <2>1 DEF Count, HeaderWord
<1> HIDE DEF entered, next, cells
<1>9. Walked(g, new)
  <2>1. \A n \in 1..Len(new) : new[n] + BlockSize - 1 \in DOMAIN entered.cells
    BY <1>7 DEF Walked, Chained
  <2>2. KeepsBins(entered, g, new)
    BY <1>8, <2>1 DEF KeepsBins
  <2>3. QED
    BY <1>7, <2>2, WalkedKept
<1>10. \A i \in DOMAIN cells : i < base /\ cells[i] # Zero =>
           i \in DOMAIN g.cells /\ g.cells[i] = cells[i]
  BY <1>6, <1>8 DEF CellsKept
<1>11. DataKept(cells, g.cells, base)
  BY <1>10 DEF Zero, DataKept
<1>12. ASSUME NEW s \in DOMAIN cells, cells[s].tag = "entry", NEW other,
              HasTag(g, other, "entry"), g.cells[other].info = cells[s].info
       PROVE  RecordAt(g, other) = RecordAt(f, s)
  <2>1. Leads(cells, cells[s].info, cells[s].type, base)
    BY <1>2, <1>12 DEF EntriesLead
  <2>2. HasTag(f, s, "entry")
    BY <1>12 DEF HasTag, cells
  <2>3. /\ f \in Image /\ base \in Nat /\ DataKept(f.cells, g.cells, base)
        /\ Leads(f.cells, f.cells[s].info, f.cells[s].type, base)
        /\ HasTag(g, other, "entry") /\ g.cells[other].info = f.cells[s].info
    BY <1>1, <1>11, <1>12, <2>1 DEF cells
  <2>4. QED
    BY <2>2, <2>3, RecordKept
<1>13. ASSUME NEW k \in 1..m
       PROVE  Logged(g, SlotAt(new, k)) = Logged(f, SlotAt(chain, k))
  <2> DEFINE s == SlotAt(chain, k)
  <2>1. s \in DOMAIN cells /\ cells[s].tag = "entry"
    BY DEF Walked, Filled, m, cells
  <2>2. s < base /\ cells[s] # Zero
    BY <1>2, <2>1 DEF EntriesLead, Zero
  <2> HIDE DEF s
  <2>3. s \in DOMAIN g.cells /\ g.cells[s] = cells[s]
    BY <1>10, <2>1, <2>2
  <2>4. RecordAt(g, s) = RecordAt(f, s)
    BY <1>12, <2>1, <2>3 DEF HasTag
  <2>5. Logged(g, s) = Logged(f, s)
    BY <2>3, <2>4 DEF Logged, cells
  <2>6. QED
    BY <1>7, <2>5 DEF s
<1> DEFINE item == [path |-> alias, type |-> RecordAt(f, slot).type,
                    content |-> RecordAt(f, slot).content, status |-> "ALIAS"]
<1>14. Logged(g, next) = item
  <2>1. HasTag(g, next, "entry") /\ g.cells[next] = entry
    BY <1>3, <1>7, <1>8 DEF HasTag
  <2>2. slot \in DOMAIN cells /\ cells[slot].tag = "entry"
    BY DEF HasTag, cells
  <2>3. RecordAt(g, next) = RecordAt(f, slot)
    BY <1>3, <1>12, <2>1, <2>2
  <2>4. QED
    BY <1>3, <2>1, <2>3 DEF Logged
<1>15. Logs(g, new) = [k \in 1..(m + 1) |-> Logged(g, SlotAt(new, k))]
  BY <1>7, <1>8 DEF Logs
<1>16. Logs(f, chain) = [k \in 1..m |-> Logged(f, SlotAt(chain, k))]
  BY DEF Logs, m
<1> HIDE DEF item
<1>17. Logs(g, new) = Append(Logs(f, chain), item)
  BY <1>1, <1>13, <1>14, <1>15, <1>16 DEF next
<1>18. Entered(f, g, chain, new, entry)
  BY <1>7, <1>8, <1>9 DEF Entered, next, m
<1>19. QED
  BY <1>9, <1>17, <1>18 DEF item, entry

(* Marking any entry leaves the bins where they are. *)
LEMMA MarkedBins ==
    ASSUME NEW f \in Image, NEW chain, Walked(f, chain),
           NEW slot \in DOMAIN f.cells, HasTag(f, slot, "entry"),
           NEW status \in Status, NEW g,
           LET marked == SetStatus(f, slot, status)
           IN  \/ g = marked
               \/ \E word \in {"numberDeletes", "numberAliasDeletes"} :
                      g = Count(marked, word)
    PROVE  /\ Walked(g, chain)
           /\ g.hdr["totalBins"] = f.hdr["totalBins"]
           /\ g.spilled = f.spilled
           /\ g.cells = [f.cells EXCEPT
                ![slot] = Entry(f.cells[slot].path, status, f.cells[slot].info,
                                f.cells[slot].type)]
<1> DEFINE cells == f.cells
           entry == Entry(cells[slot].path, status, cells[slot].info, cells[slot].type)
<1>1. cells \in Seq(Cell) /\ f.hdr \in Header
  BY ImageFields
<1>3. slot \in DOMAIN cells /\ cells[slot].tag = "entry"
  BY DEF HasTag
<1>4. g.cells = [cells EXCEPT ![slot] = entry] /\ g.hash = f.hash
      /\ \A w \in {"totalBins", "binsRemain", "nextBin"} : g.hdr[w] = f.hdr[w]
  <2> DEFINE marked == SetStatus(f, slot, status)
  <2>1. /\ marked.cells = [cells EXCEPT ![slot] = entry] /\ marked.hash = f.hash
        /\ marked.hdr = f.hdr
    BY DEF SetStatus
  <2>2. g = marked \/ \E word \in {"numberDeletes", "numberAliasDeletes"} :
                           g = Count(marked, word)
    OBVIOUS
  <2> HIDE DEF marked, entry, cells
  <2>3. g.cells = marked.cells /\ g.hash = marked.hash
        /\ \A w \in {"totalBins", "binsRemain", "nextBin"} :
               g.hdr[w] = marked.hdr[w]
    <3>1. CASE g = marked
      BY <3>1
    <3>2. ASSUME NEW word \in {"numberDeletes", "numberAliasDeletes"},
                 g = Count(marked, word)
          PROVE  /\ g.cells = marked.cells /\ g.hash = marked.hash
                 /\ \A w \in {"totalBins", "binsRemain", "nextBin"} :
                        g.hdr[w] = marked.hdr[w]
      BY <1>1, <2>1, <3>2 DEF Count, Header, HeaderWord
    <3>3. QED
      BY <2>2, <3>1, <3>2
  <2>4. QED
    BY <2>1, <2>3
<1>5. /\ entry.tag = "entry" /\ entry.path = cells[slot].path
      /\ entry.info = cells[slot].info /\ entry.status = status
  BY DEF Entry
<1> HIDE DEF entry, cells
<1>6. /\ \A j \in DOMAIN cells : j \in DOMAIN g.cells
      /\ \A j \in DOMAIN cells : j # slot => g.cells[j] = cells[j]
      /\ g.cells[slot] = entry
  BY <1>3, <1>4
<1>7. KeepsBins(f, g, chain)
  <2>1. Chained(cells, chain) /\ Len(chain) \in Nat
    BY DEF Walked, Chained, cells
  <2>2. \A n \in 1..Len(chain) : chain[n] + BlockSize - 1 \in DOMAIN g.cells
    BY <1>6, <2>1 DEF Chained
  <2>3. ASSUME NEW n \in 1..(Len(chain) - 1)
        PROVE  g.cells[chain[n] + BlockSize - 1] = cells[chain[n] + BlockSize - 1]
    <3>1. cells[chain[n] + BlockSize - 1] = Ptr(chain[n + 1])
      BY <2>1 DEF Chained
    <3>2. n \in 1..Len(chain)
      BY <2>1
    <3>3. chain[n] + BlockSize - 1 \in DOMAIN cells
      BY <2>1, <3>2 DEF Chained
    <3>4. chain[n] + BlockSize - 1 # slot
      BY <1>3, <3>1 DEF Ptr
    <3>5. QED
      BY <1>6, <3>3, <3>4
  <2>4. \A j \in DOMAIN cells : cells[j].tag = "entry" =>
            g.cells[j].tag = "entry" /\ g.cells[j].path = cells[j].path
    BY <1>5, <1>6
  <2>5. QED
    BY <1>4, <1>6, <2>2, <2>3, <2>4 DEF KeepsBins, cells
<1>8. Walked(g, chain)
  BY <1>7, WalkedKept
<1>9. g.spilled = f.spilled
  BY DEF SetStatus, Count
<1>10. QED
  BY <1>4, <1>8, <1>9 DEF entry, cells

(* A new status is the entry's in the list. *)
LEMMA MarkedWalk ==
    ASSUME NEW f, Safe(f), ~ f.spilled, NEW chain, Walked(f, chain),
           NEW i \in 1..f.hdr["totalBins"], NEW status \in Status, NEW g,
           LET marked == SetStatus(f, SlotAt(chain, i), status)
           IN  \/ g = marked
               \/ \E word \in {"numberDeletes", "numberAliasDeletes"} :
                      g = Count(marked, word)
    PROVE  /\ Walked(g, chain)
           /\ LET old == Logs(f, chain)[i]
              IN  Logs(g, chain) =
                    [Logs(f, chain) EXCEPT
                       ![i] = [path |-> old.path, type |-> old.type,
                               content |-> old.content, status |-> status]]
<1> DEFINE slot == SlotAt(chain, i)
           cells == f.cells
           base == f.hdr["fileSize"]
           m == f.hdr["totalBins"]
           entry == Entry(cells[slot].path, status, cells[slot].info, cells[slot].type)
           S(k) == SlotAt(chain, k)
<1>1. f \in Image /\ base \in Nat /\ cells \in Seq(Cell) /\ m \in Nat
      /\ f.hdr \in Header
  BY ImageFields DEF Safe, HeaderWord
<1>2. EntriesLead(cells, base)
  BY DEF Safe, Laid
<1>3. /\ \A k \in 1..m : S(k) \in DOMAIN cells /\ cells[S(k)].tag = "entry"
      /\ \A j, k \in 1..m : S(j) = S(k) => j = k
  BY DEF Walked, Filled
<1>4. /\ Walked(g, chain) /\ g.hdr["totalBins"] = m
      /\ g.cells = [cells EXCEPT ![slot] = entry]
  <2>1. slot \in DOMAIN f.cells /\ HasTag(f, slot, "entry")
    BY <1>3 DEF HasTag
  <2>2. \/ g = SetStatus(f, slot, status)
        \/ \E word \in {"numberDeletes", "numberAliasDeletes"} :
               g = Count(SetStatus(f, slot, status), word)
    OBVIOUS
  <2> HIDE DEF slot
  <2>3. QED
    BY <1>1, <2>1, <2>2, MarkedBins
<1>5. /\ entry.tag = "entry" /\ entry.path = cells[slot].path
      /\ entry.info = cells[slot].info /\ entry.status = status
  BY DEF Entry
<1> HIDE DEF entry, cells, base
<1>6. /\ \A j \in DOMAIN cells : j \in DOMAIN g.cells
      /\ \A j \in DOMAIN cells : j # slot => g.cells[j] = cells[j]
      /\ g.cells[slot] = entry
  BY <1>3, <1>4
<1>9. ASSUME NEW k \in 1..m
      PROVE  RecordAt(g, S(k)) = RecordAt(f, S(k))
  <2> DEFINE s == S(k)
  <2>1. s \in DOMAIN cells /\ cells[s].tag = "entry"
    BY <1>3
  <2> HIDE DEF s
  <2>2. s \in DOMAIN g.cells /\ g.cells[s].tag = "entry"
        /\ g.cells[s].info = cells[s].info
    BY <1>5, <1>6, <2>1
  <2>3. DataKept(cells, g.cells, base)
    BY <1>3, <1>6 DEF DataKept
  <2>4. Leads(cells, cells[s].info, cells[s].type, base)
    BY <1>2, <2>1 DEF EntriesLead
  <2>5. HasTag(f, s, "entry") /\ HasTag(g, s, "entry")
    BY <2>1, <2>2 DEF HasTag, cells
  <2>6. /\ f \in Image /\ base \in Nat /\ DataKept(f.cells, g.cells, base)
        /\ Leads(f.cells, f.cells[s].info, f.cells[s].type, base)
        /\ g.cells[s].info = f.cells[s].info
    BY <1>1, <2>2, <2>3, <2>4 DEF cells
  <2>7. RecordAt(g, s) = RecordAt(f, s)
    BY <2>5, <2>6, RecordKept
  <2>8. QED
    BY <2>7 DEF s
<1>10. ASSUME NEW k \in 1..m, k # i
       PROVE  Logged(g, S(k)) = Logged(f, S(k))
  <2>1. g.cells[S(k)] = cells[S(k)]
    BY <1>3, <1>6, <1>10
  <2>2. QED
    BY <1>9, <2>1 DEF Logged, cells
<1>11. g.cells[S(i)] = entry /\ RecordAt(g, S(i)) = RecordAt(f, S(i))
  BY <1>6, <1>9
<1> DEFINE old == Logged(f, S(i))
           item == [path |-> old.path, type |-> old.type,
                    content |-> old.content, status |-> status]
<1>12. Logged(g, S(i)) = item
  BY <1>5, <1>11 DEF Logged, cells
<1>13. Logs(g, chain) = [k \in 1..m |-> Logged(g, S(k))]
  BY <1>4 DEF Logs
<1>14. Logs(f, chain) = [k \in 1..m |-> Logged(f, S(k))]
  BY DEF Logs
<1> HIDE DEF S, m, item
<1>15. Logs(g, chain) = [Logs(f, chain) EXCEPT ![i] = item]
  BY <1>10, <1>12, <1>13, <1>14 DEF m
<1>16. QED
  BY <1>4, <1>15, <1>14 DEF item, m

(* Every operation leaves a file that can be walked. *)
LEMMA WalkableChange ==
    ASSUME NEW f, Walkable(f), NEW g, Change(f, g)
    PROVE  Walkable(g)
<1>1. Safe(g)
  BY ChangeSafe DEF Walkable
<1>2. SUFFICES ASSUME ~ g.spilled
               PROVE  \E chain : Walked(g, chain)
  BY <1>1 DEF Walkable
<1>3. ~ f.spilled
  BY <1>2, SpilledStays
<1>4. PICK chain : Walked(f, chain)
  BY <1>3 DEF Walkable
<1>5. Safe(f) /\ f \in Image
  BY DEF Walkable, Safe
<1>6. CASE Stored(f, g)
  <2>1. PICK path \in Path, rec \in Record : g = StoreRecord(f, path, rec)
    BY <1>6 DEF Stored
  <2>2. ~ StoreRecord(f, path, rec).spilled
    BY <1>2, <2>1
  <2>3. QED
    BY <1>3, <1>4, <1>5, <2>1, <2>2, StoredWalk
<1>7. CASE Aliased(f, g)
  BY <1>3, <1>4, <1>5, <1>7, AliasedWalk DEF Aliased
<1>8. CASE Marked(f, g)
  <2>1. PICK slot \in DOMAIN f.cells, status \in Status :
          /\ HasTag(f, slot, "entry")
          /\ \/ g = SetStatus(f, slot, status)
             \/ \E word \in {"numberDeletes", "numberAliasDeletes"} :
                    g = Count(SetStatus(f, slot, status), word)
    BY <1>8 DEF Marked
  <2>2. QED
    BY <1>4, <1>5, <2>1, MarkedBins
<1>9. QED
  BY <1>4, <1>6, <1>7, <1>8 DEF Change

(* The bins of a new file can be walked. *)
LEMMA NewFileWalkable == Walkable(NewFile)
  BY NewFileWalked, NewFileSafe DEF Walkable

-----------------------------------------------------------------------------
(* The catalog: the live entries in the order of the bins.                 *)

\* Which entries are live.
LiveAt(f, chain) ==
    {i \in 1..f.hdr["totalBins"] : f.cells[SlotAt(chain, i)].status \in {"PRIMARY", "ALIAS"}}

(* The catalog has the entries that are live, in their order. *)
LEMMA CatalogPlaces ==
    ASSUME NEW f, Safe(f), ~ f.spilled, NEW chain, Walked(f, chain)
    PROVE  LET m == f.hdr["totalBins"]
               at == LiveAt(f, chain)
           IN  /\ m \in Nat
               /\ Catalog(f) \in Seq(Cell)
               /\ Enumerates(Positions(at, m), at, m)
               /\ Len(Catalog(f)) = Len(Positions(at, m))
               /\ \A i \in 1..Len(Catalog(f)) :
                      Catalog(f)[i] = f.cells[SlotAt(chain, Positions(at, m)[i])]
<1> DEFINE m == f.hdr["totalBins"]
           slots == SlotsOf(chain, m)
           entries == [i \in 1..m |-> f.cells[SlotAt(chain, i)]]
           at == LiveAt(f, chain)
<1>1. f \in Image /\ LaidOut(f)
  BY DEF Safe, LaidOut, LaidTo
<1>2. ReadAllBins(f) = slots /\ m \in Nat
  BY <1>1, WalkFinds
<1>3. Len(slots) = m /\ \A i \in 1..m : slots[i] = SlotAt(chain, i)
  BY <1>2 DEF SlotsOf
<1> HIDE DEF slots
<1>4. [i \in 1..Len(slots) |-> f.cells[slots[i]]] = entries
  BY <1>3
<1>5. \A i \in 1..m : f.cells[SlotAt(chain, i)] \in Cell
  BY <1>1, ImageFields DEF Walked, Filled
<1>6. entries \in Seq(Cell) /\ Len(entries) = m /\ DOMAIN entries = 1..m
  <2>1. entries \in [1..m -> Cell] /\ DOMAIN entries = 1..m
    BY <1>5
  <2> HIDE DEF entries, m
  <2>2. QED
    BY <1>2, <2>1, FunctionIsSeq
<1>7. {i \in DOMAIN entries : IsLive(entries[i])} = at
  BY <1>6 DEF IsLive, LiveAt
<1>8. Catalog(f) = Selected(entries, at)
  BY <1>2, <1>4, <1>7 DEF Catalog
<1>9. at \subseteq 1..m
  BY DEF LiveAt
<1>10. \A i \in 1..m : entries[i] = f.cells[SlotAt(chain, i)]
  OBVIOUS
<1> HIDE DEF entries, at, m
<1>11. Catalog(f) \in Seq(Cell)
  BY <1>6, <1>8, <1>9, SelectedType
<1>12. /\ Enumerates(Positions(at, m), at, m)
       /\ At(Positions(at, m), Catalog(f), entries)
  BY <1>6, <1>8, <1>9, SelectedPositions
<1>13. Len(Catalog(f)) = Len(Positions(at, m))
  BY <1>12 DEF At
<1>14. ASSUME NEW i \in 1..Len(Catalog(f))
       PROVE  Catalog(f)[i] = f.cells[SlotAt(chain, Positions(at, m)[i])]
  <2>1. Positions(at, m)[i] \in 1..m
    BY <1>9, <1>12, <1>13 DEF Enumerates
  <2>2. Catalog(f)[i] = entries[Positions(at, m)[i]]
    BY <1>12, <1>13 DEF At
  <2>3. QED
    BY <1>10, <2>1, <2>2
<1>15. QED
  BY <1>2, <1>11, <1>12, <1>13, <1>14 DEF m, at

(* The catalog of a file that can be walked is a list of cells. *)
LEMMA CatalogType ==
    ASSUME NEW f, Walkable(f), ~ f.spilled
    PROVE  Catalog(f) \in Seq(Cell) /\ Len(Catalog(f)) \in Nat
  BY CatalogPlaces DEF Walkable

-----------------------------------------------------------------------------
(* What is read under a name, by the list of the entries.                  *)

(* What the list has of each entry, and the hash table of each hash. *)
LEMMA LogsFields ==
    ASSUME NEW f \in Image, NEW chain, Walked(f, chain),
           NEW list, list = Logs(f, chain)
    PROVE  LET m == f.hdr["totalBins"]
           IN  /\ m \in Nat /\ DOMAIN list = 1..m /\ Len(list) = m
               /\ \A k \in 1..m :
                      /\ HasTag(f, SlotAt(chain, k), "entry")
                      /\ SlotAt(chain, k) # 0
                      /\ list[k] = Logged(f, SlotAt(chain, k))
                      /\ list[k].path = f.cells[SlotAt(chain, k)].path
                      /\ list[k].status = f.cells[SlotAt(chain, k)].status
               /\ \A h \in 0..MaxHash-1 :
                      \/ /\ f.hash[h] = 0
                         /\ \A k \in 1..m : TableHash[list[k].path] # h
                      \/ \E k \in 1..m :
                             /\ f.hash[h] = SlotAt(chain, k)
                             /\ TableHash[list[k].path] = h
                             /\ \A j \in 1..(k - 1) : TableHash[list[j].path] # h
<1> DEFINE m == f.hdr["totalBins"]
<1>1. f.cells \in Seq(Cell) /\ Filled(f.cells, chain, m)
      /\ Hashed(f.hash, f.cells, chain, m) /\ list = Logs(f, chain)
  BY ImageFields DEF Walked
<1>2. m \in Nat /\ list = [k \in 1..m |-> Logged(f, SlotAt(chain, k))]
  BY <1>1 DEF Logs, Filled
<1> HIDE DEF m
<1>3. DOMAIN list = 1..m /\ Len(list) = m
  BY <1>2
<1>4. ASSUME NEW k \in 1..m
      PROVE  /\ HasTag(f, SlotAt(chain, k), "entry") /\ SlotAt(chain, k) # 0
             /\ list[k] = Logged(f, SlotAt(chain, k))
             /\ list[k].path = f.cells[SlotAt(chain, k)].path
             /\ list[k].status = f.cells[SlotAt(chain, k)].status
             /\ TableHash[list[k].path] = HashAt(f.cells, chain, k)
  <2>1. SlotAt(chain, k) \in DOMAIN f.cells
        /\ f.cells[SlotAt(chain, k)].tag = "entry"
    BY <1>1 DEF Filled
  <2>2. SlotAt(chain, k) # 0
    BY <1>1, <2>1
  <2>3. list[k] = Logged(f, SlotAt(chain, k))
    BY <1>2
  <2>4. QED
    BY <2>1, <2>2, <2>3 DEF HasTag, Logged, HashAt
<1>5. ASSUME NEW h \in 0..MaxHash-1
      PROVE  \/ /\ f.hash[h] = 0
                /\ \A k \in 1..m : TableHash[list[k].path] # h
             \/ \E k \in 1..m :
                    /\ f.hash[h] = SlotAt(chain, k)
                    /\ TableHash[list[k].path] = h
                    /\ \A j \in 1..(k - 1) : TableHash[list[j].path] # h
  <2>1. CASE f.hash[h] = 0 /\ \A k \in 1..m : HashAt(f.cells, chain, k) # h
    BY <1>4, <2>1
  <2>2. ASSUME NEW k \in 1..m, f.hash[h] = SlotAt(chain, k),
               FirstOf(h, k, f.cells, chain)
        PROVE  /\ TableHash[list[k].path] = h
               /\ \A j \in 1..(k - 1) : TableHash[list[j].path] # h
    <3>1. \A j \in 1..(k - 1) : j \in 1..m
      BY <1>2
    <3>2. QED
      BY <1>4, <2>2, <3>1 DEF FirstOf
  <2>3. QED
    BY <1>1, <2>1, <2>2 DEF Hashed
<1>6. QED
  BY <1>2, <1>3, <1>4, <1>5 DEF m

\* The list has no name of x's table hash; its k-th entry is the first that has.
NoneOf(list, x) ==
    \A k \in 1..Len(list) : TableHash[list[k].path] # TableHash[x]
FirstFor(list, k, x) ==
    /\ k \in 1..Len(list)
    /\ TableHash[list[k].path] = TableHash[x]
    /\ \A j \in 1..(k - 1) : TableHash[list[j].path] # TableHash[x]

\* What is read through an entry of the list, or NoRecord if its name is another.
ReadThrough(list, k, x) ==
    IF list[k].path = x THEN [type |-> list[k].type, content |-> list[k].content]
                        ELSE NoRecord

\* What a file has of a name is what the list says.
SaidOf(f, list, x) ==
    \/ NoneOf(list, x) /\ HashSlot(f, x) = 0 /\ ReadRecord(f, x) = NoRecord
    \/ \E k \in 1..Len(list) :
           /\ FirstFor(list, k, x)
           /\ HashSlot(f, x) # 0
           /\ ReadRecord(f, x) = ReadThrough(list, k, x)

(* A name reads the record of the first entry of its table hash, if that   *)
(* entry has this name.                                                    *)
LEMMA ListIsRead ==
    ASSUME NEW f \in Image, NEW chain, Walked(f, chain), NEW x \in Path
    PROVE  SaidOf(f, Logs(f, chain), x)
<1> DEFINE m == f.hdr["totalBins"]
           h == TableHash[x]
           list == Logs(f, chain)
<1>1. /\ m \in Nat /\ Len(list) = m
      /\ \A k \in 1..m : /\ HasTag(f, SlotAt(chain, k), "entry")
                         /\ SlotAt(chain, k) # 0
                         /\ list[k] = Logged(f, SlotAt(chain, k))
                         /\ list[k].path = f.cells[SlotAt(chain, k)].path
  BY LogsFields
<1>2. \/ f.hash[h] = 0 /\ \A k \in 1..m : TableHash[list[k].path] # h
      \/ \E k \in 1..m : /\ f.hash[h] = SlotAt(chain, k)
                         /\ TableHash[list[k].path] = h
                         /\ \A j \in 1..(k - 1) : TableHash[list[j].path] # h
  <2>1. h \in 0..MaxHash-1
    BY ImageAssumption
  <2> HIDE DEF h, m, list
  <2>2. QED
    BY <2>1, LogsFields DEF m, list
<1>3. HashSlot(f, x) = f.hash[h]
  BY DEF HashSlot
<1>4. RecordAt(f, 0) = NoRecord /\ ~ HasTag(f, 0, "entry")
  <2>1. f.cells \in Seq(Cell)
    BY ImageFields
  <2>2. QED
    BY <2>1 DEF RecordAt, HasInfo, HasTag
<1> HIDE DEF list, m
<1>5. CASE f.hash[h] = 0 /\ \A k \in 1..m : TableHash[list[k].path] # h
  <2>1. NoneOf(list, x)
    BY <1>1, <1>5 DEF NoneOf
  <2>2. FindRecord(f, x) = 0
    BY <1>3, <1>4, <1>5 DEF FindRecord
  <2>3. QED
    BY <1>3, <1>4, <1>5, <2>1, <2>2 DEF SaidOf, ReadRecord, list
<1>6. ASSUME NEW k \in 1..m, f.hash[h] = SlotAt(chain, k),
             TableHash[list[k].path] = h,
             \A j \in 1..(k - 1) : TableHash[list[j].path] # h
      PROVE  SaidOf(f, list, x)
  <2> DEFINE slot == SlotAt(chain, k)
  <2>1. FirstFor(list, k, x)
    BY <1>1, <1>6 DEF FirstFor
  <2>2. /\ HasTag(f, slot, "entry") /\ slot # 0 /\ HashSlot(f, x) = slot
        /\ list[k] = Logged(f, slot) /\ list[k].path = f.cells[slot].path
    BY <1>1, <1>3, <1>6
  <2> HIDE DEF slot
  <2>3. FindRecord(f, x) = IF list[k].path = x THEN slot ELSE 0
    BY <2>2 DEF FindRecord
  <2>4. RecordAt(f, slot) = [type |-> list[k].type, content |-> list[k].content]
    <3>1. /\ list[k].type = RecordAt(f, slot).type
          /\ list[k].content = RecordAt(f, slot).content
      BY <2>2 DEF Logged
    <3>2. RecordAt(f, slot) = [type |-> RecordAt(f, slot).type,
                               content |-> RecordAt(f, slot).content]
      BY DEF RecordAt, NoRecord
    <3>3. QED
      BY <3>1, <3>2
  <2>5. ReadRecord(f, x) = ReadThrough(list, k, x)
    BY <1>4, <2>3, <2>4 DEF ReadRecord, ReadThrough
  <2>6. QED
    BY <1>1, <2>1, <2>2, <2>5 DEF SaidOf
<1>7. QED
  BY <1>2, <1>5, <1>6 DEF list

\* What storing rec under path makes of what is read under x.
ReadAfterStore(f, g, path, rec, x) ==
    /\ HashSlot(g, x) # 0 <=>
           HashSlot(f, x) # 0 \/ TableHash[x] = TableHash[path]
    /\ ReadRecord(g, x) = IF HashSlot(f, x) # 0 THEN ReadRecord(f, x)
                          ELSE IF x = path THEN rec
                          ELSE NoRecord

(* An entry that comes last in the list is what a name of its hash reads if
   there was none before, and only this name. *)
LEMMA AppendIsRead ==
    ASSUME NEW f, NEW g, NEW s, NEW n \in Nat, Len(s) = n, s = [k \in 1..n |-> s[k]],
           NEW e, NEW x,
           SaidOf(f, s, x), SaidOf(g, Append(s, e), x)
    PROVE  ReadAfterStore(f, g, e.path, [type |-> e.type, content |-> e.content], x)
<1> DEFINE t == Append(s, e)
           rec == [type |-> e.type, content |-> e.content]
           path == e.path
<1>1. /\ Len(t) = n + 1 /\ t[n + 1] = e
      /\ \A k \in 1..n : t[k] = s[k]
  OBVIOUS
<1>4. SaidOf(f, s, x) /\ SaidOf(g, t, x)
  OBVIOUS
<1> HIDE DEF t
<1>9. CASE NoneOf(s, x) /\ HashSlot(f, x) = 0 /\ ReadRecord(f, x) = NoRecord
  <2>1. CASE TableHash[path] # TableHash[x]
    <3>1. \A k \in 1..(n + 1) : TableHash[t[k].path] # TableHash[x]
      BY <1>1, <1>9, <2>1 DEF NoneOf
    <3>2. HashSlot(g, x) = 0 /\ ReadRecord(g, x) = NoRecord
      BY <1>1, <1>4, <3>1 DEF SaidOf, FirstFor
    <3> QED
      BY <1>9, <2>1, <3>2 DEF ReadAfterStore
  <2>2. CASE TableHash[path] = TableHash[x]
    <3>1. ~ NoneOf(t, x)
      BY <1>1, <2>2 DEF NoneOf
    <3>2. \A k \in 1..n : TableHash[t[k].path] # TableHash[x]
      BY <1>1, <1>9 DEF NoneOf
    <3>3. \A k \in 1..Len(t) : FirstFor(t, k, x) => k = n + 1
      BY <1>1, <3>2 DEF FirstFor
    <3>4. HashSlot(g, x) # 0 /\ ReadRecord(g, x) = ReadThrough(t, n + 1, x)
      BY <1>4, <3>1, <3>3 DEF SaidOf
    <3>5. ReadThrough(t, n + 1, x) = IF x = path THEN rec ELSE NoRecord
      BY <1>1 DEF ReadThrough
    <3> QED
      BY <1>9, <2>2, <3>4, <3>5 DEF ReadAfterStore
  <2> QED
    BY <2>1, <2>2
<1>10. ASSUME NEW k \in 1..n, FirstFor(s, k, x), HashSlot(f, x) # 0,
              ReadRecord(f, x) = ReadThrough(s, k, x)
       PROVE  ReadAfterStore(f, g, path, rec, x)
  <2>1. t[k] = s[k] /\ \A j \in 1..(k - 1) : t[j] = s[j]
    BY <1>1
  <2>2. FirstFor(t, k, x)
    <3>1. k \in 1..Len(t)
      BY <1>1
    <3> QED
      BY <1>10, <2>1, <3>1 DEF FirstFor
  <2>3. \A j \in 1..Len(t) : FirstFor(t, j, x) => j = k
    BY <1>1, <1>10, <2>2 DEF FirstFor
  <2>4. ~ NoneOf(t, x)
    BY <2>2 DEF NoneOf, FirstFor
  <2>5. HashSlot(g, x) # 0 /\ ReadRecord(g, x) = ReadThrough(t, k, x)
    BY <1>4, <2>3, <2>4 DEF SaidOf
  <2>6. ReadThrough(t, k, x) = ReadThrough(s, k, x)
    BY <2>1 DEF ReadThrough
  <2> QED
    BY <1>10, <2>5, <2>6 DEF ReadAfterStore
<1> QED
  BY <1>4, <1>9, <1>10 DEF SaidOf

(* A record that is stored is read if its table hash was free; no other    *)
(* name reads anything else than before.                                   *)
LEMMA StoreIsRead ==
    ASSUME NEW f, Walkable(f), NEW path \in Path, NEW rec \in Record,
           ~ StoreRecord(f, path, rec).spilled, NEW x \in Path
    PROVE  ReadAfterStore(f, StoreRecord(f, path, rec), path, rec, x)
<1> DEFINE g == StoreRecord(f, path, rec)
           e == [path |-> path, type |-> rec.type, content |-> rec.content,
                 status |-> "PRIMARY"]
<1>1. ~ f.spilled /\ Safe(f) /\ f \in Image /\ g \in Image
  BY SpilledStays, StoreRecordType DEF Walkable, Safe, Change, Stored
<1>2. PICK chain : Walked(f, chain)
  BY <1>1 DEF Walkable
<1>3. Walked(g, chain) /\ Logs(g, chain) = Append(Logs(f, chain), e)
  BY <1>1, <1>2, StoredWalk
<1> DEFINE s == Logs(f, chain)
           t == Logs(g, chain)
           n == Len(s)
<1>4. SaidOf(f, s, x) /\ SaidOf(g, t, x)
  BY <1>1, <1>2, <1>3, ListIsRead
<1>5. n \in Nat /\ s = [k \in 1..n |-> s[k]] /\ t = Append(s, e)
  <2>1. f.hdr["totalBins"] \in Nat /\ n = f.hdr["totalBins"]
    BY <1>1, <1>2, LogsFields
  <2>2. s = [k \in 1..n |-> Logged(f, SlotAt(chain, k))]
    BY <2>1 DEF Logs
  <2> HIDE DEF s, n
  <2>3. s = [k \in 1..n |-> s[k]]
    BY <2>2
  <2>4. QED
    BY <1>3, <2>1, <2>3 DEF s
<1>6. [type |-> e.type, content |-> e.content] = rec /\ e.path = path
  BY DEF Record
<1> HIDE DEF g, e, s, t, n
<1>7. ReadAfterStore(f, g, e.path, [type |-> e.type, content |-> e.content], x)
  BY <1>4, <1>5, AppendIsRead DEF n
<1>8. QED
  BY <1>6, <1>7 DEF g

(* Cells in use and the hash table are all that a reader looks at. *)
LEMMA SameReads ==
    ASSUME NEW f, NEW g, f.cells = g.cells, f.hash = g.hash, NEW x
    PROVE  ReadRecord(f, x) = ReadRecord(g, x)
<1>1. \A i, t : HasTag(f, i, t) <=> HasTag(g, i, t)
  BY DEF HasTag
<1>2. FindRecord(f, x) = FindRecord(g, x)
  BY <1>1 DEF FindRecord, HashSlot
<1>3. \A i : ReadArea(f, i) = ReadArea(g, i)
  BY <1>1 DEF ReadArea
<1>4. \A slot : RecordAt(f, slot) = RecordAt(g, slot)
  BY <1>1, <1>3 DEF RecordAt, HasInfo
<1> QED
  BY <1>2, <1>4 DEF ReadRecord

(* A name reads the same, nothing included, in a file with the same hash
   table where the entries lead to the same place and what they lead to is as
   it was: an entry that the hash table names for another name stays one. *)
LEMMA AlikeReads ==
    ASSUME NEW f, Walkable(f), ~ f.spilled, NEW g \in Image,
           g.hash = f.hash,
           \A i \in DOMAIN f.cells :
               /\ f.cells[i].tag = "entry" =>
                      /\ i \in DOMAIN g.cells
                      /\ g.cells[i].tag = "entry"
                      /\ g.cells[i].path = f.cells[i].path
                      /\ g.cells[i].info = f.cells[i].info
               /\ i < f.hdr["fileSize"] /\ f.cells[i].tag \in {"info", "data"} =>
                      i \in DOMAIN g.cells /\ g.cells[i] = f.cells[i],
           NEW x \in Path
    PROVE  ReadRecord(g, x) = ReadRecord(f, x)
<1> DEFINE size == f.hdr["fileSize"]
           slot == HashSlot(f, x)
<1>1. f \in Image /\ size \in Nat /\ EntriesLead(f.cells, size) /\ f.cells \in Seq(Cell)
  BY ImageFields DEF Walkable, Safe, Laid
<1>2. CASE ReadRecord(f, x) # NoRecord
  <2>1. HashKept(f.hash, g.hash)
    BY DEF HashKept
  <2> QED
    BY <1>1, <1>2, <2>1, ReadingKept
<1>3. CASE ReadRecord(f, x) = NoRecord
  <2>1. PICK chain : Walked(f, chain)
    BY DEF Walkable
  <2>2. TableHash[x] \in 0..MaxHash-1
    BY ImageAssumption
  <2>3. slot = 0 \/ HasTag(f, slot, "entry")
    BY <1>1, <2>1, <2>2, LogsFields DEF HashSlot
  <2>4. HashSlot(g, x) = slot
    BY DEF HashSlot
  <2>5. RecordAt(g, 0) = NoRecord /\ ~ HasTag(g, 0, "entry")
    <3>1. g.cells \in Seq(Cell)
      BY ImageFields
    <3> QED
      BY <3>1 DEF RecordAt, HasInfo, HasTag
  <2>6. HasTag(f, slot, "entry") => f.cells[slot].path # x
    <3> SUFFICES ASSUME HasTag(f, slot, "entry"), f.cells[slot].path = x
                 PROVE  FALSE
      OBVIOUS
    <3>1. FindRecord(f, x) = slot
      BY DEF FindRecord
    <3>2. Leads(f.cells, f.cells[slot].info, f.cells[slot].type, size)
      BY <1>1 DEF EntriesLead, HasTag
    <3>3. HasInfo(f, slot)
      BY <3>2 DEF HasInfo, HasTag, Leads
    <3>4. RecordAt(f, slot) # NoRecord
      <4>1. f.cells[f.cells[slot].info].type \in RecordType
        BY <1>1, <3>2 DEF Leads, Cell, Zero, EofFlag
      <4>2. 0 \notin RecordType
        BY DEF RecordType, TEXT, RTD, ITD, PDD, ARRAY, LOCATION, GRID
      <4>3. RecordAt(f, slot).type = f.cells[f.cells[slot].info].type
        BY <3>3 DEF RecordAt
      <4>4. NoRecord.type = 0
        BY DEF NoRecord
      <4> QED
        BY <4>1, <4>2, <4>3, <4>4
    <3> QED
      BY <1>3, <3>1, <3>4 DEF ReadRecord
  <2>7. HasTag(f, slot, "entry") => HasTag(g, slot, "entry") /\ g.cells[slot].path # x
    BY <2>6 DEF HasTag
  <2>8. FindRecord(g, x) = 0
    <3> HIDE DEF slot
    <3> QED
      BY <2>3, <2>4, <2>5, <2>7 DEF FindRecord
  <2> QED
    BY <1>3, <2>5, <2>8 DEF ReadRecord
<1> QED
  BY <1>2, <1>3

(* A file in which all cells in use are in place, and the hash table, is read
   alike. *)
LEMMA KeptReads ==
    ASSUME NEW f, Walkable(f), ~ f.spilled, NEW g \in Image,
           CellsKept(f.cells, g.cells, f.hdr["fileSize"]), g.hash = f.hash,
           NEW x \in Path
    PROVE  ReadRecord(g, x) = ReadRecord(f, x)
<1> DEFINE size == f.hdr["fileSize"]
<1>1. EntriesLead(f.cells, size)
  BY DEF Walkable, Safe, Laid
<1> HIDE DEF size
<1>2. \A i \in DOMAIN f.cells :
          /\ f.cells[i].tag = "entry" => i < size
          /\ f.cells[i].tag \in {"entry", "info", "data"} => f.cells[i] # Zero
  BY <1>1 DEF EntriesLead, Zero
<1>3. \A i \in DOMAIN f.cells :
         /\ f.cells[i].tag = "entry" =>
                /\ i \in DOMAIN g.cells
                /\ g.cells[i].tag = "entry"
                /\ g.cells[i].path = f.cells[i].path
                /\ g.cells[i].info = f.cells[i].info
         /\ i < f.hdr["fileSize"] /\ f.cells[i].tag \in {"info", "data"} =>
                i \in DOMAIN g.cells /\ g.cells[i] = f.cells[i]
  BY <1>2 DEF CellsKept, size
<1> QED
  BY <1>3, AlikeReads

(* A name is not found where its hash slot leads nowhere. *)
LEMMA NoSlotNoRecord ==
    ASSUME NEW f \in Image, NEW x, HashSlot(f, x) = 0
    PROVE  ReadRecord(f, x) = NoRecord
<1>1. f.cells \in Seq(Cell)
  BY ImageFields
<1>2. ~ HasTag(f, 0, "entry")
  BY <1>1 DEF HasTag
<1>3. FindRecord(f, x) = 0
  BY DEF FindRecord
<1> QED
  BY <1>2, <1>3 DEF ReadRecord, RecordAt, HasInfo
=============================================================================
