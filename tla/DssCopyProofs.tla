--------------------------- MODULE DssCopyProofs ----------------------------
(***************************************************************************)
(* Theorems about DssCopy, for every value of its constants: any records,  *)
(* names and hash functions, any listing that dss-convert is given.        *)
(***************************************************************************)
EXTENDS DssCopy, DssImageProofs

\* The inductive invariant.
CopyInv ==
    /\ Safe(src) /\ Safe(dest) /\ before \in Image
    /\ op \in {"idle", "copy", "convert"}
    /\ copied \in Nat /\ skipped \in Nat
    /\ op = "convert" => todo \in Seq(Listed)
    /\ CopiedAreRecords

(* What is copied for a record that is found is a record. *)
LEMMA CopyFormType ==
    ASSUME NEW rec \in Record
    PROVE  CopyForm(rec) \in Record
<1>1. /\ rec.type \in RecordType
      /\ \A a \in Area : rec.content[a] \in Payload
      /\ {Empty, Garbled, "subtype"} \subseteq Payload
  BY DEF Record, Content, Payload, Token
<1>2. ReadText(rec) \in Payload
  BY <1>1 DEF ReadText, Area
<1>3. /\ TextRecord(ReadText(rec)) \in Record
      /\ TsRecord(rec.content["v1"], rec.content["ih"]) \in Record
      /\ PdRecord(rec.content["v1"], rec.content["v2"], rec.content["ih"],
                  Empty) \in Record
  BY <1>1, <1>2, RecordTypes DEF Area
<1>4. /\ ReadArray(rec) \in Content
      /\ ReadLocation(rec) \in Content
      /\ ReadGrid(rec) \in Content
  BY <1>1 DEF ReadArray, ReadLocation, ReadGrid, ReadAreas, Content
<1>5. [ReadArray(rec) EXCEPT !["ih"] = "subtype"] \in Content
  BY <1>1, <1>4 DEF Content
<1>6. \A c \in Content : [type |-> rec.type, content |-> c] \in Record
  BY <1>1 DEF Record
<1>7. QED
  BY <1>3, <1>4, <1>5, <1>6 DEF CopyForm

(* A transfer leaves the destination alone or stores one record in it. *)
LEMMA TransferStores ==
    ASSUME CopyInv, NEW path \in Path, NEW rec \in Record,
           NEW writes \in BOOLEAN, Transfer(path, rec, writes)
    PROVE  /\ ~ writes => dest' = dest
           /\ writes =>
                /\ Stored(dest, dest')
                /\ dest'.hdr["numberRecords"] = dest.hdr["numberRecords"] + 1
                /\ dest'.hdr["totalBins"] = dest.hdr["totalBins"] + 1
<1>1. CopyForm(rec) \in Record /\ dest \in Image
  BY CopyFormType DEF CopyInv, Safe
<1>2. CASE writes
  <2>1. dest' = StoreRecord(dest, path, CopyForm(rec))
    BY <1>2 DEF Transfer
  <2>2. QED
    BY <1>1, <1>2, <2>1, StoreRecordWords DEF Stored
<1>3. CASE ~ writes
  BY <1>3 DEF Transfer
<1>4. QED
  BY <1>2, <1>3

(* So does a transfer of what the source reads for a name. *)
LEMMA ReadingTransfers ==
    ASSUME CopyInv, NEW path,
           Transfer(path, ReadRecord(src, path), CopyCopies(ReadRecord(src, path)))
    PROVE  LET writes == CopyCopies(ReadRecord(src, path))
           IN  /\ ~ writes => dest' = dest
               /\ writes =>
                    /\ Stored(dest, dest')
                    /\ dest'.hdr["numberRecords"] = dest.hdr["numberRecords"] + 1
                    /\ dest'.hdr["totalBins"] = dest.hdr["totalBins"] + 1
<1> DEFINE rec == ReadRecord(src, path)
<1>1. CopyCopies(rec) \in BOOLEAN
  BY DEF CopyCopies
<1>2. ~ CopyCopies(NoRecord)
  BY DEF CopyCopies, NoRecord, IsText, IsTimeSeries, IsPairedData, IsArray,
         IsLocation, IsGrid
<1>3. CASE rec = NoRecord
  <2>1. dest' = dest
    BY <1>2, <1>3 DEF Transfer
  <2>2. QED
    BY <1>2, <1>3, <2>1
<1>4. CASE rec # NoRecord
  <2>1. path \in Path /\ rec \in Record
    BY <1>4, ReadRecordType DEF CopyInv, Safe
  <2> HIDE DEF rec
  <2>2. Transfer(path, rec, CopyCopies(rec))
    BY DEF rec
  <2>3. QED
    BY <1>1, <2>1, <2>2, TransferStores DEF rec
<1>5. QED
  BY <1>3, <1>4

(* What dss-convert writes are records. *)
LEMMA ForeignRecords == Foreign \subseteq Record
<1>1. /\ {"units", "ordinates", Empty} \subseteq Payload
      /\ Value \subseteq Payload
  BY DEF Payload, Token
<1>2. \A v \in Value : /\ TextRecord(v) \in Record
                        /\ TsRecord(v, "units") \in Record
                        /\ PdRecord("ordinates", v, "units", Empty) \in Record
  BY <1>1, RecordTypes
<1>3. TextRecord(Empty) \in Record /\ TsRecord(Empty, "units") \in Record
  BY <1>1, RecordTypes
<1>4. QED
  BY <1>2, <1>3 DEF Foreign

(* The operators on images are the same in Source and Target. *)
LEMMA SourceEnters ==
    ASSUME NEW f, NEW entry
    PROVE  Source!EnterBin(f, entry) = EnterBin(f, entry)
<1>1. \A h : Source!TakeSlot(h, entry) = TakeSlot(h, entry)
  BY DEF TakeSlot, Source!TakeSlot
<1>2. Source!AllocateNewBinBlock(f) = AllocateNewBinBlock(f)
  BY Zenon DEF AllocateNewBinBlock, Source!AllocateNewBinBlock,
               Extent, Source!Extent, CellAt, Source!CellAt, Zero, Source!Zero,
               Ptr, Source!Ptr, BlockSize, Source!BlockSize
<1>3. QED
  BY <1>1, <1>2 DEF EnterBin, Source!EnterBin

(* The operators of the two instances are those of DssImage. *)
LEMMA SourceStores ==
    ASSUME NEW f, NEW path, NEW rec
    PROVE  Source!StoreRecord(f, path, rec) = StoreRecord(f, path, rec)
<1>1. Source!Size(rec.content) = Size(rec.content)
  BY DEF Size, Source!Size, Offset, Source!Offset, Present, Source!Present,
         Empty, Source!Empty
<1>2. \A cells, base :
         Source!WriteRecord(cells, base, path, rec) = WriteRecord(cells, base, path, rec)
  BY Zenon DEF WriteRecord, Source!WriteRecord, Layout, Source!Layout,
               Size, Source!Size, Offset, Source!Offset, Present, Source!Present,
               Extent, Source!Extent, CellAt, Source!CellAt, Info, Source!Info,
               Data, Source!Data, EofFlag, Source!EofFlag, Zero, Source!Zero,
               Area, Source!Area, Empty, Source!Empty
<1>3. \A h, base :
         Source!WriteBinEntry(h, path, base, rec.type)
           = WriteBinEntry(h, path, base, rec.type)
  BY SourceEnters DEF WriteBinEntry, Source!WriteBinEntry, Entry, Source!Entry
<1>4. QED
  BY <1>1, <1>2, <1>3 DEF StoreRecord, Source!StoreRecord

(* As above, for a lookup in the source. *)
LEMMA SourceLooks ==
    ASSUME NEW f, NEW path
    PROVE  Source!FindRecord(f, path) = FindRecord(f, path)
  BY DEF FindRecord, Source!FindRecord, HasTag, Source!HasTag,
         HashSlot, Source!HashSlot

(* As above, for a status set in the source. *)
LEMMA SourceMarks ==
    ASSUME NEW f, NEW slot, NEW status
    PROVE  Source!SetStatus(f, slot, status) = SetStatus(f, slot, status)
  BY DEF SetStatus, Source!SetStatus, Entry, Source!Entry

(* As above, for a counter of the source. *)
LEMMA SourceCounts ==
    ASSUME NEW f, NEW word
    PROVE  Source!Count(f, word) = Count(f, word)
  BY DEF Count, Source!Count

(* As above, for an entry made in the destination. *)
LEMMA TargetEnters ==
    ASSUME NEW f, NEW entry
    PROVE  Target!EnterBin(f, entry) = EnterBin(f, entry)
<1>1. \A h : Target!TakeSlot(h, entry) = TakeSlot(h, entry)
  BY DEF TakeSlot, Target!TakeSlot
<1>2. Target!AllocateNewBinBlock(f) = AllocateNewBinBlock(f)
  BY Zenon DEF AllocateNewBinBlock, Target!AllocateNewBinBlock,
               Extent, Target!Extent, CellAt, Target!CellAt, Zero, Target!Zero,
               Ptr, Target!Ptr, BlockSize, Target!BlockSize
<1>3. QED
  BY <1>1, <1>2 DEF EnterBin, Target!EnterBin

(* As above, for a store in the destination. *)
LEMMA TargetStores ==
    ASSUME NEW f, NEW path, NEW rec
    PROVE  Target!StoreRecord(f, path, rec) = StoreRecord(f, path, rec)
<1>1. Target!Size(rec.content) = Size(rec.content)
  BY DEF Size, Target!Size, Offset, Target!Offset, Present, Target!Present,
         Empty, Target!Empty
<1>2. \A cells, base :
         Target!WriteRecord(cells, base, path, rec) = WriteRecord(cells, base, path, rec)
  BY Zenon DEF WriteRecord, Target!WriteRecord, Layout, Target!Layout,
               Size, Target!Size, Offset, Target!Offset, Present, Target!Present,
               Extent, Target!Extent, CellAt, Target!CellAt, Info, Target!Info,
               Data, Target!Data, EofFlag, Target!EofFlag, Zero, Target!Zero,
               Area, Target!Area, Empty, Target!Empty
<1>3. \A h, base :
         Target!WriteBinEntry(h, path, base, rec.type)
           = WriteBinEntry(h, path, base, rec.type)
  BY TargetEnters DEF WriteBinEntry, Target!WriteBinEntry, Entry, Target!Entry
<1>4. QED
  BY <1>1, <1>2, <1>3 DEF StoreRecord, Target!StoreRecord

(* What the callers do between copies changes one of the files as one of   *)
(* the operations of NativeDss, and nothing else.                          *)
LEMMA Uses ==
    ASSUME CopyInv, UseSource \/ UseTarget
    PROVE  /\ Change(src, src') /\ Change(dest, dest')
           /\ op = "idle"
           /\ UNCHANGED <<op, todo, before, copied, skipped>>
<1>1. src \in Image /\ dest \in Image
  BY DEF CopyInv, Safe
<1>2. CASE UseTarget
  <2>1. PICK path \in Path, text \in Text : Target!Store(path, TextRecord(text))
    BY <1>2 DEF UseTarget
  <2>2. TextRecord(text) \in Record
    BY CopyAssumption, RecordTypes DEF Payload
  <2>3. QED
    BY <1>2, <2>1, <2>2, TargetStores DEF UseTarget, Target!Store, Change, Stored
<1>3. ASSUME NEW path \in Path, NEW rec \in Storable, Source!Store(path, rec),
             UseSource
      PROVE  /\ Change(src, src') /\ op = "idle"
             /\ UNCHANGED <<op, todo, before>>
  BY <1>3, CopyAssumption, SourceStores DEF Source!Store, Change, Stored
<1>4. ASSUME NEW primary \in Path, NEW alias \in Path,
             Source!AliasAdd(primary, alias)
      PROVE  /\ Change(src, src') /\ op = "idle"
             /\ UNCHANGED <<op, todo, before>>
  BY <1>1, <1>4, FoundRecord, FoundEntry, SourceLooks, SourceEnters, SourceCounts
     DEF Source!AliasAdd, Source!Entry, Entry, Change, Aliased
<1>5. ASSUME NEW path \in Path,
             Source!Delete(path) \/ Source!Undelete(path)
               \/ Source!AliasRemove(path)
      PROVE  /\ Change(src, src') /\ op = "idle"
             /\ UNCHANGED <<op, todo, before>>
  <2>1. CASE Source!Delete(path)
    BY <1>1, <2>1, FoundRecord, FoundEntry, SourceLooks, SourceMarks, SourceCounts
       DEF Source!Delete, Change, Marked, Status
  <2>2. CASE Source!Undelete(path)
    BY <1>1, <2>2, FoundEntry, SourceMarks
       DEF Source!Undelete, Source!SlotWith, Source!HasTag, HasTag, Change,
           Marked, Status
  <2>3. CASE Source!AliasRemove(path)
    BY <1>1, <2>3, FoundEntry, SourceMarks, SourceCounts
       DEF Source!AliasRemove, Source!SlotWith, Source!HasTag, HasTag, Change,
           Marked, Status
  <2>4. QED
    BY <1>5, <2>1, <2>2, <2>3
<1>6. CASE UseSource
  BY <1>3, <1>4, <1>5, <1>6 DEF UseSource, Source!Alias, Source!Mark, Change
<1>7. QED
  BY <1>2, <1>6

(* Every step changes each of the files by an operation or not at all, and *)
(* keeps the invariant.                                                    *)
LEMMA CopySteps ==
    ASSUME CopyInv, [Next]_vars
    PROVE  Change(src, src') /\ Change(dest, dest') /\ CopyInv'
<1> DEFINE Goal == Change(src, src') /\ Change(dest, dest') /\ CopyInv'
<1>1. ASSUME Change(src, src'), Change(dest, dest'), before' \in Image,
             op' \in {"idle", "copy", "convert"}, copied' \in Nat,
             skipped' \in Nat, op' = "convert" => todo' \in Seq(Listed),
             CopiedAreRecords'
      PROVE  Goal
  BY <1>1, ChangeSafe DEF CopyInv
<1>2. \A w \in HeaderWord : dest.hdr[w] \in Nat /\ before.hdr[w] \in Nat
  BY ImageFields DEF CopyInv, Safe
<1>3. CASE UseSource \/ UseTarget
  BY <1>1, <1>3, Uses DEF CopyInv, CopiedAreRecords
<1>4. ASSUME NEW path \in Path, CopyRecord(path)
      PROVE  Goal
  <2>1. Change(dest, dest')
    BY <1>4, ReadingTransfers DEF CopyRecord, Change
  <2>2. QED
    BY <1>1, <1>4, <2>1 DEF CopyRecord, CopyInv, CopiedAreRecords, Change
<1>5. CASE CopyBegin
  BY <1>1, <1>2, <1>5
     DEF CopyBegin, CopyInv, CopiedAreRecords, Change, Safe, HeaderWord
<1>6. CASE CopyEntry
  <2> DEFINE path == Head(todo).path
             writes == CopyCopies(ReadRecord(src, path))
  <2>1. /\ ~ writes => dest' = dest
        /\ writes =>
             /\ Stored(dest, dest')
             /\ dest'.hdr["numberRecords"] = dest.hdr["numberRecords"] + 1
             /\ dest'.hdr["totalBins"] = dest.hdr["totalBins"] + 1
    BY <1>6, ReadingTransfers DEF CopyEntry
  <2>2. copied' = IF writes THEN copied + 1 ELSE copied
    BY <1>6 DEF CopyEntry
  <2>3. /\ op = "copy" /\ UNCHANGED <<src, op, skipped, before>>
    BY <1>6 DEF CopyEntry
  <2> HIDE DEF writes
  <2>4. CopiedAreRecords'
    BY <1>2, <2>1, <2>2, <2>3 DEF CopyInv, CopiedAreRecords, HeaderWord
  <2>5. QED
    BY <1>1, <2>1, <2>2, <2>3, <2>4 DEF CopyInv, Change
<1>7. CASE ConvertEntry
  <2> DEFINE item == Head(todo)
             writes == ConvertCopies(item.rec)
  <2>1. /\ op = "convert" /\ todo \in Seq(Listed) /\ todo # << >>
        /\ todo' = Tail(todo)
        /\ UNCHANGED <<src, op, before>>
        /\ Transfer(item.path, item.rec, writes)
        /\ copied' = IF writes THEN copied + 1 ELSE copied
        /\ skipped' = IF writes THEN skipped ELSE skipped + 1
    BY <1>7 DEF ConvertEntry, CopyInv
  <2>2. item \in Listed /\ Tail(todo) \in Seq(Listed)
    BY <2>1
  <2>3. item.path \in Path /\ item.rec \in Record
    BY <2>2, ForeignRecords DEF Listed
  <2>4. writes \in BOOLEAN
    BY DEF ConvertCopies
  <2> HIDE DEF item, writes
  <2>5. /\ ~ writes => dest' = dest
        /\ writes =>
             /\ Stored(dest, dest')
             /\ dest'.hdr["numberRecords"] = dest.hdr["numberRecords"] + 1
             /\ dest'.hdr["totalBins"] = dest.hdr["totalBins"] + 1
    BY <2>1, <2>3, <2>4, TransferStores
  <2>6. CopiedAreRecords'
    <3>1. /\ copied = dest.hdr["numberRecords"] - before.hdr["numberRecords"]
          /\ copied = dest.hdr["totalBins"] - before.hdr["totalBins"]
      BY <2>1 DEF CopyInv, CopiedAreRecords
    <3>2. UNCHANGED before /\ copied' = IF writes THEN copied + 1 ELSE copied
      BY <2>1
    <3>3. /\ copied' = dest'.hdr["numberRecords"] - before'.hdr["numberRecords"]
          /\ copied' = dest'.hdr["totalBins"] - before'.hdr["totalBins"]
      BY <1>2, <2>5, <3>1, <3>2 DEF HeaderWord
    <3>4. QED
      BY <3>3 DEF CopiedAreRecords
  <2>7. QED
    BY <1>1, <2>1, <2>2, <2>5, <2>6 DEF CopyInv, Change
<1>8. CASE CopyEnd
  BY <1>1, <1>8 DEF CopyEnd, CopyInv, CopiedAreRecords, Change
<1>9. CASE UNCHANGED vars
  BY <1>1, <1>9 DEF vars, CopyInv, CopiedAreRecords, Change
<1>10. QED
  BY <1>3, <1>4, <1>5, <1>6, <1>7, <1>8, <1>9 DEF Next

(* It holds at the beginning. *)
LEMMA CopyInit == Init => CopyInv
<1> SUFFICES ASSUME Init
             PROVE  CopyInv
  OBVIOUS
<1>1. Safe(src) /\ Safe(dest) /\ before \in Image
  BY NewFileSafe, NewFileType DEF Init
<1>2. op = "convert" => todo \in Seq(Listed)
  BY CopyAssumption DEF Init, Listing
<1>3. \A w \in HeaderWord : dest.hdr[w] - before.hdr[w] = 0
  BY <1>1, ImageFields DEF Init
<1>4. CopiedAreRecords
  BY <1>3 DEF Init, CopiedAreRecords, HeaderWord
<1>5. QED
  BY <1>1, <1>2, <1>4 DEF Init, CopyInv

(* The invariant holds in every state. *)
LEMMA CopyInvAlways == Spec => []CopyInv
  BY CopyInit, CopySteps, PTL DEF Spec

(* The variables of a copy have their types in every state. *)
THEOREM CopyTypeCorrect == Spec => []CopyTypeOK
<1>1. CopyInv => CopyTypeOK
  BY DEF CopyInv, CopyTypeOK, Safe
<1>2. QED
  BY <1>1, CopyInvAlways, PTL

(* The number that copy_file returns and dss-convert prints is the number  *)
(* of records that the destination has gained, at every entry of the loop: *)
(* for every catalog, with aliases, names of one table hash, and records   *)
(* under bin blocks too.                                                   *)
THEOREM CopiesAreCounted == Spec => []CopiedAreRecords
<1>1. CopyInv => CopiedAreRecords
  BY DEF CopyInv
<1>2. QED
  BY <1>1, CopyInvAlways, PTL

(* copy_record, copy_file and dss-convert keep what the destination reads  *)
(* under each name, as long as no write allocates a bin block.             *)
THEOREM TargetIsKept == Spec => CopyKeepsTarget
<1>1. CopyInv /\ [Next]_vars =>
        [~ dest'.spilled =>
            \A path \in Path :
                ReadRecord(dest, path) # NoRecord =>
                    ReadRecord(dest', path) = ReadRecord(dest, path)]_dest
  <2> SUFFICES ASSUME CopyInv, [Next]_vars, ~ dest'.spilled,
                      NEW path \in Path, ReadRecord(dest, path) # NoRecord
               PROVE  ReadRecord(dest', path) = ReadRecord(dest, path)
    OBVIOUS
  <2>1. QED
    BY CopySteps, ChangeReads DEF CopyInv
<1>2. QED
  BY <1>1, CopyInvAlways, PTL DEF Spec, CopyKeepsTarget

-----------------------------------------------------------------------------
(* What copy_file makes of the names.                                      *)

\* The i-th entry of the source s is copied.
CopiedName(s, i) == CopyCopies(ReadRecord(s, Catalog(s)[i].path))

\* After p entries the destination, which was b, has the table hash of x in use.
HashTaken(s, b, p, x) ==
    \/ HashSlot(b, x) # 0
    \/ \E i \in 1..p : /\ CopiedName(s, i)
                       /\ TableHash[Catalog(s)[i].path] = TableHash[x]

\* What x then reads in it.
ReadIn(s, b, p, x) ==
    LET rec == ReadRecord(s, x)
    IN  IF HashSlot(b, x) # 0 THEN ReadRecord(b, x)
        ELSE IF (\E i \in 1..p : Catalog(s)[i].path = x) /\ CopyCopies(rec)
             THEN CopyForm(rec)
        ELSE NoRecord

CopiedTo(s, b, d, p) ==
    \A x \in Path : /\ HashSlot(d, x) # 0 <=> HashTaken(s, b, p, x)
                    /\ ReadRecord(d, x) = ReadIn(s, b, p, x)

\* copy_file is in its loop: rest is what it has yet to copy.
CopyingTo(s, b, d, rest) ==
    ~ s.spilled /\ ~ d.spilled =>
        \E p \in 0..Len(Catalog(s)) :
            /\ rest = SubSeq(Catalog(s), p + 1, Len(Catalog(s)))
            /\ CopiedTo(s, b, d, p)

(* It begins with nothing copied. *)
LEMMA CopyStarts ==
    ASSUME NEW s, Walkable(s), NEW d, Walkable(d)
    PROVE  CopyingTo(s, d, d, Catalog(s))
<1>1. SUFFICES ASSUME ~ s.spilled, ~ d.spilled
               PROVE  /\ Catalog(s) = SubSeq(Catalog(s), 0 + 1, Len(Catalog(s)))
                      /\ 0 \in 0..Len(Catalog(s))
                      /\ CopiedTo(s, d, d, 0)
  BY DEF CopyingTo
<1>2. Catalog(s) \in Seq(Cell)
  BY <1>1, CatalogType
<1>3. RecordAt(d, 0) = NoRecord /\ ~ HasTag(d, 0, "entry")
  <2>1. d.cells \in Seq(Cell)
    BY ImageFields DEF Walkable, Safe
  <2>2. QED
    BY <2>1 DEF RecordAt, HasInfo, HasTag
<1>4. ASSUME NEW x \in Path
      PROVE  /\ HashSlot(d, x) # 0 <=> HashTaken(s, d, 0, x)
             /\ ReadRecord(d, x) = ReadIn(s, d, 0, x)
  <2>1. HashSlot(d, x) = 0 => ReadRecord(d, x) = NoRecord
    BY <1>3 DEF ReadRecord, FindRecord
  <2>2. ~ (\E i \in 1..0 : TRUE)
    OBVIOUS
  <2>3. QED
    BY <2>1, <2>2 DEF HashTaken, ReadIn
<1>5. QED
  <2>1. CopiedTo(s, d, d, 0)
    BY <1>4 DEF CopiedTo
  <2>2. QED
    BY <1>2, <2>1

(* An entry that is copied takes its table hash and can be read, unless    *)
(* the hash was taken: by the destination, or by the same name.            *)
LEMMA NameIsCopied ==
    ASSUME NEW s \in Image, NEW b, NEW d, Walkable(d), NEW p \in Nat,
           CopiedTo(s, b, d, p), CopiedName(s, p + 1), NEW g,
           g = StoreRecord(d, Catalog(s)[p + 1].path,
                           CopyForm(ReadRecord(s, Catalog(s)[p + 1].path))),
           ~ g.spilled
    PROVE  CopiedTo(s, b, g, p + 1)
<1> DEFINE name(i) == Catalog(s)[i].path
           y == name(p + 1)
           rec == ReadRecord(s, y)
<1>1. ~ CopyCopies(NoRecord)
  BY DEF CopyCopies, NoRecord, IsText, IsTimeSeries, IsPairedData, IsArray,
         IsLocation, IsGrid
<1>2. CopyCopies(rec) /\ rec # NoRecord
  BY <1>1 DEF CopiedName
<1>3. y \in Path /\ rec \in Record /\ CopyForm(rec) \in Record
  BY <1>2, ReadRecordType, CopyFormType
<1>4. \A i : CopiedName(s, i) => ReadRecord(s, name(i)) # NoRecord
  BY <1>1 DEF CopiedName
<1>5. 1..(p + 1) = 1..p \cup {p + 1}
  OBVIOUS
<1> HIDE DEF name, y, rec
<1>6. ASSUME NEW x \in Path
      PROVE  /\ HashSlot(g, x) # 0 <=> HashTaken(s, b, p + 1, x)
             /\ ReadRecord(g, x) = ReadIn(s, b, p + 1, x)
  <2> DEFINE came == \E i \in 1..p : name(i) = x
  <2>1. /\ HashSlot(d, x) # 0 <=> HashTaken(s, b, p, x)
        /\ ReadRecord(d, x) = ReadIn(s, b, p, x)
    BY <1>6 DEF CopiedTo
  <2>2. ReadAfterStore(d, g, y, CopyForm(rec), x)
    <3>1. g = StoreRecord(d, y, CopyForm(rec))
      BY DEF y, rec, name
    <3>2. QED
      BY <1>3, <1>6, <3>1, StoreIsRead
  <2>3. HashTaken(s, b, p + 1, x)
          <=> HashTaken(s, b, p, x) \/ TableHash[y] = TableHash[x]
    BY <1>5 DEF HashTaken, y, name
  <2>4. HashSlot(g, x) # 0 <=> HashTaken(s, b, p + 1, x)
    BY <2>1, <2>2, <2>3 DEF ReadAfterStore
  <2>5. ReadIn(s, b, p, x) =
          IF HashSlot(b, x) # 0 THEN ReadRecord(b, x)
          ELSE IF came /\ CopyCopies(ReadRecord(s, x))
               THEN CopyForm(ReadRecord(s, x))
          ELSE NoRecord
    BY DEF ReadIn, name
  <2>6. ReadIn(s, b, p + 1, x) =
          IF HashSlot(b, x) # 0 THEN ReadRecord(b, x)
          ELSE IF (came \/ y = x) /\ CopyCopies(ReadRecord(s, x))
               THEN CopyForm(ReadRecord(s, x))
          ELSE NoRecord
    BY <1>5 DEF ReadIn, name, y
  <2>7. HashTaken(s, b, p, x) <=>
          \/ HashSlot(b, x) # 0
          \/ \E i \in 1..p : CopiedName(s, i) /\ TableHash[name(i)] = TableHash[x]
    BY DEF HashTaken, name
  <2> HIDE DEF came
  <2>8. CASE HashSlot(d, x) # 0
    <3>1. ReadRecord(g, x) = ReadIn(s, b, p, x)
      BY <2>1, <2>2, <2>8 DEF ReadAfterStore
    <3>2. CASE HashSlot(b, x) # 0
      BY <2>4, <2>5, <2>6, <3>1, <3>2
    <3>3. CASE HashSlot(b, x) = 0 /\ y # x
      BY <2>4, <2>5, <2>6, <3>1, <3>3
    <3>4. CASE HashSlot(b, x) = 0 /\ y = x
      <4>1. PICK i \in 1..p : CopiedName(s, i) /\ TableHash[name(i)] = TableHash[x]
        BY <2>1, <2>7, <2>8, <3>4
      <4>2. ReadRecord(s, name(i)) # NoRecord /\ ReadRecord(s, x) # NoRecord
        BY <1>2, <1>4, <3>4, <4>1 DEF rec
      <4>3. name(i) = x
        BY <4>1, <4>2, OneNamePerHash
      <4>4. came
        BY <4>3 DEF came
      <4>5. QED
        BY <2>4, <2>5, <2>6, <3>1, <4>4
    <3>5. QED
      BY <3>2, <3>3, <3>4
  <2>9. CASE HashSlot(d, x) = 0
    <3>1. ReadRecord(g, x) = IF x = y THEN CopyForm(rec) ELSE NoRecord
      BY <2>2, <2>9 DEF ReadAfterStore
    <3>2. HashSlot(b, x) = 0
      BY <2>1, <2>7, <2>9
    <3>3. CASE x = y
      BY <1>2, <2>4, <2>6, <3>1, <3>2, <3>3 DEF rec
    <3>4. CASE x # y
      <4>1. ~ (came /\ CopyCopies(ReadRecord(s, x)))
        <5>1. SUFFICES ASSUME NEW i \in 1..p, name(i) = x,
                              CopyCopies(ReadRecord(s, x))
                       PROVE  FALSE
          BY DEF came
        <5>2. CopiedName(s, i) /\ TableHash[name(i)] = TableHash[x]
          BY <5>1 DEF CopiedName, name
        <5>3. QED
          BY <2>1, <2>7, <2>9, <5>2
      <4>2. QED
        BY <2>4, <2>6, <3>1, <3>2, <3>4, <4>1
    <3>5. QED
      BY <3>3, <3>4
  <2>10. QED
    BY <2>4, <2>8, <2>9
<1>7. QED
  BY <1>6 DEF CopiedTo

(* An entry that is skipped changes nothing. *)
LEMMA NameIsSkipped ==
    ASSUME NEW s, NEW b, NEW d, NEW p \in Nat,
           CopiedTo(s, b, d, p), ~ CopiedName(s, p + 1)
    PROVE  CopiedTo(s, b, d, p + 1)
<1>1. 1..(p + 1) = 1..p \cup {p + 1}
  OBVIOUS
<1>2. ASSUME NEW x \in Path
      PROVE  /\ HashTaken(s, b, p + 1, x) <=> HashTaken(s, b, p, x)
             /\ ReadIn(s, b, p + 1, x) = ReadIn(s, b, p, x)
  <2>1. HashTaken(s, b, p + 1, x) <=> HashTaken(s, b, p, x)
    BY <1>1 DEF HashTaken
  <2>2. Catalog(s)[p + 1].path = x => ~ CopyCopies(ReadRecord(s, x))
    BY DEF CopiedName
  <2>3. ReadIn(s, b, p + 1, x) = ReadIn(s, b, p, x)
    BY <1>1, <2>2 DEF ReadIn
  <2>4. QED
    BY <2>1, <2>3
<1>3. QED
  BY <1>2 DEF CopiedTo

(* A turn of the loop, with what Transfer makes of the destination. *)
LEMMA CopyTurns ==
    ASSUME NEW s, Walkable(s), NEW b, NEW d, Walkable(d), NEW rest, rest # << >>,
           CopyingTo(s, b, d, rest), NEW g,
           LET rec == ReadRecord(s, Head(rest).path)
           IN  g = IF CopyCopies(rec)
                   THEN StoreRecord(d, Head(rest).path, CopyForm(rec)) ELSE d
    PROVE  CopyingTo(s, b, g, Tail(rest))
<1>1. SUFFICES ASSUME ~ s.spilled, ~ g.spilled
               PROVE  \E p \in 0..Len(Catalog(s)) :
                        /\ Tail(rest) = SubSeq(Catalog(s), p + 1, Len(Catalog(s)))
                        /\ CopiedTo(s, b, g, p)
  BY DEF CopyingTo
<1>2. ~ d.spilled
  BY <1>1 DEF StoreRecord, WriteBinEntry, EnterBin, TakeSlot, AllocateNewBinBlock
<1>3. PICK p \in 0..Len(Catalog(s)) :
        /\ rest = SubSeq(Catalog(s), p + 1, Len(Catalog(s)))
        /\ CopiedTo(s, b, d, p)
  BY <1>1, <1>2 DEF CopyingTo
<1> DEFINE c == Catalog(s)
           n == Len(c)
<1>4. c \in Seq(Cell) /\ n \in Nat
  BY <1>1, CatalogType
<1>5. s \in Image
  BY DEF Walkable, Safe
<1> HIDE DEF c, n
<1>6. p \in 0..n /\ rest = SubSeq(c, p + 1, n)
  BY <1>3 DEF c, n
<1>7. p + 1 \in 0..n /\ Head(rest) = c[p + 1] /\ Tail(rest) = SubSeq(c, p + 2, n)
  <2>1. p < n
    BY <1>4, <1>6 DEF n
  <2>2. QED
    BY <1>4, <1>6, <2>1 DEF n
<1>8. CopiedTo(s, b, g, p + 1)
  <2>1. CASE CopiedName(s, p + 1)
    <3>1. g = StoreRecord(d, Catalog(s)[p + 1].path,
                          CopyForm(ReadRecord(s, Catalog(s)[p + 1].path)))
      BY <1>7, <2>1 DEF CopiedName, c
    <3>2. p \in Nat
      OBVIOUS
    <3>3. QED
      BY <1>1, <1>3, <1>5, <2>1, <3>1, <3>2, NameIsCopied
  <2>2. CASE ~ CopiedName(s, p + 1)
    <3>1. g = d
      BY <1>7, <2>2 DEF CopiedName, c
    <3>2. QED
      BY <1>3, <2>2, <3>1, NameIsSkipped
  <2>3. QED
    BY <2>1, <2>2
<1>9. p + 2 = (p + 1) + 1
  OBVIOUS
<1>10. QED
  BY <1>7, <1>8, <1>9 DEF c, n

\* The inductive invariant.
CopiesInv ==
    /\ CopyInv
    /\ Walkable(src) /\ Walkable(dest)
    /\ op = "copy" => CopyingTo(src, before, dest, todo)

(* Every step keeps it: while the loop runs, nothing else uses the files. *)
LEMMA CopiesStep ==
    ASSUME CopiesInv, [Next]_vars
    PROVE  CopiesInv'
<1>1. Change(src, src') /\ Change(dest, dest') /\ CopyInv'
  BY CopySteps DEF CopiesInv
<1>2. Walkable(src') /\ Walkable(dest')
  BY <1>1, WalkableChange DEF CopiesInv
<1>3. (op = "copy" => CopyingTo(src, before, dest, todo))'
  <2>1. CASE UseSource \/ UseTarget
    BY <2>1, Uses DEF CopiesInv
  <2>2. CASE \E path \in Path : CopyRecord(path)
    BY <2>2 DEF CopyRecord
  <2>3. CASE CopyBegin
    <3>1. todo' = Catalog(src) /\ src' = src /\ dest' = dest /\ before' = dest
      BY <2>3 DEF CopyBegin
    <3>2. QED
      BY <3>1, CopyStarts DEF CopiesInv
  <2>4. CASE CopyEntry
    <3> DEFINE rec == ReadRecord(src, Head(todo).path)
    <3>1. /\ op = "copy" /\ todo # << >> /\ todo' = Tail(todo)
          /\ src' = src /\ before' = before
          /\ dest' = IF CopyCopies(rec)
                     THEN StoreRecord(dest, Head(todo).path, CopyForm(rec))
                     ELSE dest
      BY <2>4 DEF CopyEntry, Transfer
    <3>2. CopyingTo(src, before, dest', Tail(todo))
      BY <3>1, CopyTurns DEF CopiesInv
    <3>3. QED
      BY <3>1, <3>2
  <2>5. CASE ConvertEntry
    BY <2>5 DEF ConvertEntry
  <2>6. CASE CopyEnd
    BY <2>6 DEF CopyEnd
  <2>7. CASE UNCHANGED vars
    BY <2>7 DEF vars, CopiesInv
  <2>8. QED
    BY <2>1, <2>2, <2>3, <2>4, <2>5, <2>6, <2>7 DEF Next
<1>4. QED
  BY <1>1, <1>2, <1>3 DEF CopiesInv

(* After copy_file every name reads in the destination what it read in the *)
(* source, for any catalog with deleted entries, aliases and names stored  *)
(* more than once, unless the destination had its table hash in use: as    *)
(* long as no write allocates a bin block in either file.                  *)
THEOREM CopyIsComplete == Spec => []FileIsCopied
<1>1. Init => CopiesInv
  BY CopyInit, NewFileWalkable DEF Init, CopiesInv
<1>2. CopiesInv /\ [Next]_vars => CopiesInv'
  BY CopiesStep
<1>3. CopiesInv => FileIsCopied
  <2> SUFFICES ASSUME CopiesInv, op = "copy", todo = << >>, ~ src.spilled,
                      ~ dest.spilled, NEW x \in Path
               PROVE  ReadRecord(dest, x) = Expected(x)
    BY DEF FileIsCopied
  <2>1. PICK p \in 0..Len(Catalog(src)) :
          /\ << >> = SubSeq(Catalog(src), p + 1, Len(Catalog(src)))
          /\ CopiedTo(src, before, dest, p)
    BY DEF CopiesInv, CopyingTo
  <2>2. Catalog(src) \in Seq(Cell)
    BY CatalogType DEF CopiesInv
  <2>3. p = Len(Catalog(src)) /\ DOMAIN Catalog(src) = 1..p
    <3> DEFINE c == Catalog(src)
    <3> HIDE DEF c
    <3>1. c \in Seq(Cell) /\ p \in 0..Len(c) /\ << >> = SubSeq(c, p + 1, Len(c))
      BY <2>1, <2>2 DEF c
    <3>2. p < Len(c) => Len(SubSeq(c, p + 1, Len(c))) = Len(c) - p
      BY <3>1
    <3>3. p = Len(c)
      BY <3>1, <3>2
    <3>4. QED
      BY <3>1, <3>3 DEF c
  <2>4. ReadRecord(dest, x) = ReadIn(src, before, p, x)
    BY <2>1 DEF CopiedTo
  <2>5. QED
    BY <2>3, <2>4 DEF ReadIn, Expected
<1>4. QED
  BY <1>1, <1>2, <1>3, PTL DEF Spec
=============================================================================
