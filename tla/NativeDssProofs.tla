-------------------------- MODULE NativeDssProofs ---------------------------
(***************************************************************************)
(* Theorems about NativeDss, for every value of its constants: first types *)
(* and counters, then the layout of the file, then that NativeDss          *)
(* implements DssLog: each step of the handle is a step of the log or      *)
(* leaves it alone, and what the hash table leads a name to is what the    *)
(* log says it names, as long as no bin block is allocated in the middle   *)
(* of storing a record.  Then what recovery finds without hash table and   *)
(* bins, and what squeeze keeps.                                           *)
(***************************************************************************)
EXTENDS NativeDssLog, NativeDssSqueeze, NativeDssRecovery, DssImageProofs

(* Every step changes the two files in one of these ways, except that      *)
(* squeeze starts with a new file and ends with tmp in the place of file.  *)
LEMMA Steps ==
    ASSUME TypeOK, [Next]_vars
    PROVE  /\ Change(file, file') \/ file' = tmp
           /\ Change(tmp, tmp') \/ tmp' = NewFile
           /\ pc' \in {"idle", "squeeze"}
<1> USE DEF TypeOK
<1> DEFINE Goal == /\ Change(file, file') \/ file' = tmp
                   /\ Change(tmp, tmp') \/ tmp' = NewFile
                   /\ pc' \in {"idle", "squeeze"}
<1>1. CASE Write
  <2>1. PICK path \in Path, v \in Value :
           \/ \E text \in {v, Empty} : WriteText(path, text)
           \/ WriteTs(path, v)
           \/ WriteTsIrregular(path, v)
           \/ \E labels \in {"labels", Empty} : WritePd(path, v, labels)
           \/ \E present \in SUBSET {"v1", "v2", "v3"} :
                  WriteArray(path, present, v)
           \/ \E supplemental \in {"supplemental", Empty} :
                  WriteLocation(path, v, supplemental)
           \/ WriteGrid(path, v)
    BY <1>1 DEF Write
  <2>2. {v, Empty, "labels", "units", "ordinates", "supplemental"}
          \subseteq Payload
    BY DEF Payload, Token
  <2>3. SUBSET {"v1", "v2", "v3"} \subseteq SUBSET Area
    BY DEF Area
  <2>4. \E rec \in Record : Store(path, rec)
    BY <2>1, <2>2, <2>3, RecordTypes
       DEF WriteText, WriteTs, WriteTsIrregular, WritePd, WriteArray,
           WriteLocation, WriteGrid
  <2>5. QED
    BY <2>4 DEF Store, Change, Stored
<1>2. CASE Mark
  <2>1. ASSUME NEW path \in Path, Delete(path)
        PROVE  Goal
    BY <2>1, FoundRecord, FoundEntry DEF Delete, Change, Marked, Status
  <2>2. ASSUME NEW path \in Path, Undelete(path)
        PROVE  Goal
    BY <2>2, FoundEntry DEF Undelete, SlotWith, Change, Marked, Status
  <2>3. ASSUME NEW path \in Path, AliasRemove(path)
        PROVE  Goal
    BY <2>3, FoundEntry DEF AliasRemove, SlotWith, Change, Marked, Status
  <2>4. QED
    BY <1>2, <2>1, <2>2, <2>3 DEF Mark
<1>3. CASE Alias
  <2>1. PICK primary \in Path, alias \in Path : AliasAdd(primary, alias)
    BY <1>3 DEF Alias
  <2>2. QED
    BY <2>1, FoundRecord, FoundEntry DEF AliasAdd, Change, Aliased
<1>4. CASE SqueezeBegin
  BY <1>4 DEF SqueezeBegin, Change
<1>5. CASE SqueezeEntry
  <2> DEFINE entry == Head(todo)
             rec == ReadRecord(file, entry.path)
  <2>1. CASE SqueezeCopies(entry.type, rec)
    <3>1. entry.path \in Path /\ rec \in Record
      BY <2>1, ReadRecordType DEF SqueezeCopies
    <3>2. Stored(tmp, tmp')
      BY <1>5, <2>1, <3>1, SqueezeFormType DEF SqueezeEntry, Stored
    <3>3. QED
      BY <1>5, <3>2 DEF SqueezeEntry, Change
  <2>2. CASE ~ SqueezeCopies(entry.type, rec)
    BY <1>5, <2>2 DEF SqueezeEntry, Change
  <2>3. QED
    BY <2>1, <2>2
<1>6. CASE SqueezeAbort
  BY <1>6 DEF SqueezeAbort, Change
<1>7. CASE SqueezeEnd
  BY <1>7 DEF SqueezeEnd, Change
<1>8. CASE UNCHANGED vars
  BY <1>8 DEF vars, Change
<1>9. QED
  BY <1>1, <1>2, <1>3, <1>4, <1>5, <1>6, <1>7, <1>8 DEF Next, Squeeze

(* The variables have their types: Seq(Cell) in them says that every       *)
(* address, name and type code in the file is one, and the header's range  *)
(* that no counter falls below zero.                                       *)
THEOREM TypeCorrect == Spec => []TypeOK
<1>1. Init => TypeOK
  BY NewFileType DEF Init, TypeOK
<1>2. TypeOK /\ [Next]_vars => TypeOK'
  BY Steps, ChangeType, NewFileType DEF TypeOK
<1>3. QED
  BY <1>1, <1>2, PTL DEF Spec

-----------------------------------------------------------------------------
(* The counters.                                                           *)

(* Setting a slot of the hash table. *)
LEMMA HashSlotsUsed ==
    ASSUME NEW hash \in [0..MaxHash-1 -> Nat], NEW slot \in 0..MaxHash-1,
           NEW next \in Nat \ {0}, hash[slot] = 0
    PROVE  Cardinality({h \in 0..MaxHash-1 :
                          [hash EXCEPT ![slot] = next][h] # 0})
             = Cardinality({h \in 0..MaxHash-1 : hash[h] # 0}) + 1
<1> DEFINE before == {h \in 0..MaxHash-1 : hash[h] # 0}
           after  == {h \in 0..MaxHash-1 :
                        [hash EXCEPT ![slot] = next][h] # 0}
<1>1. IsFiniteSet(before)
  <2>1. IsFiniteSet(0..MaxHash-1)
    BY ImageAssumption, FS_Interval
  <2>2. QED
    BY <2>1, FS_Subset
<1>2. after = before \cup {slot} /\ slot \notin before
  OBVIOUS
<1> HIDE DEF before, after
<1>3. Cardinality(after) = Cardinality(before) + 1
  BY <1>1, <1>2, FS_AddElement
<1>4. QED
  BY <1>3 DEF before, after

(* CountersAgree, and where entries and records go next is no null address. *)
Counted(f) ==
    /\ f \in Image
    /\ CountersAgree(f)
    /\ f.hdr.nextBin # 0
    /\ f.hdr.fileSize # 0

(* Counted in terms of any header and hash table. *)
CountedParts(hdr, hash) ==
    /\ hdr["totalBins"] = hdr["numberRecords"] + hdr["numberAliases"]
    /\ hdr["totalBins"] + hdr["binsRemain"]
         = BinsPerBlock * (hdr["binsOverflow"] + 1)
    /\ hdr["binsRemain"] <= BinsPerBlock
    /\ hdr["hashsUsed"] = Cardinality({h \in 0..MaxHash-1 : hash[h] # 0})
    /\ hdr["nextBin"] # 0
    /\ hdr["fileSize"] # 0

(* The counters and what they count. *)
LEMMA CountedIsParts ==
    ASSUME NEW f
    PROVE  Counted(f) <=> f \in Image /\ CountedParts(f.hdr, f.hash)
  BY DEF Counted, CountersAgree, CountedParts

(* A new block keeps the counters right. *)
LEMMA AllocateCounts ==
    ASSUME NEW f, Counted(f), f.hdr.binsRemain = 0
    PROVE  Counted(AllocateNewBinBlock(f))
<1> DEFINE g == AllocateNewBinBlock(f)
<1>1. f \in Image /\ CountedParts(f.hdr, f.hash)
  BY CountedIsParts
<1>2. g \in Image /\ g.hash = f.hash
  BY <1>1, AllocateType DEF AllocateNewBinBlock
<1>3. \A w \in HeaderWord : g.hdr[w] =
             IF w = "nextBin" THEN f.hdr.fileSize
             ELSE IF w = "binsRemain" THEN BinsPerBlock
             ELSE IF w = "fileSize" THEN f.hdr.fileSize + BlockSize
             ELSE IF w = "binsOverflow" THEN f.hdr.binsOverflow + 1
             ELSE f.hdr[w]
  BY <1>1, AllocateWords
<1>4. \A w \in HeaderWord : f.hdr[w] \in Nat
  BY <1>1, ImageFields
<1> DEFINE h == f.hdr
           k == g.hdr
<1>5. /\ k["totalBins"] = h["totalBins"] /\ k["numberRecords"] = h["numberRecords"]
      /\ k["numberAliases"] = h["numberAliases"]
      /\ k["hashsUsed"] = h["hashsUsed"]
      /\ k["binsRemain"] = BinsPerBlock
      /\ k["binsOverflow"] = h["binsOverflow"] + 1
      /\ k["nextBin"] = h["fileSize"]
      /\ k["fileSize"] = h["fileSize"] + BlockSize
  BY <1>3 DEF HeaderWord
<1>6. h \in [HeaderWord -> Nat] /\ h["binsRemain"] = 0
  BY <1>1, ImageFields DEF Header
<1>7. CountedParts(h, f.hash) /\ g.hash = f.hash
  BY <1>1, <1>2
<1> HIDE DEF g, h, k
<1>8. BinsPerBlock * (k["binsOverflow"] + 1)
        = BinsPerBlock * (h["binsOverflow"] + 1) + BinsPerBlock
  BY <1>5, <1>6, ImageAssumption DEF HeaderWord
<1>9. CountedParts(k, g.hash)
  BY <1>5, <1>6, <1>7, <1>8, BlockType, ImageAssumption
     DEF CountedParts, HeaderWord
<1>10. QED
  BY <1>2, <1>9, CountedIsParts DEF g, k

(* A slot taken is one more bin in use, which a record or an alias is still
   to be counted for. *)
LEMMA TakeSlotCounts ==
    ASSUME NEW f, Counted(f), f.hdr.binsRemain # 0,
           NEW entry \in Cell, entry.path \in Path,
           NEW word \in {"numberRecords", "numberAliases"}
    PROVE  /\ TakeSlot(f, entry) \in Image
           /\ CountedParts([TakeSlot(f, entry).hdr EXCEPT ![word] = @ + 1],
                           TakeSlot(f, entry).hash)
<1> DEFINE g == TakeSlot(f, entry)
           slot == TableHash[entry.path]
<1>1. f \in Image /\ CountedParts(f.hdr, f.hash)
  BY CountedIsParts
<1>2. g \in Image
  BY <1>1, TakeSlotType
<1>3. \A w \in HeaderWord : g.hdr[w] =
             IF w = "nextBin" THEN f.hdr.nextBin + BinSize
             ELSE IF w = "totalBins" THEN f.hdr.totalBins + 1
             ELSE IF w = "binsRemain" THEN f.hdr.binsRemain - 1
             ELSE IF w = "hashsUsed" /\ f.hash[slot] = 0
                  THEN f.hdr.hashsUsed + 1
             ELSE f.hdr[w]
  BY <1>1, TakeSlotWords
<1>4. /\ \A w \in HeaderWord : f.hdr[w] \in Nat
      /\ f.hash \in [0..MaxHash-1 -> Nat]
      /\ slot \in 0..MaxHash-1
  BY <1>1, ImageFields, ImageAssumption
<1>5. g.hash = IF f.hash[slot] = 0
               THEN [f.hash EXCEPT ![slot] = f.hdr.nextBin] ELSE f.hash
  BY <1>4 DEF TakeSlot
<1>6. g.hdr["hashsUsed"] = Cardinality({h \in 0..MaxHash-1 : g.hash[h] # 0})
  <2>1. CASE f.hash[slot] = 0
    <3> DEFINE hash == f.hash
               next == f.hdr.nextBin
    <3>1. next \in Nat \ {0} /\ slot \in 0..MaxHash-1
      BY <1>1, <1>4 DEF CountedParts, HeaderWord
    <3>2. hash \in [0..MaxHash-1 -> Nat] /\ hash[slot] = 0
          /\ g.hash = [hash EXCEPT ![slot] = next]
      BY <1>4, <1>5, <2>1
    <3> HIDE DEF hash, next, g, slot
    <3>3. Cardinality({h \in 0..MaxHash-1 :
                         [hash EXCEPT ![slot] = next][h] # 0})
            = Cardinality({h \in 0..MaxHash-1 : hash[h] # 0}) + 1
      BY <3>1, <3>2, HashSlotsUsed, ZenonT(30)
    <3>4. {h \in 0..MaxHash-1 : g.hash[h] # 0}
            = {h \in 0..MaxHash-1 : [hash EXCEPT ![slot] = next][h] # 0}
      BY <3>2
    <3>5. QED
      BY <1>1, <1>3, <2>1, <3>3, <3>4 DEF CountedParts, HeaderWord, hash, slot
  <2>2. CASE f.hash[slot] # 0
    BY <1>1, <1>3, <1>5, <2>2 DEF CountedParts, HeaderWord
  <2>3. QED
    BY <2>1, <2>2
<1>7. g.hdr \in [HeaderWord -> Nat]
  BY <1>2, ImageFields DEF Header
<1> DEFINE h == f.hdr
           k == g.hdr
           hdr == [k EXCEPT ![word] = @ + 1]
<1>8. /\ k["totalBins"] = h["totalBins"] + 1
      /\ k["numberRecords"] = h["numberRecords"]
      /\ k["numberAliases"] = h["numberAliases"]
      /\ k["binsRemain"] = h["binsRemain"] - 1
      /\ k["binsOverflow"] = h["binsOverflow"]
      /\ k["nextBin"] = h["nextBin"] + BinSize
      /\ k["fileSize"] = h["fileSize"]
  BY <1>3 DEF HeaderWord
<1>9. k \in [HeaderWord -> Nat] /\ h \in [HeaderWord -> Nat]
      /\ CountedParts(h, f.hash)
  BY <1>1, <1>7, ImageFields DEF Header
<1>10. k["hashsUsed"] = Cardinality({x \in 0..MaxHash-1 : g.hash[x] # 0})
  BY <1>6
<1> HIDE DEF g, h, k
<1>11. \A w \in HeaderWord :
         hdr[w] = IF w = word THEN k[w] + 1 ELSE k[w]
  BY <1>9
<1> HIDE DEF hdr
<1>12. CountedParts(hdr, g.hash)
  BY <1>8, <1>9, <1>10, <1>11, ImageAssumption DEF CountedParts, HeaderWord
<1>13. QED
  BY <1>2, <1>12 DEF hdr, k, g

(* Storing a record and entering an alias keep the counters. *)
LEMMA StoredCounts ==
    ASSUME NEW f, Counted(f), NEW g, Stored(f, g)
    PROVE  Counted(g)
<1> PICK path \in Path, rec \in Record : g = StoreRecord(f, path, rec)
  BY DEF Stored
<1> DEFINE base == f.hdr.fileSize
           entry == Entry(path, "PRIMARY", base, rec.type)
           written == [hdr |-> f.hdr, hash |-> f.hash,
                       cells |-> WriteRecord(f.cells, base, path, rec),
                       spilled |-> f.spilled \/ f.hdr.binsRemain <= 0]
           room == IF f.hdr.binsRemain <= 0 THEN AllocateNewBinBlock(written)
                   ELSE written
           taken == TakeSlot(room, entry)
           eof == base + Size(rec.content)
<1>1. f \in Image /\ f.hdr.binsRemain \in Nat /\ base \in Nat
  BY ImageFields DEF Counted, HeaderWord
<1>2. /\ rec.type \in RecordType /\ rec.content \in Content
      /\ entry \in Cell /\ entry.path \in Path
  BY <1>1 DEF Record, Entry, Cell, Status, Address
<1>3. written \in Image
  BY <1>1, <1>2, WriteRecordType DEF Image, Header, HeaderWord
<1>4. Counted(written)
  BY <1>3 DEF Counted, CountersAgree
<1>5. Counted(room) /\ room.hdr.binsRemain # 0
  <2>1. CASE f.hdr.binsRemain <= 0
    <3>1. written.hdr.binsRemain = 0
      BY <1>1, <2>1
    <3> HIDE DEF written
    <3>2. Counted(AllocateNewBinBlock(written))
      BY <1>4, <3>1, AllocateCounts
    <3>3. AllocateNewBinBlock(written).hdr["binsRemain"] = BinsPerBlock
      BY <1>3, AllocateWords DEF HeaderWord
    <3>4. QED
      BY <2>1, <3>2, <3>3, ImageAssumption
  <2>2. CASE ~ f.hdr.binsRemain <= 0
    BY <1>1, <1>4, <2>2
  <2>3. QED
    BY <2>1, <2>2
<1>6. g = [hdr |-> [taken.hdr EXCEPT !["numberRecords"] = @ + 1,
                                     !["fileSize"] = eof],
           hash |-> taken.hash, cells |-> taken.cells,
           spilled |-> taken.spilled]
  BY DEF StoreRecord, WriteBinEntry, EnterBin
<1> HIDE DEF room, entry, base
<1> DEFINE hdr == [taken.hdr EXCEPT !["numberRecords"] = @ + 1]
<1>7. taken \in Image /\ CountedParts(hdr, taken.hash)
  BY <1>2, <1>5, TakeSlotCounts
<1>8. eof \in Nat \ {0}
  BY <1>1, <1>2, OffsetType
<1>9. g \in Image
  BY <1>1, StoreRecordType
<1> DEFINE k == taken.hdr
<1>10. k \in [HeaderWord -> Nat]
  BY <1>7, ImageFields DEF Header
<1>11. CountedParts(g.hdr, g.hash)
  <2>1. g.hdr = [k EXCEPT !["numberRecords"] = @ + 1, !["fileSize"] = eof]
        /\ g.hash = taken.hash
    BY <1>6
  <2> HIDE DEF k, eof, taken
  <2>2. \A w \in HeaderWord \ {"fileSize"} : g.hdr[w] = hdr[w]
    BY <1>10, <2>1 DEF k
  <2>3. g.hdr["fileSize"] # 0
    BY <1>8, <1>10, <2>1 DEF HeaderWord
  <2> HIDE DEF hdr
  <2>4. /\ g.hdr["totalBins"] = hdr["totalBins"]
        /\ g.hdr["numberRecords"] = hdr["numberRecords"]
        /\ g.hdr["numberAliases"] = hdr["numberAliases"]
        /\ g.hdr["binsRemain"] = hdr["binsRemain"]
        /\ g.hdr["binsOverflow"] = hdr["binsOverflow"]
        /\ g.hdr["hashsUsed"] = hdr["hashsUsed"]
        /\ g.hdr["nextBin"] = hdr["nextBin"]
    BY <2>2 DEF HeaderWord
  <2>5. QED
    BY <1>7, <2>1, <2>3, <2>4 DEF CountedParts
<1>12. QED
  BY <1>9, <1>11, CountedIsParts

(* An alias entered keeps them right. *)
LEMMA AliasedCounts ==
    ASSUME NEW f, Counted(f), NEW g, Aliased(f, g)
    PROVE  Counted(g)
<1> PICK slot \in DOMAIN f.cells, alias \in Path :
           /\ HasTag(f, slot, "entry")
           /\ g = Count(EnterBin(f, Entry(alias, "ALIAS", f.cells[slot].info,
                                         f.cells[slot].type)),
                        "numberAliases")
  BY DEF Aliased
<1> DEFINE entry == Entry(alias, "ALIAS", f.cells[slot].info,
                          f.cells[slot].type)
           room == IF f.hdr.binsRemain <= 0 THEN AllocateNewBinBlock(f) ELSE f
           taken == TakeSlot(room, entry)
<1>1. f \in Image /\ f.hdr.binsRemain \in Nat
  BY ImageFields DEF Counted, HeaderWord
<1>2. entry \in Cell /\ entry.path \in Path
  BY <1>1, FoundEntry DEF Entry, Cell, Status
<1>3. Counted(room) /\ room.hdr.binsRemain # 0
  <2>1. CASE f.hdr.binsRemain <= 0
    <3>1. Counted(AllocateNewBinBlock(f))
      BY <1>1, <2>1, AllocateCounts
    <3>2. AllocateNewBinBlock(f).hdr["binsRemain"] = BinsPerBlock
      BY <1>1, AllocateWords DEF HeaderWord
    <3>3. QED
      BY <2>1, <3>1, <3>2, ImageAssumption
  <2>2. CASE ~ f.hdr.binsRemain <= 0
    BY <1>1, <2>2
  <2>3. QED
    BY <2>1, <2>2
<1>4. g = Count(taken, "numberAliases")
  BY DEF EnterBin
<1> HIDE DEF room, entry
<1> DEFINE hdr == [taken.hdr EXCEPT !["numberAliases"] = @ + 1]
<1>5. taken \in Image /\ CountedParts(hdr, taken.hash)
  BY <1>2, <1>3, TakeSlotCounts
<1>6. g \in Image
  BY <1>4, <1>5, CountType DEF HeaderWord
<1> HIDE DEF taken
<1>7. g.hdr = hdr /\ g.hash = taken.hash
  <2>1. g = [hdr |-> hdr, hash |-> taken.hash, cells |-> taken.cells,
             spilled |-> taken.spilled]
    BY <1>4 DEF Count
  <2> HIDE DEF hdr
  <2>2. QED
    BY <2>1
<1>8. QED
  BY <1>5, <1>6, <1>7, CountedIsParts

(* A status set keeps them right. *)
LEMMA MarkedCounts ==
    ASSUME NEW f, Counted(f), NEW g, Marked(f, g)
    PROVE  Counted(g)
<1>1. f \in Image /\ CountedParts(f.hdr, f.hash)
  BY CountedIsParts
<1>2. g \in Image
  BY <1>1, ChangeType DEF Change
<1>3. /\ g.hash = f.hash
      /\ \/ g.hdr = f.hdr
         \/ \E word \in {"numberDeletes", "numberAliasDeletes"} :
                g.hdr = [f.hdr EXCEPT ![word] = @ + 1]
  BY DEF Marked, SetStatus, Count
<1> DEFINE h == f.hdr
           k == g.hdr
<1>4. h \in [HeaderWord -> Nat]
  BY <1>1, ImageFields DEF Header
<1>5. k = h \/ \E word \in {"numberDeletes", "numberAliasDeletes"} :
                  k = [h EXCEPT ![word] = @ + 1]
  BY <1>3
<1>6. CountedParts(h, f.hash)
  BY <1>1
<1> HIDE DEF h, k
<1>7. CountedParts(k, f.hash)
  BY <1>4, <1>5, <1>6 DEF CountedParts, HeaderWord
<1>8. QED
  BY <1>2, <1>3, <1>7, CountedIsParts DEF k

(* They are right in a new file. *)
LEMMA NewFileCounts == Counted(NewFile)
<1>1. {h \in 0..MaxHash-1 : NewFile.hash[h] # 0} = {}
  BY DEF NewFile
<1>2. Cardinality({h \in 0..MaxHash-1 : NewFile.hash[h] # 0}) = 0
  BY <1>1, FS_EmptySet
<1>3. QED
  BY <1>2, NewFileType, BlockType, ImageAssumption
     DEF Counted, CountersAgree, NewFile, HeaderWord

(* The counters of file and tmp agree with each other and with the hash    *)
(* table in every state, even after a bin block was laid over a record:    *)
(* that damages records, not the account of them.                          *)
THEOREM CountersCorrect == Spec => []Accounting
<1> DEFINE Inv == TypeOK /\ Counted(file) /\ Counted(tmp)
<1>1. Init => Inv
  BY NewFileType, NewFileCounts DEF Init, TypeOK
<1>2. Inv /\ [Next]_vars => Inv'
  <2> SUFFICES ASSUME Inv, [Next]_vars
               PROVE  Inv'
    OBVIOUS
  <2>1. ASSUME NEW f, NEW g, Counted(f), Change(f, g)
        PROVE  Counted(g)
    BY <2>1, StoredCounts, AliasedCounts, MarkedCounts DEF Change
  <2>2. QED
    BY <2>1, Steps, NewFileCounts DEF TypeOK, Counted
<1>3. Inv => Accounting
  BY DEF Accounting, Counted
<1>4. QED
  BY <1>1, <1>2, <1>3, PTL DEF Spec

-----------------------------------------------------------------------------
(* Records, free bin slots and the end of the file stay apart in every     *)
(* execution, until a bin block is allocated in the middle of storing a    *)
(* record.                                                                 *)

(* A safe file is what RecordsIntact and RegionsApart say of it. *)
LEMMA SafeIsIntact ==
    ASSUME NEW f, Safe(f)
    PROVE  Intact(f)
<1> SUFFICES ASSUME ~ f.spilled, NEW slot \in DOMAIN f.cells,
                    HasTag(f, slot, "entry")
             PROVE  /\ HasInfo(f, slot)
                    /\ f.cells[f.cells[slot].info].type = f.cells[slot].type
                    /\ \A a \in Area :
                           LET addr == f.cells[f.cells[slot].info].at[a]
                           IN  addr # 0 => HasTag(f, addr, "data")
  BY DEF Intact, EntriesIntact
<1>1. Leads(f.cells, f.cells[slot].info, f.cells[slot].type, f.hdr["fileSize"])
  BY DEF Safe, Laid, EntriesLead, HasTag
<1>2. QED
  BY <1>1 DEF Leads, HasInfo, HasTag

(* The layout keeps the regions apart. *)
LEMMA SafeIsApart ==
    ASSUME NEW f, Safe(f)
    PROVE  Apart(f)
<1> SUFFICES ASSUME ~ f.spilled
             PROVE  /\ f.hdr.nextBin # 0
                    /\ f.hdr.nextBin + f.hdr.binsRemain * BinSize
                         < f.hdr.fileSize
                    /\ f.hdr.fileSize <= Len(f.cells) + 1
                    /\ \A i \in FreeSlots(f) : f.cells[i] = Zero
                    /\ \A slot \in DOMAIN f.cells :
                           HasTag(f, slot, "entry") => BelowSize(f, slot)
  BY DEF Apart
<1>1. Laid(f.cells, f.hdr["nextBin"], f.hdr["binsRemain"] * BinSize,
           f.hdr["fileSize"])
  BY DEF Safe
<1>2. ASSUME NEW slot \in DOMAIN f.cells, HasTag(f, slot, "entry")
      PROVE  BelowSize(f, slot)
  BY <1>1, <1>2 DEF Laid, EntriesLead, Leads, HasTag, BelowSize
<1>3. QED
  BY <1>1, <1>2 DEF Laid, FreeSlots

-----------------------------------------------------------------------------

SafeFiles == TypeOK /\ Safe(file) /\ Safe(tmp)

(* No operation, and no step of squeeze, leaves a file that is not safe.   *)
LEMMA SafeAlways == Spec => []SafeFiles
<1>1. Init => SafeFiles
  BY NewFileType, NewFileSafe DEF Init, TypeOK, SafeFiles
<1>2. SafeFiles /\ [Next]_vars => SafeFiles'
  <2> SUFFICES ASSUME SafeFiles, [Next]_vars
               PROVE  SafeFiles'
    OBVIOUS
  <2>1. ASSUME NEW f, NEW g, Safe(f), Change(f, g)
        PROVE  Safe(g)
    BY <2>1, StoredSafe, AliasedSafe, MarkedSafe DEF Change
  <2>2. QED
    BY <2>1, Steps, NewFileSafe DEF SafeFiles, TypeOK, Safe
<1>3. QED
  BY <1>1, <1>2, PTL DEF Spec

(* Every bin entry leads to an info block of its type, and that to data,   *)
(* in every execution in which no write allocates a bin block.             *)
THEOREM NoRecordDestroyed == Spec => []RecordsIntact
<1>1. SafeFiles => RecordsIntact
  BY SafeIsIntact DEF SafeFiles, RecordsIntact
<1>2. QED
  BY <1>1, SafeAlways, PTL

(* In those executions the free slots and the overflow word are zero, and  *)
(* they and all that an entry leads to lie below FILE_SIZE.                *)
THEOREM RegionsStayApart == Spec => []RegionsApart
<1>1. SafeFiles => RegionsApart
  BY SafeIsApart DEF SafeFiles, RegionsApart
<1>2. QED
  BY <1>1, SafeAlways, PTL

-----------------------------------------------------------------------------
(* The log of a file whose bins can be walked.                             *)

(* The log lists the entries the walk comes by. *)
LEMMA LogIsLogs ==
    ASSUME NEW f \in Image, LaidOut(f), NEW chain, Walked(f, chain)
    PROVE  LogOf(f) = Logs(f, chain)
<1> DEFINE m == f.hdr["totalBins"]
           slots == SlotsOf(chain, m)
<1>1. ReadAllBins(f) = slots /\ m \in Nat
  BY WalkFinds
<1>2. Len(slots) = m /\ \A k \in 1..m : slots[k] = SlotAt(chain, k)
  BY <1>1 DEF SlotsOf
<1> HIDE DEF slots
<1>3. LogOf(f) = [i \in 1..m |->
            LET entry == f.cells[slots[i]]
                rec   == RecordAt(f, slots[i])
            IN  [path |-> entry.path, type |-> rec.type,
                 content |-> rec.content, status |-> entry.status]]
  BY <1>1, <1>2 DEF LogOf
<1>4. LogOf(f) = [i \in 1..m |-> Logged(f, slots[i])]
  BY <1>3 DEF Logged
<1>5. \A k \in 1..m : Logged(f, slots[k]) = Logged(f, SlotAt(chain, k))
  BY <1>2
<1>6. QED
  BY <1>4, <1>5 DEF Logs

(* The log's notions of a record are those of the file. *)
LEMMA SameNotions ==
    /\ Log!NoRecord = NoRecord
    /\ \A s, at : Log!Selected(s, at) = Selected(s, at)
    /\ \A type, r : /\ Log!SqueezeFails(type, r) <=> SqueezeFails(type, r)
                    /\ Log!SqueezeCopies(type, r) <=> SqueezeCopies(type, r)
                    /\ Log!SqueezeForm(type, r) = SqueezeForm(type, r)
<1>1. Log!Area = Area /\ Log!Empty = Empty /\ Log!NoArea = NoArea
      /\ Log!Garbled = Garbled
  BY DEF Log!Area, Area, Log!Empty, Empty, Log!NoArea, NoArea, Log!Garbled, Garbled
<1>2. Log!NoRecord = NoRecord
  BY <1>1 DEF Log!NoRecord, NoRecord
<1>3. \A s, at : Log!Selected(s, at) = Selected(s, at)
  BY DEF Log!Selected, Selected
<1>4. \A t : /\ Log!IsText(t) = IsText(t) /\ Log!IsTimeSeries(t) = IsTimeSeries(t)
             /\ Log!IsPairedData(t) = IsPairedData(t)
  BY DEF Log!IsText, IsText, Log!IsTimeSeries, IsTimeSeries,
         Log!IsPairedData, IsPairedData
<1>5. \A r : Log!ReadText(r) = ReadText(r)
  BY <1>1, <1>4 DEF Log!ReadText, ReadText
<1>6. \A x, y, z, w : /\ Log!TextRecord(x) = TextRecord(x)
                      /\ Log!TsRecord(x, y) = TsRecord(x, y)
                      /\ Log!PdRecord(x, y, z, w) = PdRecord(x, y, z, w)
  BY <1>1 DEF Log!TextRecord, TextRecord, Log!TsRecord, TsRecord,
              Log!PdRecord, PdRecord, Log!TEXT, TEXT, Log!RTD, RTD, Log!PDD, PDD
<1>7. ASSUME NEW type, NEW r
      PROVE  /\ Log!SqueezeFails(type, r) <=> SqueezeFails(type, r)
             /\ Log!SqueezeCopies(type, r) <=> SqueezeCopies(type, r)
             /\ Log!SqueezeForm(type, r) = SqueezeForm(type, r)
  BY <1>1, <1>2, <1>4, <1>5, <1>6
     DEF Log!SqueezeFails, SqueezeFails, Log!ReadTsFails, ReadTsFails,
         Log!ReadPdFails, ReadPdFails, Log!SqueezeCopies, SqueezeCopies,
         Log!SqueezeForm, SqueezeForm
<1>8. QED
  BY <1>2, <1>3, <1>7

\* The log is that of a file that can be walked, whose bins chain leads through.
Mapped(f, chain) ==
    /\ f \in Image /\ Safe(f) /\ ~ f.spilled
    /\ Walked(f, chain)
    /\ log = Logs(f, chain)

(* What the log and the hash table have of each entry. *)
LEMMA MappedFields ==
    ASSUME NEW f, NEW chain, Mapped(f, chain)
    PROVE  LET m == f.hdr["totalBins"]
           IN  /\ m \in Nat /\ DOMAIN log = 1..m /\ Len(log) = m
               /\ \A k \in 1..m :
                      /\ HasTag(f, SlotAt(chain, k), "entry")
                      /\ SlotAt(chain, k) # 0
                      /\ log[k] = Logged(f, SlotAt(chain, k))
                      /\ log[k].path = f.cells[SlotAt(chain, k)].path
                      /\ log[k].status = f.cells[SlotAt(chain, k)].status
               /\ \A h \in 0..MaxHash-1 :
                      \/ /\ f.hash[h] = 0
                         /\ \A k \in 1..m : TableHash[log[k].path] # h
                      \/ \E k \in 1..m :
                             /\ f.hash[h] = SlotAt(chain, k)
                             /\ TableHash[log[k].path] = h
                             /\ \A j \in 1..(k - 1) : TableHash[log[j].path] # h
  BY LogsFields DEF Mapped

\* What the hash table and the log say of a name.
SameFound(f, chain, path) ==
    LET i == Log!Oldest(path)
        j == Log!Find(path)
    IN  /\ \/ i = 0 /\ HashSlot(f, path) = 0
           \/ i \in DOMAIN log /\ HashSlot(f, path) = SlotAt(chain, i)
        /\ \/ j = 0 /\ FindRecord(f, path) = 0
           \/ /\ j \in DOMAIN log /\ j = i
              /\ FindRecord(f, path) = SlotAt(chain, j)
              /\ log[j].path = path

(* A name's slot of the hash table leads to the oldest entry of its hash. *)
LEMMA FoundAlike ==
    ASSUME NEW f, NEW chain, Mapped(f, chain), NEW path \in Path
    PROVE  SameFound(f, chain, path)
<1> DEFINE m == f.hdr["totalBins"]
           h == TableHash[path]
           class == {i \in DOMAIN log : TableHash[log[i].path] = TableHash[path]}
           i == Log!Oldest(path)
<1>1. /\ m \in Nat /\ DOMAIN log = 1..m
      /\ \A k \in 1..m : /\ HasTag(f, SlotAt(chain, k), "entry")
                         /\ SlotAt(chain, k) # 0
                         /\ log[k].path = f.cells[SlotAt(chain, k)].path
  BY MappedFields
<1>2. \/ f.hash[h] = 0 /\ \A k \in 1..m : TableHash[log[k].path] # h
      \/ \E k \in 1..m : /\ f.hash[h] = SlotAt(chain, k)
                         /\ TableHash[log[k].path] = h
                         /\ \A j \in 1..(k - 1) : TableHash[log[j].path] # h
  <2>1. h \in 0..MaxHash-1
    BY ImageAssumption
  <2> HIDE DEF h, m
  <2>2. QED
    BY <2>1, MappedFields DEF m
<1>3. HashSlot(f, path) = f.hash[h]
  BY DEF HashSlot
<1>4. i = IF class = {} THEN 0 ELSE CHOOSE x \in class : \A y \in class : x <= y
  BY DEF Log!Oldest
<1>5. Log!Find(path) = IF i # 0 /\ log[i].path = path THEN i ELSE 0
  BY DEF Log!Find
<1> HIDE DEF i
<1>6. CASE f.hash[h] = 0 /\ \A k \in 1..m : TableHash[log[k].path] # h
  <2>1. class = {}
    BY <1>1, <1>6
  <2>2. i = 0
    BY <1>4, <2>1
  <2>3. ~ HasTag(f, 0, "entry")
    <3>1. f.cells \in Seq(Cell)
      BY ImageFields DEF Mapped
    <3>2. QED
      BY <3>1 DEF HasTag
  <2>4. FindRecord(f, path) = 0 /\ HashSlot(f, path) = 0
    BY <1>3, <1>6, <2>3 DEF FindRecord
  <2>5. QED
    BY <1>5, <2>2, <2>4 DEF SameFound, i
<1>7. ASSUME NEW k \in 1..m, f.hash[h] = SlotAt(chain, k),
             TableHash[log[k].path] = h,
             \A j \in 1..(k - 1) : TableHash[log[j].path] # h
      PROVE  SameFound(f, chain, path)
  <2>1. k \in class
    BY <1>1, <1>7
  <2>2. \A y \in class : k <= y
    BY <1>1, <1>7
  <2>3. \A x \in class : (\A y \in class : x <= y) => x = k
    BY <1>1, <2>1, <2>2
  <2> HIDE DEF class
  <2>4. i = CHOOSE x \in class : \A y \in class : x <= y
    BY <1>4, <2>1
  <2>5. i = k
    BY <2>1, <2>2, <2>3, <2>4
  <2>6. HashSlot(f, path) = SlotAt(chain, k)
    BY <1>3, <1>7
  <2>7. FindRecord(f, path) = IF log[k].path = path THEN SlotAt(chain, k) ELSE 0
    BY <1>1, <2>6 DEF FindRecord
  <2>8. i # 0 /\ k \in DOMAIN log
    BY <1>1, <2>5
  <2>9. QED
    BY <1>5, <2>5, <2>6, <2>7, <2>8 DEF SameFound, i
<1>8. QED
  BY <1>2, <1>6, <1>7

(* What is read under a name is what the log has for it. *)
LEMMA ReadAlike ==
    ASSUME NEW f, NEW chain, Mapped(f, chain), NEW path \in Path
    PROVE  ReadRecord(f, path) = Log!Read(path)
<1> DEFINE j == Log!Find(path)
<1>1. \/ j = 0 /\ FindRecord(f, path) = 0
      \/ /\ j \in DOMAIN log
         /\ FindRecord(f, path) = SlotAt(chain, j)
  BY FoundAlike DEF SameFound
<1>2. Log!Read(path) = IF j = 0 THEN NoRecord
                       ELSE [type |-> log[j].type, content |-> log[j].content]
  BY SameNotions DEF Log!Read
<1> HIDE DEF j
<1>3. CASE j = 0 /\ FindRecord(f, path) = 0
  <2>1. f.cells \in Seq(Cell)
    BY ImageFields DEF Mapped
  <2>2. RecordAt(f, 0) = NoRecord
    BY <2>1 DEF RecordAt, HasInfo, HasTag
  <2>3. QED
    BY <1>2, <1>3, <2>2 DEF ReadRecord
<1>4. CASE j \in DOMAIN log /\ FindRecord(f, path) = SlotAt(chain, j)
  <2> DEFINE rec == RecordAt(f, SlotAt(chain, j))
  <2>1. j # 0 /\ log[j] = Logged(f, SlotAt(chain, j))
    BY <1>4, MappedFields
  <2>2. log[j].type = rec.type /\ log[j].content = rec.content
    BY <2>1 DEF Logged
  <2>3. rec = [type |-> rec.type, content |-> rec.content]
    BY DEF RecordAt, NoRecord
  <2>4. QED
    BY <1>2, <1>4, <2>1, <2>2, <2>3 DEF ReadRecord
<1>5. QED
  BY <1>1, <1>3, <1>4

-----------------------------------------------------------------------------
(* The files can always be walked, and the log is that of the file.        *)

WalkInv ==
    /\ TypeOK
    /\ Walkable(file) /\ Walkable(tmp)
    /\ log = LogOf(file)

(* The bins can be walked in every state. *)
LEMMA WalkInvHolds == LogSpec => []WalkInv
<1>1. LogInit => WalkInv
  BY NewFileWalkable, NewFileType DEF LogInit, Init, WalkInv, TypeOK
<1>2. WalkInv /\ [LogNext]_<<vars, log>> => WalkInv'
  <2> SUFFICES ASSUME WalkInv, [LogNext]_<<vars, log>>
               PROVE  WalkInv'
    OBVIOUS
  <2>1. [Next]_vars
    BY DEF LogNext
  <2>2. log' = LogOf(file')
    BY DEF LogNext, WalkInv, vars
  <2>3. /\ Change(file, file') \/ file' = tmp
        /\ Change(tmp, tmp') \/ tmp' = NewFile
        /\ pc' \in {"idle", "squeeze"}
    BY <2>1, Steps DEF WalkInv
  <2>4. Walkable(file')
    BY <2>3, WalkableChange DEF WalkInv
  <2>5. Walkable(tmp')
    BY <2>3, WalkableChange, NewFileWalkable DEF WalkInv
  <2>6. file' \in Image /\ tmp' \in Image
    BY <2>4, <2>5 DEF Walkable, Safe
  <2>7. QED
    BY <2>2, <2>3, <2>4, <2>5, <2>6 DEF WalkInv, TypeOK
<1>3. QED
  BY <1>1, <1>2, PTL DEF LogSpec

(* A file that has no block laid over a record is mapped to its log. *)
LEMMA WalkIsMapped ==
    ASSUME WalkInv, ~ file.spilled
    PROVE  \E chain : Mapped(file, chain)
<1>1. PICK chain : Walked(file, chain)
  BY DEF WalkInv, Walkable
<1>2. Safe(file) /\ file \in Image /\ LaidOut(file)
  BY DEF WalkInv, Walkable, Safe, LaidOut, LaidTo
<1>3. log = Logs(file, chain)
  BY <1>1, <1>2, LogIsLogs DEF WalkInv
<1>4. QED
  BY <1>1, <1>2, <1>3 DEF Mapped

(* Until a bin block is laid over a record, the hash table leads each name
   to the record of the oldest entry of its table hash, if that entry is the
   name's, and to nothing otherwise: find_pathname, which looks at one slot,
   agrees with the catalog, which read_all_bins makes by walking all bins. *)
THEOREM LookupsMatchLog == LogSpec => []LookupMatchesLog
<1>1. WalkInv => LookupMatchesLog
  <2>1. SUFFICES ASSUME WalkInv, ~ file.spilled, NEW path \in Path
                 PROVE  ReadRecord(file, path) = Log!Read(path)
    BY DEF LookupMatchesLog
  <2>2. QED
    BY <2>1, WalkIsMapped, ReadAlike
<1>2. QED
  BY <1>1, WalkInvHolds, PTL

-----------------------------------------------------------------------------
(* The operations of the handle as operations of the log.                  *)

(* The log of a file that is walked has its entries. *)
LEMMA LogOfWalked ==
    ASSUME NEW f, Safe(f), ~ f.spilled, NEW chain, Walked(f, chain)
    PROVE  LogOf(f) = Logs(f, chain)
  BY LogIsLogs DEF Safe, LaidOut, LaidTo

(* A new file has an empty log. *)
LEMMA LogOfNewFile == LogOf(NewFile) = << >>
<1>1. Safe(NewFile) /\ ~ NewFile.spilled
  BY NewFileSafe DEF NewFile
<1>2. LogOf(NewFile) = Logs(NewFile, << FirstBin >>)
  BY <1>1, NewFileWalked, LogOfWalked
<1>3. NewFile.hdr["totalBins"] = 0
  BY DEF NewFile, HeaderWord
<1>4. QED
  BY <1>2, <1>3 DEF Logs

\* A step between two files none of whose blocks lies over a record.
LogStep ==
    /\ WalkInv /\ ~ file.spilled /\ ~ file'.spilled
    /\ log' = LogOf(file')

(* Each write function stores one of the records that can be stored. *)
LEMMA WriteStores ==
    ASSUME Write
    PROVE  \E path \in Path, rec \in Writable : rec \in Record /\ Store(path, rec)
<1>1. PICK path \in Path, v \in Value :
         \/ \E text \in {v, Empty} : WriteText(path, text)
         \/ WriteTs(path, v)
         \/ WriteTsIrregular(path, v)
         \/ \E labels \in {"labels", Empty} : WritePd(path, v, labels)
         \/ \E present \in SUBSET {"v1", "v2", "v3"} :
                WriteArray(path, present, v)
         \/ \E supplemental \in {"supplemental", Empty} :
                WriteLocation(path, v, supplemental)
         \/ WriteGrid(path, v)
  BY DEF Write
<1>2. {v, Empty, "labels", "units", "ordinates", "supplemental"} \subseteq Payload
  BY DEF Payload, Token
<1>3. SUBSET {"v1", "v2", "v3"} \subseteq SUBSET Area
  BY DEF Area
<1>4. ASSUME NEW text \in {v, Empty}, WriteText(path, text)
      PROVE  \E rec \in Writable : rec \in Record /\ Store(path, rec)
  <2>1. TextRecord(text) \in Writable
    BY DEF Writable
  <2>2. QED
    BY <1>2, <1>4, <2>1, RecordTypes DEF WriteText
<1>5. CASE WriteTs(path, v)
  <2>1. TsRecord(v, "units") \in Writable
    BY DEF Writable
  <2>2. QED
    BY <1>2, <1>5, <2>1, RecordTypes DEF WriteTs
<1>6. CASE WriteTsIrregular(path, v)
  <2>1. TsIrregularRecord(v) \in Writable
    BY DEF Writable
  <2>2. QED
    BY <1>2, <1>6, <2>1, RecordTypes DEF WriteTsIrregular
<1>7. ASSUME NEW labels \in {"labels", Empty}, WritePd(path, v, labels)
      PROVE  \E rec \in Writable : rec \in Record /\ Store(path, rec)
  <2>1. PdRecord("ordinates", v, "units", labels) \in Writable
    BY DEF Writable
  <2>2. QED
    BY <1>2, <1>7, <2>1, RecordTypes DEF WritePd
<1>8. ASSUME NEW present \in SUBSET {"v1", "v2", "v3"}, WriteArray(path, present, v)
      PROVE  \E rec \in Writable : rec \in Record /\ Store(path, rec)
  <2>1. present \in (SUBSET {"v1", "v2", "v3"}) \ {{}}
    BY <1>8 DEF WriteArray
  <2>2. ArrayRecord(present, v) \in
            {ArrayRecord(p, w) : p \in (SUBSET {"v1", "v2", "v3"}) \ {{}}, w \in Value}
    BY <2>1
  <2>3. ArrayRecord(present, v) \in Writable
    BY <2>2 DEF Writable
  <2>4. QED
    BY <1>2, <1>3, <1>8, <2>3, RecordTypes DEF WriteArray
<1>9. ASSUME NEW supplemental \in {"supplemental", Empty},
             WriteLocation(path, v, supplemental)
      PROVE  \E rec \in Writable : rec \in Record /\ Store(path, rec)
  <2>1. LocationRecord(v, supplemental) \in Writable
    BY DEF Writable
  <2>2. QED
    BY <1>2, <1>9, <2>1, RecordTypes DEF WriteLocation
<1>10. CASE WriteGrid(path, v)
  <2>1. GridRecord(v) \in Writable
    BY DEF Writable
  <2>2. QED
    BY <1>2, <1>10, <2>1, RecordTypes DEF WriteGrid
<1>11. QED
  BY <1>1, <1>4, <1>5, <1>6, <1>7, <1>8, <1>9, <1>10

(* A write is a Put of the log. *)
LEMMA WritePuts ==
    ASSUME LogStep, Write
    PROVE  Log!Put
<1>1. PICK path \in Path, rec \in Writable : rec \in Record /\ Store(path, rec)
  BY WriteStores
<1>2. PICK chain : Mapped(file, chain)
  BY WalkIsMapped DEF LogStep
<1>3. file' = StoreRecord(file, path, rec)
  BY <1>1 DEF Store
<1>4. Safe(file')
  BY <1>1, <1>2, <1>3, ChangeSafe DEF Mapped, Change, Stored
<1>5. /\ Walked(file', chain)
      /\ Logs(file', chain)
           = Append(log, [path |-> path, type |-> rec.type,
                          content |-> rec.content, status |-> "PRIMARY"])
  BY <1>1, <1>2, <1>3, StoredWalk DEF Mapped, LogStep
<1>6. log' = Append(log, Log!Made(path, rec, "PRIMARY"))
  BY <1>4, <1>5, LogOfWalked DEF LogStep, Log!Made
<1>7. QED
  BY <1>1, <1>6 DEF Log!Put

(* alias_add is an AliasAdd of the log. *)
LEMMA AliasAdds ==
    ASSUME LogStep, Alias
    PROVE  Log!AliasAdd
<1>1. PICK primary \in Path, alias \in Path : AliasAdd(primary, alias)
  BY DEF Alias
<1>2. PICK chain : Mapped(file, chain)
  BY WalkIsMapped DEF LogStep
<1> DEFINE slot == FindRecord(file, primary)
<1>3. /\ slot # 0
      /\ file' = Count(EnterBin(file, Entry(alias, "ALIAS", file.cells[slot].info,
                                            file.cells[slot].type)), "numberAliases")
  BY <1>1 DEF AliasAdd
<1>4. HasTag(file, slot, "entry") /\ slot \in DOMAIN file.cells
  BY <1>2, <1>3, FoundRecord DEF Mapped, HasTag
<1>5. Log!Find(primary) # 0
  <2>1. SameFound(file, chain, primary)
    BY <1>2, FoundAlike
  <2>2. DOMAIN log = 1..Len(log) /\ Len(log) \in Nat
    BY <1>2, MappedFields
  <2>3. QED
    BY <1>3, <2>1, <2>2 DEF SameFound
<1>6. RecordAt(file, slot) = Log!Read(primary)
  BY <1>2, ReadAlike DEF ReadRecord
<1> HIDE DEF slot
<1>7. Aliased(file, file')
  BY <1>3, <1>4 DEF Aliased
<1>8. Safe(file')
  BY <1>2, <1>7, ChangeSafe DEF Mapped, Change
<1>9. PICK new : /\ Walked(file', new)
                 /\ Logs(file', new)
                      = Append(log, [path |-> alias, type |-> RecordAt(file, slot).type,
                                     content |-> RecordAt(file, slot).content,
                                     status |-> "ALIAS"])
  BY <1>2, <1>3, <1>4, AliasedWalk DEF Mapped
<1>10. log' = Append(log, Log!Made(alias, Log!Read(primary), "ALIAS"))
  BY <1>6, <1>8, <1>9, LogOfWalked DEF LogStep, Log!Made
<1>11. QED
  BY <1>5, <1>10 DEF Log!AliasAdd

(* A new status of the i-th entry of the file is its new status in the log. *)
LEMMA MarksLog ==
    ASSUME LogStep, NEW chain, Mapped(file, chain), NEW i \in DOMAIN log,
           NEW status \in Status,
           LET marked == SetStatus(file, SlotAt(chain, i), status)
           IN  \/ file' = marked
               \/ \E word \in {"numberDeletes", "numberAliasDeletes"} :
                      file' = Count(marked, word)
    PROVE  Log!Mark(i, status)
<1> DEFINE r == Logged(file, SlotAt(chain, i))
           item == [path |-> r.path, type |-> r.type, content |-> r.content,
                    status |-> status]
           slot == SlotAt(chain, i)
<1>1. /\ i \in 1..file.hdr["totalBins"]
      /\ HasTag(file, slot, "entry") /\ slot \in DOMAIN file.cells
      /\ log[i] = r
  BY MappedFields DEF HasTag
<1>2. \/ file' = SetStatus(file, slot, status)
      \/ \E word \in {"numberDeletes", "numberAliasDeletes"} :
             file' = Count(SetStatus(file, slot, status), word)
  OBVIOUS
<1>3. Safe(file) /\ ~ file.spilled /\ Walked(file, chain) /\ log = Logs(file, chain)
  BY DEF Mapped
<1>4. Safe(file')
  <2> HIDE DEF slot
  <2>1. Marked(file, file')
    BY <1>1, <1>2 DEF Marked
  <2>2. QED
    BY <1>3, <2>1, ChangeSafe DEF Change
<1>5. /\ Walked(file', chain)
      /\ Logs(file', chain) = [log EXCEPT ![i] = item]
  BY <1>1, <1>2, <1>3, MarkedWalk
<1>6. log' = [log EXCEPT ![i] = item]
  BY <1>4, <1>5, LogOfWalked DEF LogStep
<1>7. [r EXCEPT !.status = status] = item
  BY DEF Logged
<1> HIDE DEF r, item, slot
<1>8. [log EXCEPT ![i].status = status] = [log EXCEPT ![i] = [log[i] EXCEPT !.status = status]]
  BY Zenon
<1>9. [log EXCEPT ![i].status = status] = [log EXCEPT ![i] = item]
  BY <1>1, <1>7, <1>8, Zenon
<1>10. QED
  BY <1>6, <1>9 DEF Log!Mark

(* delete is a Delete of the log. *)
LEMMA DeleteMarks ==
    ASSUME LogStep, NEW path \in Path, Delete(path)
    PROVE  Log!Delete
<1>1. PICK chain : Mapped(file, chain)
  BY WalkIsMapped DEF LogStep
<1> DEFINE j == Log!Find(path)
           slot == FindRecord(file, path)
<1>2. slot # 0 /\ file' = Count(SetStatus(file, slot, "DELETED"), "numberDeletes")
  BY DEF Delete
<1>3. j # 0 /\ j \in DOMAIN log /\ slot = SlotAt(chain, j)
  <2>1. \/ j = 0 /\ slot = 0
        \/ j \in DOMAIN log /\ slot = SlotAt(chain, j)
    <3>1. SameFound(file, chain, path)
      BY <1>1, FoundAlike
    <3>2. QED
      BY <3>1 DEF SameFound
  <2>2. DOMAIN log = 1..Len(log) /\ Len(log) \in Nat
    BY <1>1, MappedFields
  <2> HIDE DEF j, slot
  <2>3. QED
    BY <1>2, <2>1, <2>2
<1> HIDE DEF j, slot
<1>4. Log!Mark(j, "DELETED")
  BY <1>1, <1>2, <1>3, MarksLog DEF Status
<1>5. QED
  BY <1>3, <1>4 DEF Log!Delete, j

(* undelete and alias_remove: the entry of the hash, if it has the status. *)
LEMMA Remarks ==
    ASSUME LogStep, NEW path \in Path, NEW from \in Status, NEW to \in Status,
           SlotWith(path, from) # 0,
           LET marked == SetStatus(file, SlotWith(path, from), to)
           IN  file' = marked \/ file' = Count(marked, "numberAliasDeletes")
    PROVE  Log!Remark(from, to)
<1>1. PICK chain : Mapped(file, chain)
  BY WalkIsMapped DEF LogStep
<1> DEFINE i == Log!Oldest(path)
           slot == HashSlot(file, path)
<1>2. /\ SlotWith(path, from) = slot /\ slot # 0
      /\ PathHash[file.cells[slot].path] = PathHash[path]
      /\ file.cells[slot].status = from
  BY DEF SlotWith
<1>3. \/ file' = SetStatus(file, slot, to)
      \/ file' = Count(SetStatus(file, slot, to), "numberAliasDeletes")
  BY <1>2
<1>4. \/ i = 0 /\ slot = 0
      \/ i \in DOMAIN log /\ slot = SlotAt(chain, i)
  <2>1. SameFound(file, chain, path)
    BY <1>1, FoundAlike
  <2>2. QED
    BY <2>1 DEF SameFound
<1> HIDE DEF i, slot
<1>5. /\ i \in DOMAIN log /\ slot = SlotAt(chain, i) /\ i # 0
      /\ log[i].path = file.cells[slot].path
      /\ log[i].status = file.cells[slot].status
  BY <1>1, <1>2, <1>4, MappedFields
<1>6. Log!Mark(i, to)
  BY <1>1, <1>3, <1>5, MarksLog
<1>7. QED
  BY <1>2, <1>5, <1>6 DEF Log!Remark, i

(* So are the operations that set a status. *)
LEMMA MarkMarks ==
    ASSUME LogStep, Mark
    PROVE  Log!Delete \/ Log!Undelete \/ Log!AliasRemove
<1>1. PICK path \in Path : Delete(path) \/ Undelete(path) \/ AliasRemove(path)
  BY DEF Mark
<1>2. CASE Delete(path)
  BY <1>2, DeleteMarks
<1>3. CASE Undelete(path)
  <2>1. Log!Remark("DELETED", "PRIMARY")
    BY <1>3, Remarks DEF Undelete, Status
  <2>2. QED
    BY <2>1 DEF Log!Undelete
<1>4. CASE AliasRemove(path)
  <2>1. Log!Remark("ALIAS", "ALIAS_DELETED")
    BY <1>4, Remarks DEF AliasRemove, Status
  <2>2. QED
    BY <2>1 DEF Log!AliasRemove
<1>5. QED
  BY <1>1, <1>2, <1>3, <1>4

-----------------------------------------------------------------------------
(* The catalog of a file and the live entries of its log.                  *)

\* Two lists of entries with the same names and types.
Alike(a, b) ==
    /\ Len(b) = Len(a)
    /\ \A i \in 1..Len(a) : b[i].path = a[i].path /\ b[i].type = a[i].type

(* The live entries of the log are those of the catalog. *)
LEMMA CatalogAlike ==
    ASSUME NEW f, NEW chain, Mapped(f, chain)
    PROVE  /\ Catalog(f) \in Seq(Cell)
           /\ \E V : Log!Live \in Seq(V)
           /\ Alike(Catalog(f), Log!Live)
           /\ \A i \in 1..Len(Catalog(f)) : Catalog(f)[i].path \in Path
<1> DEFINE m == f.hdr["totalBins"]
           at == LiveAt(f, chain)
           pos == Positions(at, m)
           V == {log[i] : i \in 1..m}
<1>1. Safe(f) /\ ~ f.spilled /\ Walked(f, chain) /\ f \in Image
  BY DEF Mapped
<1>2. /\ m \in Nat /\ Catalog(f) \in Seq(Cell)
      /\ Enumerates(pos, at, m)
      /\ Len(Catalog(f)) = Len(pos)
      /\ \A i \in 1..Len(Catalog(f)) : Catalog(f)[i] = f.cells[SlotAt(chain, pos[i])]
  BY <1>1, CatalogPlaces
<1>3. /\ DOMAIN log = 1..m
      /\ \A k \in 1..m :
             /\ HasTag(f, SlotAt(chain, k), "entry")
             /\ log[k] = Logged(f, SlotAt(chain, k))
             /\ log[k].path = f.cells[SlotAt(chain, k)].path
             /\ log[k].status = f.cells[SlotAt(chain, k)].status
  BY MappedFields
<1>4. log = Logs(f, chain)
  BY DEF Mapped
<1>5. log \in Seq(V) /\ Len(log) = m
  <2>1. log \in [1..m -> V]
    BY <1>3, <1>4 DEF Logs
  <2> HIDE DEF m, V
  <2>2. QED
    BY <1>2, <2>1, FunctionIsSeq
<1>6. {i \in DOMAIN log : log[i].status \in {"PRIMARY", "ALIAS"}} = at
  BY <1>3 DEF LiveAt
<1>7. Log!Live = Selected(log, at)
  BY <1>6, SameNotions DEF Log!Live
<1>8. at \subseteq 1..m
  BY DEF LiveAt
<1>9. ASSUME NEW k \in 1..m
      PROVE  /\ log[k].path \in Path
             /\ log[k].type = f.cells[SlotAt(chain, k)].type
  <2> DEFINE s == SlotAt(chain, k)
  <2>1. HasTag(f, s, "entry") /\ log[k] = Logged(f, s) /\ log[k].path = f.cells[s].path
    BY <1>3
  <2> HIDE DEF s
  <2>2. s \in DOMAIN f.cells /\ f.cells[s].tag = "entry" /\ f.cells[s].path \in Path
    BY <1>1, <2>1, FoundEntry DEF HasTag
  <2>3. Leads(f.cells, f.cells[s].info, f.cells[s].type, f.hdr["fileSize"])
    BY <1>1, <2>2 DEF Safe, Laid, EntriesLead
  <2>4. HasInfo(f, s) /\ f.cells[f.cells[s].info].type = f.cells[s].type
    BY <2>1, <2>3 DEF HasInfo, HasTag, Leads
  <2>5. RecordAt(f, s).type = f.cells[s].type
    BY <2>4 DEF RecordAt
  <2>6. QED
    BY <2>1, <2>2, <2>5 DEF Logged, s
<1> HIDE DEF at, m, V
<1>10. /\ Log!Live \in Seq(V)
       /\ At(pos, Log!Live, log)
  BY <1>5, <1>7, <1>8, SelectedType, SelectedPositions
<1> HIDE DEF pos
<1>11. ASSUME NEW i \in 1..Len(Catalog(f))
       PROVE  /\ Log!Live[i].path = Catalog(f)[i].path
              /\ Log!Live[i].type = Catalog(f)[i].type
              /\ Catalog(f)[i].path \in Path
  <2>1. pos[i] \in 1..m
    BY <1>2, <1>8 DEF Enumerates
  <2>2. Log!Live[i] = log[pos[i]]
    BY <1>2, <1>10 DEF At
  <2>3. QED
    BY <1>2, <1>3, <1>9, <2>1, <2>2
<1>12. Len(Log!Live) = Len(Catalog(f))
  BY <1>2, <1>10 DEF At
<1>13. QED
  BY <1>2, <1>10, <1>11, <1>12 DEF Alike

\* Every element of s is one of a.
From(s, a) == \A i \in 1..Len(s) : \E j \in 1..Len(a) : s[i] = a[j]

(* The same selection of both is alike. *)
LEMMA SelectedAlike ==
    ASSUME NEW V, NEW a \in Seq(V), NEW W, NEW b \in Seq(W), Alike(a, b),
           NEW at, at \subseteq 1..Len(a)
    PROVE  /\ Alike(Selected(a, at), Selected(b, at))
           /\ Selected(a, at) \in Seq(V)
           /\ From(Selected(a, at), a)
<1> DEFINE pos == Positions(at, Len(a))
<1>1. Len(b) = Len(a) /\ Len(a) \in Nat
  BY DEF Alike
<1>2. Enumerates(pos, at, Len(a)) /\ At(pos, Selected(a, at), a)
      /\ At(pos, Selected(b, at), b)
  BY <1>1, SelectedPositions
<1>3. Selected(a, at) \in Seq(V)
  BY SelectedType
<1> HIDE DEF pos
<1>4. ASSUME NEW i \in 1..Len(pos)
      PROVE  /\ Selected(a, at)[i] = a[pos[i]] /\ pos[i] \in 1..Len(a)
             /\ Selected(b, at)[i].path = Selected(a, at)[i].path
             /\ Selected(b, at)[i].type = Selected(a, at)[i].type
  <2>1. pos[i] \in 1..Len(a)
    BY <1>2 DEF Enumerates
  <2>2. Selected(a, at)[i] = a[pos[i]] /\ Selected(b, at)[i] = b[pos[i]]
    BY <1>2 DEF At
  <2>3. QED
    BY <2>1, <2>2 DEF Alike
<1>5. Len(Selected(a, at)) = Len(pos) /\ Len(Selected(b, at)) = Len(pos)
  BY <1>2 DEF At
<1>6. QED
  BY <1>3, <1>4, <1>5 DEF Alike, From

-----------------------------------------------------------------------------
(* Squeeze: what its loop has made of the entries it has come by.          *)

\* The entries of the catalog for which a record is written.
CopiedAt(f) ==
    {i \in 1..Len(Catalog(f)) :
        SqueezeCopies(Catalog(f)[i].type, ReadRecord(f, Catalog(f)[i].path))}
FailsAt(f, i) == SqueezeFails(Catalog(f)[i].type, ReadRecord(f, Catalog(f)[i].path))

\* The log of what squeeze writes for entries s of the file f.
Carry(f, entry) ==
    LET rec == SqueezeForm(entry.type, ReadRecord(f, entry.path))
    IN  [path |-> entry.path, type |-> rec.type, content |-> rec.content,
         status |-> "PRIMARY"]
Carried(f, s) == [i \in 1..Len(s) |-> Carry(f, s[i])]

\* The first p entries of f's catalog have gone to t, and rest is left.
CarriedTo(f, t, p) ==
    /\ \A i \in 1..p : ~ FailsAt(f, i)
    /\ ~ t.spilled => LogOf(t) = Carried(f, Kept(Catalog(f), CopiedAt(f))[p])
Squeezing(f, t, rest) ==
    ~ f.spilled =>
        /\ Catalog(f) # << >>
        /\ \E p \in 0..Len(Catalog(f)) :
               /\ rest = SubSeq(Catalog(f), p + 1, Len(Catalog(f)))
               /\ CarriedTo(f, t, p)

(* What the log's compaction leaves is what squeeze carries over. *)
LEMMA CompactAlike ==
    ASSUME NEW f, NEW chain, Mapped(f, chain), Catalog(f) # << >>,
           \A i \in 1..Len(Catalog(f)) : ~ FailsAt(f, i),
           log' = Carried(f, Selected(Catalog(f), CopiedAt(f)))
    PROVE  Log!Compact
<1> DEFINE cat == Catalog(f)
           live == Log!Live
           at == CopiedAt(f)
           kept == Selected(cat, at)
           copied == Selected(live, at)
<1>1. /\ cat \in Seq(Cell) /\ Len(cat) \in Nat
      /\ Alike(cat, live)
      /\ \A i \in 1..Len(cat) : cat[i].path \in Path
  BY CatalogAlike
<1>2. PICK V : live \in Seq(V)
  BY CatalogAlike
<1>3. \A path \in Path : ReadRecord(f, path) = Log!Read(path)
  BY ReadAlike
<1>4. DOMAIN live = 1..Len(cat) /\ Len(live) = Len(cat)
  BY <1>1, <1>2 DEF Alike
<1>5. \A i \in 1..Len(cat) : /\ live[i].path = cat[i].path
                             /\ live[i].type = cat[i].type
                             /\ ReadRecord(f, cat[i].path) = Log!Read(live[i].path)
  BY <1>1, <1>3 DEF Alike
<1>6. at \subseteq 1..Len(cat)
  BY DEF CopiedAt
<1>7. {i \in DOMAIN live : Log!SqueezeCopies(live[i].type, Log!Read(live[i].path))} = at
  BY <1>4, <1>5, SameNotions DEF CopiedAt
<1> HIDE DEF live, cat, at
<1>8. /\ Alike(kept, copied)
      /\ kept \in Seq(Cell)
      /\ \A i \in 1..Len(kept) : \E j \in 1..Len(cat) : kept[i] = cat[j]
  <2>1. cat \in Seq(Cell) /\ live \in Seq(V) /\ Alike(cat, live)
        /\ at \subseteq 1..Len(cat)
    BY <1>1, <1>2, <1>6
  <2>2. /\ Alike(Selected(cat, at), Selected(live, at))
        /\ Selected(cat, at) \in Seq(Cell)
        /\ From(Selected(cat, at), cat)
    BY <2>1, SelectedAlike
  <2>3. QED
    BY <2>2 DEF From
<1> HIDE DEF kept, copied
<1>9. ASSUME NEW i \in 1..Len(kept)
      PROVE  Carry(f, kept[i]) =
                 Log!Made(copied[i].path,
                          Log!SqueezeForm(copied[i].type, Log!Read(copied[i].path)),
                          "PRIMARY")
  <2>1. copied[i].path = kept[i].path /\ copied[i].type = kept[i].type
    BY <1>8 DEF Alike
  <2>2. kept[i].path \in Path
    BY <1>1, <1>8
  <2>3. ReadRecord(f, kept[i].path) = Log!Read(copied[i].path)
    BY <1>3, <2>1, <2>2
  <2>4. QED
    BY <2>1, <2>3, SameNotions DEF Carry, Log!Made
<1>10. log' = [i \in 1..Len(copied) |->
                 Log!Made(copied[i].path,
                          Log!SqueezeForm(copied[i].type, Log!Read(copied[i].path)),
                          "PRIMARY")]
  <2>1. log' = [i \in 1..Len(kept) |-> Carry(f, kept[i])]
    BY DEF Carried, kept, cat, at
  <2>2. Len(copied) = Len(kept)
    BY <1>8 DEF Alike
  <2>3. QED
    BY <1>9, <2>1, <2>2
<1>11. live # << >>
  <2>1. Len(cat) # 0
    BY <1>1 DEF cat
  <2>2. QED
    BY <1>4, <2>1
<1>12. \A i \in DOMAIN live : ~ Log!SqueezeFails(live[i].type, Log!Read(live[i].path))
  BY <1>4, <1>5, SameNotions DEF FailsAt, cat
<1>13. copied = Log!Selected(live, {i \in DOMAIN live :
                    Log!SqueezeCopies(live[i].type, Log!Read(live[i].path))})
  BY <1>7, SameNotions DEF copied
<1>14. QED
  BY <1>10, <1>11, <1>12, <1>13 DEF Log!Compact, live

(* What squeeze has carried after p entries, and after one more. *)
LEMMA CarriedSteps ==
    ASSUME NEW f, Catalog(f) \in Seq(Cell)
    PROVE  LET kept(p) == Kept(Catalog(f), CopiedAt(f))[p]
           IN  /\ Carried(f, kept(0)) = << >>
               /\ \A p \in 1..Len(Catalog(f)) :
                      Carried(f, kept(p)) =
                          IF p \in CopiedAt(f)
                          THEN Append(Carried(f, kept(p - 1)),
                                      Carry(f, Catalog(f)[p]))
                          ELSE Carried(f, kept(p - 1))
<1> DEFINE cat == Catalog(f)
           at == CopiedAt(f)
           k == Kept(cat, at)
<1>1. at \subseteq 1..Len(cat)
  BY DEF CopiedAt
<1>2. cat \in Seq(Cell) /\ Len(cat) \in Nat
  OBVIOUS
<1> HIDE DEF cat, at
<1>3. k \in [Nat -> Seq(Cell)] /\ Keeps(k, cat, at)
  BY <1>1, <1>2, KeptSteps
<1> HIDE DEF k
<1>4. Carried(f, k[0]) = << >>
  BY <1>3 DEF Keeps, Carried
<1>5. ASSUME NEW p \in 1..Len(cat)
      PROVE  Carried(f, k[p]) = IF p \in at
                                THEN Append(Carried(f, k[p - 1]), Carry(f, cat[p]))
                                ELSE Carried(f, k[p - 1])
  <2> DEFINE s == k[p - 1]
  <2>1. s \in Seq(Cell) /\ k[p] = IF p \in at THEN Append(s, cat[p]) ELSE s
    BY <1>2, <1>3 DEF Keeps
  <2>2. cat[p] \in Cell
    BY <1>2
  <2> HIDE DEF s
  <2>3. Carried(f, Append(s, cat[p])) = Append(Carried(f, s), Carry(f, cat[p]))
    <3> DEFINE n == Len(s)
               x == cat[p]
    <3>1. n \in Nat /\ Len(Append(s, x)) = n + 1
          /\ \A i \in 1..(n + 1) : Append(s, x)[i] = IF i = n + 1 THEN x ELSE s[i]
      BY <2>1, <2>2
    <3> HIDE DEF n, x
    <3>2. Carried(f, Append(s, x)) =
            [i \in 1..(n + 1) |-> IF i = n + 1 THEN Carry(f, x) ELSE Carry(f, s[i])]
      BY <3>1 DEF Carried
    <3>3. Carried(f, s) = [i \in 1..n |-> Carry(f, s[i])]
      BY DEF Carried, n
    <3>4. Append(Carried(f, s), Carry(f, x)) =
            [i \in 1..(n + 1) |-> IF i = n + 1 THEN Carry(f, x) ELSE Carry(f, s[i])]
      BY <3>1, <3>3
    <3>5. QED
      BY <3>2, <3>4 DEF x
  <2>4. QED
    BY <2>1, <2>3 DEF s
<1>6. QED
  BY <1>4, <1>5 DEF k, cat, at

(* Before the first entry nothing has been carried. *)
LEMMA SqueezeStarts ==
    ASSUME NEW f, Walkable(f), Catalog(f) # << >>
    PROVE  Squeezing(f, NewFile, Catalog(f))
<1>1. SUFFICES ASSUME ~ f.spilled
               PROVE  Squeezing(f, NewFile, Catalog(f))
  BY DEF Squeezing
<1>2. Catalog(f) \in Seq(Cell) /\ Len(Catalog(f)) \in Nat
  BY <1>1, CatalogType
<1>3. Catalog(f) = SubSeq(Catalog(f), 0 + 1, Len(Catalog(f)))
  BY <1>2
<1>5. CarriedTo(f, NewFile, 0)
  BY <1>2, LogOfNewFile, CarriedSteps DEF CarriedTo
<1>6. QED
  BY <1>2, <1>3, <1>5 DEF Squeezing

(* One turn of the loop carries one entry more. *)
LEMMA SqueezeTurns ==
    ASSUME NEW f, Walkable(f), NEW t, Walkable(t),
           NEW rest, Squeezing(f, t, rest), rest # << >>, NEW g,
           ~ SqueezeFails(Head(rest).type, ReadRecord(f, Head(rest).path)),
           g = IF SqueezeCopies(Head(rest).type, ReadRecord(f, Head(rest).path))
               THEN StoreRecord(t, Head(rest).path,
                                SqueezeForm(Head(rest).type,
                                            ReadRecord(f, Head(rest).path)))
               ELSE t
    PROVE  Squeezing(f, g, Tail(rest))
<1>1. SUFFICES ASSUME ~ f.spilled
               PROVE  Squeezing(f, g, Tail(rest))
  BY DEF Squeezing
<1> DEFINE cat == Catalog(f)
           len == Len(cat)
<1>2. cat \in Seq(Cell) /\ len \in Nat
  BY <1>1, CatalogType
<1>3. PICK p \in 0..len : rest = SubSeq(cat, p + 1, len) /\ CarriedTo(f, t, p)
  BY <1>1 DEF Squeezing
<1>4. cat # << >>
  BY <1>1 DEF Squeezing
<1> HIDE DEF cat
<1> DEFINE k(q) == Carried(f, Kept(cat, CopiedAt(f))[q])
<1>11. ASSUME NEW q \in 1..len
       PROVE  k(q) = IF q \in CopiedAt(f) THEN Append(k(q - 1), Carry(f, cat[q]))
                                          ELSE k(q - 1)
  BY <1>2, CarriedSteps DEF cat
<1> HIDE DEF len
<1>5. p + 1 \in 1..len /\ Head(rest) = cat[p + 1] /\ Tail(rest) = SubSeq(cat, p + 2, len)
  <2>1. p # len
    BY <1>2, <1>3 DEF len
  <2>2. p + 1 \in 1..len
    BY <1>2, <2>1
  <2>3. Len(rest) = len - p /\ \A i \in 1..(len - p) : rest[i] = cat[p + i]
    BY <1>2, <1>3, <2>2 DEF len
  <2>4. Head(rest) = cat[p + 1]
    BY <1>2, <2>2, <2>3
  <2>5. Tail(rest) = [i \in 1..(len - p - 1) |-> cat[p + 1 + i]]
    <3>1. rest \in Seq(Cell)
      BY <1>2, <1>3, <2>2 DEF len
    <3>2. Tail(rest) = [i \in 1..(Len(rest) - 1) |-> rest[i + 1]]
      <4> DEFINE tail == Tail(rest)
                 n == Len(rest) - 1
      <4>1. tail \in Seq(Cell) /\ Len(tail) = n /\ n \in Nat
            /\ \A i \in 1..n : tail[i] = rest[i + 1]
        BY <3>1
      <4> HIDE DEF tail, n
      <4>2. tail = [i \in 1..Len(tail) |-> tail[i]]
        BY <4>1
      <4>3. tail = [i \in 1..n |-> rest[i + 1]]
        BY <4>1, <4>2
      <4>4. QED
        BY <4>3 DEF tail, n
    <3>3. \A i \in 1..(len - p - 1) : rest[i + 1] = cat[p + 1 + i]
      BY <1>2, <2>2, <2>3
    <3>4. QED
      BY <1>2, <2>2, <2>3, <3>2, <3>3
  <2>6. SubSeq(cat, p + 2, len) = [i \in 1..(len - p - 1) |-> cat[p + 1 + i]]
    BY <1>2, <2>2 DEF len
  <2>7. QED
    BY <2>2, <2>4, <2>5, <2>6
<1> DEFINE entry == cat[p + 1]
           rec == ReadRecord(f, entry.path)
<1>6. ~ FailsAt(f, p + 1) /\ (p + 1 \in CopiedAt(f) <=> SqueezeCopies(entry.type, rec))
  BY <1>5 DEF FailsAt, CopiedAt, cat, len
<1>7. \A i \in 1..(p + 1) : ~ FailsAt(f, i)
  BY <1>3, <1>6 DEF CarriedTo
<1>8. CASE SqueezeCopies(entry.type, rec)
  <2>1. g = StoreRecord(t, entry.path, SqueezeForm(entry.type, rec))
    BY <1>5, <1>8
  <2>2. f \in Image /\ rec # NoRecord
    BY <1>8 DEF Walkable, Safe, SqueezeCopies
  <2>3. entry.path \in Path /\ SqueezeForm(entry.type, rec) \in Record
    BY <2>2, ReadRecordType, SqueezeFormType
  <2>4. ASSUME ~ g.spilled
        PROVE  LogOf(g) = Append(LogOf(t), Carry(f, entry)) /\ ~ t.spilled
    <3> DEFINE form == SqueezeForm(entry.type, rec)
    <3>1. Change(t, g)
      BY <2>1, <2>3 DEF Change, Stored
    <3>2. ~ t.spilled
      BY <2>4, <3>1, SpilledStays
    <3>3. PICK chain : Walked(t, chain)
      BY <3>2 DEF Walkable
    <3>4. Safe(t) /\ Safe(g)
      BY <3>1, ChangeSafe DEF Walkable
    <3>5. Carry(f, entry) = [path |-> entry.path, type |-> form.type,
                             content |-> form.content, status |-> "PRIMARY"]
      BY DEF Carry
    <3> HIDE DEF form, entry
    <3>6. /\ Walked(g, chain)
          /\ Logs(g, chain) = Append(Logs(t, chain), Carry(f, entry))
      <4>1. g = StoreRecord(t, entry.path, form) /\ form \in Record /\ entry.path \in Path
            /\ ~ StoreRecord(t, entry.path, form).spilled
        BY <2>1, <2>3, <2>4 DEF form
      <4>2. QED
        BY <3>2, <3>3, <3>4, <3>5, <4>1, StoredWalk
    <3>7. LogOf(t) = Logs(t, chain) /\ LogOf(g) = Logs(g, chain)
      BY <2>4, <3>2, <3>3, <3>4, <3>6, LogOfWalked
    <3>8. QED
      BY <3>2, <3>6, <3>7
  <2>5. CarriedTo(f, g, p + 1)
    <3>1. Carried(f, Kept(cat, CopiedAt(f))[p + 1])
            = Append(Carried(f, Kept(cat, CopiedAt(f))[p]), Carry(f, entry))
      <4>1. (p + 1) - 1 = p
        BY <1>2
      <4>2. k(p + 1) = Append(k(p), Carry(f, entry))
        BY <1>5, <1>6, <1>8, <1>11, <4>1
      <4>3. QED
        BY <4>2
    <3>2. QED
      BY <1>3, <1>7, <2>4, <3>1 DEF CarriedTo, cat
  <2>6. QED
    BY <1>4, <1>5, <2>5 DEF Squeezing, cat, len
<1>9. CASE ~ SqueezeCopies(entry.type, rec)
  <2>1. g = t
    BY <1>5, <1>9
  <2>2. Carried(f, Kept(cat, CopiedAt(f))[p + 1]) = Carried(f, Kept(cat, CopiedAt(f))[p])
    <3>1. (p + 1) - 1 = p
      BY <1>2
    <3>2. k(p + 1) = k(p)
      BY <1>5, <1>6, <1>9, <1>11, <3>1
    <3>3. QED
      BY <3>2
  <2>3. CarriedTo(f, g, p + 1)
    BY <1>3, <1>7, <2>1, <2>2 DEF CarriedTo, cat
  <2>4. QED
    BY <1>4, <1>5, <2>3 DEF Squeezing, cat, len
<1>10. QED
  BY <1>8, <1>9

(* When no entry is left, the new file holds what is to be carried over. *)
LEMMA SqueezeEnds ==
    ASSUME NEW f, Walkable(f), ~ f.spilled, NEW t, ~ t.spilled,
           Squeezing(f, t, << >>)
    PROVE  /\ Catalog(f) # << >>
           /\ \A i \in 1..Len(Catalog(f)) : ~ FailsAt(f, i)
           /\ LogOf(t) = Carried(f, Selected(Catalog(f), CopiedAt(f)))
<1> DEFINE cat == Catalog(f)
           len == Len(cat)
<1>1. cat \in Seq(Cell) /\ len \in Nat
  BY CatalogType
<1>2. PICK p \in 0..len : << >> = SubSeq(cat, p + 1, len) /\ CarriedTo(f, t, p)
  BY DEF Squeezing
<1>3. p = len
  <2> HIDE DEF cat
  <2>1. p # len => Len(SubSeq(cat, p + 1, len)) = len - p
    BY <1>1
  <2>2. Len(SubSeq(cat, p + 1, len)) = 0
    <3>1. Len(<< >>) = 0
      OBVIOUS
    <3>2. QED
      BY <1>2, <3>1
  <2> HIDE DEF len
  <2>3. QED
    BY <1>1, <1>2, <2>1, <2>2
<1>4. Kept(cat, CopiedAt(f))[len] = Selected(cat, CopiedAt(f))
  BY SelectedIsKept
<1>5. QED
  BY <1>2, <1>3, <1>4 DEF Squeezing, CarriedTo

-----------------------------------------------------------------------------
(* The refinement.                                                         *)

\* The bins can be walked, and squeeze has carried some part of the catalog.
SqueezeInv ==
    /\ TypeOK
    /\ Walkable(file) /\ Walkable(tmp)
    /\ pc = "squeeze" => Squeezing(file, tmp, todo)

(* The invariant of squeeze holds at first, and every step keeps it. *)
LEMMA SqueezeInit == Init => SqueezeInv
  BY NewFileWalkable, NewFileType DEF Init, SqueezeInv, TypeOK

LEMMA SqueezeStep ==
    ASSUME SqueezeInv, [Next]_vars
    PROVE  SqueezeInv'
<1>1. /\ Change(file, file') \/ file' = tmp
      /\ Change(tmp, tmp') \/ tmp' = NewFile
      /\ pc' \in {"idle", "squeeze"}
  BY Steps DEF SqueezeInv
<1>2. Walkable(file') /\ Walkable(tmp')
  BY <1>1, WalkableChange, NewFileWalkable DEF SqueezeInv
<1>3. TypeOK'
  BY <1>1, <1>2 DEF Walkable, Safe, TypeOK
<1>4. ASSUME pc' = "squeeze"
      PROVE  Squeezing(file', tmp', todo')
  <2>1. Next \/ UNCHANGED vars
    OBVIOUS
  <2>2. Walkable(file) /\ Walkable(tmp) /\ TypeOK
    BY DEF SqueezeInv
  <2>3. CASE Write
    BY <1>4, <2>3, WriteStores DEF Store
  <2>4. CASE Mark
    BY <1>4, <2>4 DEF Mark, Delete, Undelete, AliasRemove
  <2>5. CASE Alias
    BY <1>4, <2>5 DEF Alias, AliasAdd
  <2>6. CASE SqueezeBegin
    <3>1. /\ file' = file /\ todo' = Catalog(file) /\ tmp' = NewFile
          /\ Catalog(file) # << >>
      BY <1>4, <2>6 DEF SqueezeBegin
    <3>2. Squeezing(file, NewFile, Catalog(file))
      BY <1>4, <2>2, <3>1, SqueezeStarts
    <3>3. QED
      BY <3>1, <3>2
  <2>7. CASE SqueezeEntry
    <3> DEFINE rec == ReadRecord(file, Head(todo).path)
    <3>1. /\ pc = "squeeze" /\ todo # << >> /\ todo' = Tail(todo) /\ file' = file
          /\ ~ SqueezeFails(Head(todo).type, rec)
          /\ tmp' = IF SqueezeCopies(Head(todo).type, rec)
                    THEN StoreRecord(tmp, Head(todo).path,
                                     SqueezeForm(Head(todo).type, rec))
                    ELSE tmp
      BY <1>4, <2>7 DEF SqueezeEntry
    <3>2. Squeezing(file, tmp, todo)
      BY <3>1 DEF SqueezeInv
    <3>3. Squeezing(file, tmp', Tail(todo))
      BY <1>4, <2>2, <3>1, <3>2, SqueezeTurns
    <3>4. QED
      BY <3>1, <3>3
  <2>8. CASE SqueezeAbort
    BY <1>4, <2>8 DEF SqueezeAbort
  <2>9. CASE SqueezeEnd
    BY <1>4, <2>9 DEF SqueezeEnd
  <2>10. CASE UNCHANGED vars
    BY <1>4, <2>10 DEF vars, SqueezeInv
  <2>11. QED
    BY <1>4, <2>1, <2>3, <2>4, <2>5, <2>6, <2>7, <2>8, <2>9, <2>10 DEF Next, Squeeze
<1>5. QED
  BY <1>2, <1>3, <1>4 DEF SqueezeInv

LogInv ==
    /\ WalkInv
    /\ SqueezeInv

(* So it does with the log. *)
LEMMA LogInvHolds == LogSpec => []LogInv
<1>1. LogInit => SqueezeInv
  BY SqueezeInit DEF LogInit
<1>2. SqueezeInv /\ [LogNext]_<<vars, log>> => SqueezeInv'
  BY SqueezeStep DEF LogNext, vars
<1>3. QED
  BY <1>1, <1>2, WalkInvHolds, PTL DEF LogSpec, LogInv

(* The end of squeeze is one compaction of the log. *)
LEMMA SqueezeCompacts ==
    ASSUME LogStep, LogInv, SqueezeEnd
    PROVE  Log!Compact
<1>1. pc = "squeeze" /\ todo = << >> /\ file' = tmp
  BY DEF SqueezeEnd
<1>2. /\ ~ file.spilled /\ ~ tmp.spilled /\ Walkable(file)
      /\ log' = LogOf(tmp) /\ Squeezing(file, tmp, << >>)
  BY <1>1 DEF LogStep, LogInv, WalkInv, SqueezeInv
<1>3. PICK chain : Mapped(file, chain)
  BY WalkIsMapped DEF LogStep
<1>4. /\ Catalog(file) # << >>
      /\ \A i \in 1..Len(Catalog(file)) : ~ FailsAt(file, i)
      /\ log' = Carried(file, Selected(Catalog(file), CopiedAt(file)))
  BY <1>2, SqueezeEnds
<1>5. QED
  BY <1>3, <1>4, CompactAlike

(* Every step of the handle is a step of the log or leaves it alone. *)
LEMMA StepsOfLog ==
    ASSUME LogInv, [LogNext]_<<vars, log>>, ~ file.spilled, ~ file'.spilled
    PROVE  [Log!Next]_log
<1>1. Next \/ UNCHANGED vars
  BY DEF LogNext, vars
<1>2. log' = LogOf(file') /\ log = LogOf(file) /\ LogStep
  <2>1. log = LogOf(file) /\ WalkInv
    BY DEF LogInv, WalkInv
  <2>2. log' = LogOf(file')
    BY <2>1 DEF LogNext, vars
  <2>3. QED
    BY <2>1, <2>2 DEF LogStep
<1>3. CASE file' = file
  BY <1>2, <1>3
<1>4. CASE Write
  BY <1>2, <1>4, WritePuts DEF Log!Next
<1>5. CASE Mark
  BY <1>2, <1>5, MarkMarks DEF Log!Next
<1>6. CASE Alias
  BY <1>2, <1>6, AliasAdds DEF Log!Next
<1>7. CASE SqueezeEnd
  BY <1>2, <1>7, SqueezeCompacts DEF Log!Next
<1>8. QED
  BY <1>1, <1>3, <1>4, <1>5, <1>6, <1>7
     DEF Next, Squeeze, SqueezeBegin, SqueezeEntry, SqueezeAbort, vars

(* The file implements the log: as long as no bin block is laid over a
   record, a write or alias_add appends one entry and changes no other,
   delete, undelete and alias_remove change one status, and the loop of
   squeeze, whatever it writes to path.tmp in the meantime, amounts to one
   compaction: no operation of native.rs loses, repeats, reorders or alters
   an entry or its record. *)
THEOREM FileImplementsLog == LogSpec => ImplementsLog
<1>1. LogInit => Log!Init
  BY LogOfNewFile DEF LogInit, Init, Log!Init
<1>2. LogInv /\ [LogNext]_<<vars, log>>
        => [~ file.spilled /\ ~ file'.spilled => Log!Next]_log
  BY StepsOfLog
<1>3. QED
  BY <1>1, <1>2, LogInvHolds, PTL DEF LogSpec, ImplementsLog

-----------------------------------------------------------------------------
(* The scan for records.  A record goes to FILE_SIZE, behind all info      *)
(* blocks, before its entry goes to the next slot: the entries that are    *)
(* the first for their info block lead to the info blocks in their order.  *)

\* The entries of the bins in the order of their slots.
BinEntries(f, chain) ==
    [k \in 1..f.hdr["totalBins"] |-> f.cells[SlotAt(chain, k)]]

\* The info block an entry leads to has its name and type.
IsFor(cells, entry) ==
    /\ entry.info \in DOMAIN cells
    /\ cells[entry.info].tag = "info"
    /\ cells[entry.info].path = entry.path
    /\ cells[entry.info].type = entry.type

\* The info blocks are those of the first entries, in their order.
Scannable(cells, e, count) ==
    /\ Len(Positions(Firsts(e), Len(e))) = count
    /\ \A k \in Firsts(e) :
           /\ IsFor(cells, e[k])
           /\ \A j \in 1..(k - 1) : e[j].info < e[k].info
    /\ \A a \in DOMAIN cells :
           cells[a].tag = "info" => \E k \in Firsts(e) : e[k].info = a

\* They are entries, and as many as the header counts.
Listing(f, chain, e) ==
    /\ e \in Seq(Cell)
    /\ Len(e) = f.hdr["totalBins"]
    /\ \A k \in 1..f.hdr["totalBins"] :
           /\ e[k] = f.cells[SlotAt(chain, k)]
           /\ e[k].tag = "entry"
           /\ e[k].info \in Nat

(* The entries of a file are entries. *)
LEMMA EntriesType ==
    ASSUME NEW f \in Image, NEW chain, Walked(f, chain)
    PROVE  Listing(f, chain, BinEntries(f, chain))
<1> DEFINE m == f.hdr["totalBins"]
<1>1. f.cells \in Seq(Cell)
  BY ImageFields
<1>2. /\ m \in Nat
      /\ \A k \in 1..m : /\ SlotAt(chain, k) \in DOMAIN f.cells
                         /\ f.cells[SlotAt(chain, k)].tag = "entry"
  BY DEF Walked, Filled
<1> HIDE DEF m
<1>3. \A k \in 1..m : f.cells[SlotAt(chain, k)] \in Cell
  BY <1>1, <1>2
<1>4. \A k \in 1..m : f.cells[SlotAt(chain, k)].info \in Nat
  BY <1>2, <1>3 DEF Cell, Zero, EofFlag, Address
<1>5. BinEntries(f, chain) = [k \in 1..m |-> f.cells[SlotAt(chain, k)]]
  BY DEF BinEntries, m
<1>6. QED
  BY <1>2, <1>3, <1>4, <1>5 DEF m, Listing

(* The entries that are the first are some of the entries. *)
LEMMA FirstsType ==
    ASSUME NEW e \in Seq(Cell)
    PROVE  /\ Firsts(e) \subseteq 1..Len(e) /\ Len(e) \in Nat
           /\ Enumerates(Positions(Firsts(e), Len(e)), Firsts(e), Len(e))
           /\ At(Positions(Firsts(e), Len(e)), Selected(e, Firsts(e)), e)
           /\ Selected(e, Firsts(e)) \in Seq(Cell)
<1>1. Firsts(e) \subseteq 1..Len(e) /\ Len(e) \in Nat
  BY DEF Firsts
<1>2. QED
  BY <1>1, SelectedPositions, SelectedType

(* In such a file the scan meets the records of the bins. *)
LEMMA ScannableAgrees ==
    ASSUME NEW f \in Image, LaidOut(f), NEW chain, Walked(f, chain),
           Scannable(f.cells, BinEntries(f, chain), f.hdr["numberRecords"])
    PROVE  ScanAgrees(f)
<1> DEFINE e == BinEntries(f, chain)
           m == f.hdr["totalBins"]
           n == Len(f.cells)
           p == Positions(Firsts(e), Len(e))
           firsts == Selected(e, Firsts(e))
           infos == {i \in 1..n : HasTag(f, i, "info")}
           b == [k \in 1..Len(p) |-> e[p[k]].info]
<1>1. f.cells \in Seq(Cell) /\ n \in Nat /\ DOMAIN f.cells = 1..n
  BY ImageFields
<1>2. e \in Seq(Cell) /\ Len(e) = m
  BY EntriesType DEF Listing
<1>3. /\ Firsts(e) \subseteq 1..Len(e) /\ Len(e) \in Nat
      /\ Enumerates(p, Firsts(e), Len(e)) /\ At(p, firsts, e)
      /\ firsts \in Seq(Cell)
  BY <1>2, FirstsType
<1>4. FirstEntries(f) = firsts
  <2>1. ReadAllBins(f) = SlotsOf(chain, m) /\ m \in Nat
    BY WalkFinds
  <2>2. Len(SlotsOf(chain, m)) = m
        /\ \A k \in 1..m : SlotsOf(chain, m)[k] = SlotAt(chain, k)
    BY <2>1 DEF SlotsOf
  <2>3. [k \in 1..Len(ReadAllBins(f)) |-> f.cells[ReadAllBins(f)[k]]] = e
    BY <2>1, <2>2 DEF BinEntries
  <2>4. QED
    BY <2>3 DEF FirstEntries
<1>5. /\ Len(p) = f.hdr["numberRecords"]
      /\ \A k \in Firsts(e) :
             /\ IsFor(f.cells, e[k])
             /\ \A j \in 1..(k - 1) : e[j].info < e[k].info
      /\ \A a \in DOMAIN f.cells :
             f.cells[a].tag = "info" => \E k \in Firsts(e) : e[k].info = a
  BY DEF Scannable
<1> HIDE DEF e, m, p, firsts
<1>6. /\ p \in Seq(Nat) /\ Len(p) \in Nat
      /\ \A i \in 1..Len(p) : p[i] \in Firsts(e) /\ p[i] \in 1..Len(e) /\ p[i] \in Nat
      /\ \A k \in Firsts(e) : \E i \in 1..Len(p) : p[i] = k
      /\ \A i, j \in 1..Len(p) : i < j => p[i] < p[j]
  <2>1. /\ p \in Seq(Nat)
        /\ \A i \in 1..Len(p) : p[i] \in Firsts(e)
        /\ \A k \in Firsts(e) : k <= Len(e) => \E i \in 1..Len(p) : p[i] = k
        /\ \A i, j \in 1..Len(p) : i < j => p[i] < p[j]
    BY <1>3 DEF Enumerates
  <2>2. \A k \in Firsts(e) : k \in 1..Len(e) /\ k \in Nat /\ k <= Len(e)
    BY <1>3
  <2>3. Len(p) \in Nat
    BY <2>1
  <2>4. \A i \in 1..Len(p) : p[i] \in Firsts(e) /\ p[i] \in 1..Len(e) /\ p[i] \in Nat
    BY <2>1, <2>2
  <2>5. \A k \in Firsts(e) : \E i \in 1..Len(p) : p[i] = k
    BY <2>1, <2>2
  <2>6. QED
    BY <2>1, <2>3, <2>4, <2>5
<1>7. \A a : a \in infos <=> a \in DOMAIN f.cells /\ f.cells[a].tag = "info"
  BY <1>1 DEF HasTag
<1>8. infos \subseteq 1..n /\ infos \subseteq Nat
  OBVIOUS
<1> HIDE DEF infos
<1>9. Enumerates(b, infos, n)
  <2>1. \A i \in 1..Len(p) : e[p[i]].info \in infos
    BY <1>5, <1>6, <1>7 DEF IsFor
  <2>2. b \in Seq(Nat) /\ Len(b) = Len(p) /\ \A i \in 1..Len(p) : b[i] = e[p[i]].info
    BY <1>6, <1>8, <2>1
  <2> HIDE DEF b, n
  <2>3. \A i \in 1..Len(b) : b[i] \in infos /\ b[i] <= n
    BY <1>1, <1>8, <2>1, <2>2
  <2>4. ASSUME NEW a \in infos
        PROVE  \E i \in 1..Len(b) : b[i] = a
    <3>1. PICK k \in Firsts(e) : e[k].info = a
      BY <1>5, <1>7
    <3>2. PICK i \in 1..Len(p) : p[i] = k
      BY <1>6
    <3>3. QED
      BY <2>2, <3>1, <3>2
  <2>5. ASSUME NEW i \in 1..Len(b), NEW j \in 1..Len(b), i < j
        PROVE  b[i] < b[j]
    <3>1. /\ p[i] \in 1..Len(e) /\ p[j] \in Firsts(e) /\ p[j] \in Nat
          /\ p[i] < p[j]
      BY <1>6, <2>2, <2>5
    <3>2. p[i] \in 1..(p[j] - 1)
      BY <1>3, <3>1
    <3>3. QED
      BY <1>5, <2>2, <3>1, <3>2
  <2>6. QED
    BY <2>2, <2>3, <2>4, <2>5 DEF Enumerates
<1>10. InfoAddresses(f) = b
  <2>1. InfoAddresses(f) = Positions(infos, n)
    BY DEF InfoAddresses, Positions, infos
  <2>2. Enumerates(Positions(infos, n), infos, n)
    BY <1>1, <1>8, SelectedPositions
  <2> HIDE DEF b, n
  <2>3. Positions(infos, n) = b
    BY <1>1, <1>9, <2>2, EnumeratesOnce
  <2>4. QED
    BY <2>1, <2>3
<1>11. DOMAIN firsts = 1..Len(p) /\ Len(firsts) = Len(p)
       /\ \A k \in 1..Len(p) : firsts[k] = e[p[k]]
  BY <1>3 DEF At
<1>12. b = [k \in DOMAIN firsts |-> firsts[k].info]
  BY <1>11
<1>13. ScanRecords(f) = [k \in DOMAIN firsts |->
                            [path |-> firsts[k].path, type |-> firsts[k].type]]
  <2>1. DOMAIN b = 1..Len(p) /\ \A k \in 1..Len(p) : b[k] = e[p[k]].info
    OBVIOUS
  <2>2. \A k \in 1..Len(p) : Scanned(f, b[k]) = [path |-> firsts[k].path,
                                                type |-> firsts[k].type]
    BY <1>5, <1>6, <1>11, <2>1 DEF Scanned, IsFor
  <2> HIDE DEF b
  <2>3. ScanRecords(f) = [k \in 1..Len(p) |-> Scanned(f, b[k])]
    BY <1>10, <2>1 DEF ScanRecords
  <2>4. QED
    BY <1>11, <2>2, <2>3
<1>14. QED
  BY <1>4, <1>5, <1>10, <1>11, <1>12, <1>13 DEF ScanAgrees

-----------------------------------------------------------------------------
(* What the operations make of the scan.                                   *)

\* The info blocks are where they were, and there are no others.
SameInfos(cells, new) ==
    /\ \A a \in DOMAIN cells : cells[a].tag = "info" =>
           a \in DOMAIN new /\ new[a] = cells[a]
    /\ \A a \in DOMAIN new : new[a].tag = "info" =>
           a \in DOMAIN cells /\ cells[a].tag = "info"

\* Two entries for the same record.
SameRecord(a, b) == a.info = b.info /\ a.path = b.path /\ a.type = b.type

(* A new status is nothing that the scan looks at. *)
LEMMA MarkedScan ==
    ASSUME NEW cells, NEW new, NEW e \in Seq(Cell), NEW d \in Seq(Cell), NEW count,
           Scannable(cells, e, count), SameInfos(cells, new), Len(d) = Len(e),
           \A k \in 1..Len(e) : SameRecord(d[k], e[k])
    PROVE  Scannable(new, d, count)
<1>1. Firsts(d) = Firsts(e)
  <2>1. ASSUME NEW k \in 1..Len(e)
        PROVE  (\A j \in 1..(k - 1) : d[j].info # d[k].info)
                 <=> (\A j \in 1..(k - 1) : e[j].info # e[k].info)
    <3>1. \A j \in 1..(k - 1) : j \in 1..Len(e)
      OBVIOUS
    <3>2. QED
      BY <3>1 DEF SameRecord
  <2>2. QED
    BY <2>1 DEF Firsts
<1>2. Firsts(e) \subseteq 1..Len(e)
  BY DEF Firsts
<1>3. \A k \in Firsts(e) : \A j \in 1..(k - 1) : j \in 1..Len(e)
  BY <1>2
<1>4. \A k \in Firsts(e) : IsFor(new, d[k])
  BY <1>2 DEF Scannable, SameInfos, SameRecord, IsFor
<1>5. \A k \in Firsts(e) : \A j \in 1..(k - 1) : d[j].info < d[k].info
  BY <1>2, <1>3 DEF Scannable, SameRecord
<1>6. \A a \in DOMAIN new : new[a].tag = "info"
        => \E k \in Firsts(e) : d[k].info = a
  BY <1>2 DEF Scannable, SameInfos, SameRecord
<1>7. Len(Positions(Firsts(d), Len(d))) = count
  BY <1>1 DEF Scannable
<1>8. QED
  BY <1>1, <1>4, <1>5, <1>6, <1>7 DEF Scannable

(* One entry more is one of the first or not. *)
LEMMA FirstsAppend ==
    ASSUME NEW e \in Seq(Cell), NEW x \in Cell
    PROVE  LET d == Append(e, x)
               n == Len(e)
           IN  /\ \A k \in 1..n : k \in Firsts(d) <=> k \in Firsts(e)
               /\ n + 1 \in Firsts(d) <=> \A j \in 1..n : e[j].info # x.info
               /\ Len(Positions(Firsts(d), n + 1)) =
                    Len(Positions(Firsts(e), n)) + (IF n + 1 \in Firsts(d) THEN 1 ELSE 0)
<1> DEFINE d == Append(e, x)
           n == Len(e)
           id == [i \in 1..n |-> i]
<1>1. n \in Nat /\ Len(d) = n + 1 /\ d[n + 1] = x /\ \A k \in 1..n : d[k] = e[k]
  OBVIOUS
<1> HIDE DEF d
<1>2. \A k \in 1..n : k \in Firsts(d) <=> k \in Firsts(e)
  <2>1. ASSUME NEW k \in 1..n
        PROVE  (\A j \in 1..(k - 1) : d[j].info # d[k].info)
                 <=> (\A j \in 1..(k - 1) : e[j].info # e[k].info)
    <3>1. \A j \in 1..(k - 1) : j \in 1..n
      BY <1>1
    <3>2. QED
      BY <1>1, <3>1
  <2>2. \A k \in 1..n : k \in 1..Len(d)
    BY <1>1
  <2>3. QED
    BY <2>1, <2>2 DEF Firsts
<1>3. n + 1 \in Firsts(d) <=> \A j \in 1..n : e[j].info # x.info
  <2>1. n + 1 \in 1..Len(d) /\ (n + 1) - 1 = n
    BY <1>1
  <2>2. n + 1 \in Firsts(d) <=> \A j \in 1..n : d[j].info # d[n + 1].info
    BY <2>1 DEF Firsts
  <2>3. QED
    BY <1>1, <2>2
<1>4. Firsts(e) \subseteq 1..n /\ Firsts(d) \subseteq 1..(n + 1)
  BY <1>1 DEF Firsts
<1>5. id \in Seq(Nat) /\ Len(id) = n /\ n + 1 \in Nat
      /\ Append(id, n + 1) = [i \in 1..(n + 1) |-> i]
  BY <1>1
<1> HIDE DEF n, id
<1>6. Selected(Append(id, n + 1), Firsts(d)) =
          IF n + 1 \in Firsts(d) THEN Append(Selected(id, Firsts(e)), n + 1)
                                 ELSE Selected(id, Firsts(e))
  <2>1. Firsts(e) \subseteq 1..Len(id) /\ Firsts(d) \subseteq 1..(Len(id) + 1)
        /\ \A i \in 1..Len(id) : i \in Firsts(e) <=> i \in Firsts(d)
    BY <1>2, <1>4, <1>5
  <2> DEFINE y == n + 1
             bt == Firsts(d)
             at == Firsts(e)
  <2>2. at \subseteq 1..Len(id) /\ bt \subseteq 1..(Len(id) + 1)
    BY <2>1
  <2>3. \A i \in 1..Len(id) : i \in at <=> i \in bt
    BY <2>1
  <2>4. id \in Seq(Nat) /\ y \in Nat /\ y = Len(id) + 1
    BY <1>5
  <2> HIDE DEF y, at, bt
  <2>5. SelectedNext(id, y, at, bt)
    BY <2>2, <2>3, <2>4, SelectedAppend
  <2>6. QED
    BY <2>4, <2>5 DEF SelectedNext, y, at, bt
<1>7. Selected(id, Firsts(e)) \in Seq(Nat)
  BY <1>4, <1>5, SelectedType
<1>8. /\ Positions(Firsts(d), n + 1) = Selected(Append(id, n + 1), Firsts(d))
      /\ Positions(Firsts(e), n) = Selected(id, Firsts(e))
  BY <1>5 DEF Positions, id
<1>9. Len(Positions(Firsts(d), n + 1)) =
        Len(Positions(Firsts(e), n)) + (IF n + 1 \in Firsts(d) THEN 1 ELSE 0)
  <2>1. CASE n + 1 \in Firsts(d)
    <3>1. Positions(Firsts(d), n + 1) = Append(Positions(Firsts(e), n), n + 1)
      BY <1>6, <1>8, <2>1
    <3>2. QED
      BY <1>5, <1>7, <1>8, <2>1, <3>1
  <2>2. CASE n + 1 \notin Firsts(d)
    <3>1. Positions(Firsts(d), n + 1) = Positions(Firsts(e), n)
      BY <1>6, <1>8, <2>2
    <3>2. Len(Positions(Firsts(e), n)) \in Nat
      BY <1>7, <1>8
    <3>3. QED
      BY <2>2, <3>1, <3>2
  <2>3. QED
    BY <2>1, <2>2
<1>10. QED
  BY <1>2, <1>3, <1>9 DEF d, n

(* An alias leads to the info block of an entry before it. *)
LEMMA AliasedScan ==
    ASSUME NEW cells, NEW new, NEW e \in Seq(Cell), NEW x \in Cell, NEW count \in Nat,
           Scannable(cells, e, count), SameInfos(cells, new),
           NEW i \in 1..Len(e), e[i].info = x.info
    PROVE  Scannable(new, Append(e, x), count)
<1> DEFINE d == Append(e, x)
           n == Len(e)
<1>1. n \in Nat /\ Len(d) = n + 1 /\ \A k \in 1..n : d[k] = e[k]
  OBVIOUS
<1>2. Firsts(d) \subseteq 1..(n + 1) /\ Firsts(e) \subseteq 1..n
  BY <1>1 DEF Firsts
<1>3. /\ \A k \in 1..n : k \in Firsts(d) <=> k \in Firsts(e)
      /\ n + 1 \notin Firsts(d)
      /\ Len(Positions(Firsts(d), n + 1)) = Len(Positions(Firsts(e), n)) + 0
  BY FirstsAppend
<1> HIDE DEF d, n
<1>4. Firsts(d) = Firsts(e)
  <2>1. \A k \in 1..(n + 1) : k \in 1..n \/ k = n + 1
    BY <1>1
  <2>2. QED
    BY <1>2, <1>3, <2>1
<1>5. /\ Len(Positions(Firsts(e), n)) = count
      /\ \A k \in Firsts(e) : /\ IsFor(cells, e[k])
                              /\ \A j \in 1..(k - 1) : e[j].info < e[k].info
      /\ \A a \in DOMAIN cells :
             cells[a].tag = "info" => \E k \in Firsts(e) : e[k].info = a
  BY DEF Scannable, n
<1>6. \A k \in Firsts(e) : d[k] = e[k] /\ \A j \in 1..(k - 1) : d[j] = e[j]
  <2>1. \A k \in 1..n : \A j \in 1..(k - 1) : j \in 1..n
    BY <1>1
  <2>2. QED
    BY <1>1, <1>2, <2>1
<1>7. \A k \in Firsts(e) : IsFor(new, d[k])
  BY <1>5, <1>6 DEF SameInfos, IsFor
<1>8. \A k \in Firsts(e) : \A j \in 1..(k - 1) : d[j].info < d[k].info
  BY <1>5, <1>6
<1>9. \A a \in DOMAIN new : new[a].tag = "info" => \E k \in Firsts(e) : d[k].info = a
  BY <1>5, <1>6 DEF SameInfos
<1>10. Len(Positions(Firsts(d), Len(d))) = count
  BY <1>1, <1>3, <1>5
<1>11. QED
  BY <1>4, <1>7, <1>8, <1>9, <1>10 DEF Scannable, d

\* All of the entries lead to cells in front of an address.
InFront(e, addr) ==
    \A k \in 1..Len(e) : e[k].info \in Nat /\ e[k].info < addr

\* One info block has come behind the others, and an entry leads to it.
OneInfoMore(cells, new, x) ==
    /\ \A a \in DOMAIN cells : cells[a].tag = "info" /\ a < x.info =>
           a \in DOMAIN new /\ new[a] = cells[a]
    /\ \A a \in DOMAIN new : new[a].tag = "info" =>
           a = x.info \/ (a \in DOMAIN cells /\ cells[a].tag = "info")
    /\ IsFor(new, x)

(* A record has an info block behind all others. *)
LEMMA StoredScan ==
    ASSUME NEW cells, NEW new, NEW e \in Seq(Cell), NEW x \in Cell, NEW count \in Nat,
           Scannable(cells, e, count), x.info \in Nat, InFront(e, x.info),
           OneInfoMore(cells, new, x)
    PROVE  Scannable(new, Append(e, x), count + 1)
<1> DEFINE d == Append(e, x)
           n == Len(e)
<1>1. n \in Nat /\ Len(d) = n + 1 /\ d[n + 1] = x /\ \A k \in 1..n : d[k] = e[k]
  OBVIOUS
<1>2. Firsts(d) \subseteq 1..(n + 1) /\ Firsts(e) \subseteq 1..n
  BY <1>1 DEF Firsts
<1>3. \A j \in 1..n : e[j].info # x.info
  BY DEF InFront
<1>4. /\ \A k \in 1..n : k \in Firsts(d) <=> k \in Firsts(e)
      /\ n + 1 \in Firsts(d)
      /\ Len(Positions(Firsts(d), n + 1)) = Len(Positions(Firsts(e), n)) + 1
  BY <1>3, FirstsAppend
<1> HIDE DEF d
<1>5. /\ Len(Positions(Firsts(e), n)) = count
      /\ \A k \in Firsts(e) : /\ IsFor(cells, e[k])
                              /\ \A j \in 1..(k - 1) : e[j].info < e[k].info
      /\ \A a \in DOMAIN cells :
             cells[a].tag = "info" => \E k \in Firsts(e) : e[k].info = a
  BY DEF Scannable
<1>6. \A k \in 1..n : e[k].info < x.info
  BY DEF InFront
<1> HIDE DEF n
<1>7. \A k \in 1..(n + 1) : k \in 1..n \/ k = n + 1
  BY <1>1
<1>8. \A k \in 1..(n + 1) : \A j \in 1..(k - 1) : j \in 1..n
  BY <1>1
<1>9. ASSUME NEW k \in Firsts(d)
      PROVE  IsFor(new, d[k]) /\ \A j \in 1..(k - 1) : d[j].info < d[k].info
  <2>1. CASE k \in 1..n
    <3>1. k \in Firsts(e) /\ d[k] = e[k] /\ \A j \in 1..(k - 1) : d[j] = e[j]
      BY <1>1, <1>2, <1>4, <1>8, <2>1
    <3>2. IsFor(cells, e[k]) /\ e[k].info < x.info
      BY <1>5, <1>6, <2>1, <3>1
    <3>3. IsFor(new, e[k])
      BY <3>2 DEF IsFor, OneInfoMore
    <3>4. QED
      BY <1>5, <3>1, <3>3
  <2>2. CASE k = n + 1
    <3>1. d[k] = x /\ \A j \in 1..(k - 1) : j \in 1..n /\ d[j] = e[j]
      BY <1>1, <2>2
    <3>2. QED
      BY <1>6, <3>1 DEF OneInfoMore
  <2>3. QED
    BY <1>2, <1>7, <2>1, <2>2
<1>10. ASSUME NEW a \in DOMAIN new, new[a].tag = "info"
       PROVE  \E k \in Firsts(d) : d[k].info = a
  <2>1. CASE a = x.info
    BY <1>1, <1>4, <2>1
  <2>2. CASE a \in DOMAIN cells /\ cells[a].tag = "info"
    <3>1. PICK k \in Firsts(e) : e[k].info = a
      BY <1>5, <2>2
    <3>2. k \in Firsts(d) /\ d[k] = e[k]
      BY <1>1, <1>2, <1>4
    <3>3. QED
      BY <3>1, <3>2
  <2>3. QED
    BY <1>10, <2>1, <2>2 DEF OneInfoMore
<1>11. Len(Positions(Firsts(d), Len(d))) = count + 1
  BY <1>1, <1>4, <1>5
<1>12. QED
  BY <1>9, <1>10, <1>11 DEF Scannable, d

\* A file in which the scan meets the records of the bins.
ScannedBy(f, chain) ==
    /\ Walked(f, chain)
    /\ Scannable(f.cells, BinEntries(f, chain), f.hdr["numberRecords"])

(* What is known of such a file before an operation. *)
LEMMA ScannedFile ==
    ASSUME NEW f, Safe(f), ~ f.spilled, NEW chain, ScannedBy(f, chain)
    PROVE  /\ f \in Image /\ f.cells \in Seq(Cell)
           /\ f.hdr["numberRecords"] \in Nat /\ f.hdr["totalBins"] \in Nat
           /\ f.hdr["fileSize"] \in Nat \ {0} /\ f.hdr["nextBin"] \in Nat
           /\ f.hdr["nextBin"] < f.hdr["fileSize"]
           /\ f.cells[f.hdr["nextBin"]] = Zero
           /\ BinEntries(f, chain) \in Seq(Cell)
           /\ Len(BinEntries(f, chain)) = f.hdr["totalBins"]
           /\ EntriesLead(f.cells, f.hdr["fileSize"])
           /\ \A k \in 1..f.hdr["totalBins"] :
                  /\ SlotAt(chain, k) \in DOMAIN f.cells
                  /\ SlotAt(chain, k) < f.hdr["fileSize"]
                  /\ BinEntries(f, chain)[k] = f.cells[SlotAt(chain, k)]
                  /\ f.cells[SlotAt(chain, k)].tag = "entry"
                  /\ BinEntries(f, chain)[k].info \in Nat
                  /\ BinEntries(f, chain)[k].info < f.hdr["fileSize"]
           /\ \A a \in DOMAIN f.cells :
                  f.cells[a].tag = "info" => a < f.hdr["fileSize"]
<1> DEFINE base == f.hdr["fileSize"]
           next == f.hdr["nextBin"]
           free == f.hdr["binsRemain"] * BinSize
           e == BinEntries(f, chain)
           m == f.hdr["totalBins"]
<1>1. /\ f \in Image /\ f.cells \in Seq(Cell) /\ f.hdr["numberRecords"] \in Nat
      /\ m \in Nat /\ base \in Nat /\ next \in Nat
  BY ImageFields DEF Safe, HeaderWord
<1>2. Laid(f.cells, next, free, base)
  BY DEF Safe
<1>3. /\ e \in Seq(Cell) /\ Len(e) = m
      /\ \A k \in 1..m : /\ e[k] = f.cells[SlotAt(chain, k)]
                         /\ e[k].tag = "entry" /\ e[k].info \in Nat
  BY <1>1, EntriesType DEF ScannedBy, Listing
<1>4. \A k \in 1..m : SlotAt(chain, k) \in DOMAIN f.cells
  BY DEF ScannedBy, Walked, Filled
<1> HIDE DEF base, next, free, e, m
<1>5. EntriesLead(f.cells, base) /\ f.cells[next] = Zero /\ next < base /\ base # 0
  <2>1. free \in Nat /\ next + free < base /\ next \in next..(next + free)
    BY <1>1, <1>2 DEF Laid
  <2>2. QED
    BY <1>1, <1>2, <2>1 DEF Laid
<1>6. \A k \in 1..m : SlotAt(chain, k) < base /\ e[k].info < base
  BY <1>3, <1>4, <1>5 DEF EntriesLead, Leads
<1>7. ASSUME NEW a \in DOMAIN f.cells, f.cells[a].tag = "info"
      PROVE  a < base
  <2>1. PICK k \in Firsts(e) : e[k].info = a
    BY <1>7 DEF ScannedBy, Scannable, e
  <2>2. k \in 1..m
    BY <1>3, <2>1 DEF Firsts
  <2>3. QED
    BY <1>6, <2>1, <2>2
<1>8. QED
  BY <1>1, <1>3, <1>4, <1>5, <1>6, <1>7 DEF base, next, e, m

(* A sequence that has one element more than another. *)
LEMMA IsAppend ==
    ASSUME NEW V, NEW d \in Seq(V), NEW e \in Seq(V), NEW x,
           Len(d) = Len(e) + 1, \A k \in 1..Len(e) : d[k] = e[k],
           d[Len(e) + 1] = x
    PROVE  d = Append(e, x)
<1> DEFINE n == Len(e)
           a == Append(e, x)
<1>1. n \in Nat /\ x \in V
  OBVIOUS
<1>2. a \in Seq(V) /\ Len(a) = n + 1 /\ a[n + 1] = x
      /\ \A k \in 1..n : a[k] = e[k]
  BY <1>1
<1> HIDE DEF a, n
<1>3. a = [k \in 1..(n + 1) |-> a[k]] /\ d = [k \in 1..(n + 1) |-> d[k]]
  BY <1>2 DEF n
<1>4. \A k \in 1..(n + 1) : a[k] = d[k]
  <2>1. \A k \in 1..(n + 1) : k \in 1..n \/ k = n + 1
    BY <1>1
  <2>2. QED
    BY <1>2, <2>1 DEF n
<1>5. a = d
  BY <1>3, <1>4
<1>6. QED
  BY <1>5 DEF a

(* A record stored without a new block is met by the scan, last. *)
LEMMA StoredScanned ==
    ASSUME NEW f, Safe(f), ~ f.spilled, NEW chain, ScannedBy(f, chain),
           NEW path \in Path, NEW rec \in Record,
           ~ StoreRecord(f, path, rec).spilled
    PROVE  ScannedBy(StoreRecord(f, path, rec), chain)
<1> DEFINE g == StoreRecord(f, path, rec)
           base == f.hdr["fileSize"]
           next == f.hdr["nextBin"]
           m == f.hdr["totalBins"]
           count == f.hdr["numberRecords"]
           cells == f.cells
           w == WriteRecord(cells, base, path, rec)
           x == Entry(path, "PRIMARY", base, rec.type)
           e == BinEntries(f, chain)
           S(k) == SlotAt(chain, k)
<1>1. /\ f \in Image /\ cells \in Seq(Cell) /\ count \in Nat /\ m \in Nat
      /\ base \in Nat \ {0} /\ next \in Nat /\ next < base
      /\ e \in Seq(Cell) /\ Len(e) = m
      /\ \A k \in 1..m : /\ S(k) \in DOMAIN cells /\ S(k) < base
                         /\ e[k] = cells[S(k)] /\ cells[S(k)].tag = "entry"
                         /\ e[k].info \in Nat /\ e[k].info < base
  BY ScannedFile
<1>2. Walked(g, chain) /\ StoredAt(f, g, chain, path, rec)
  BY StoredWalk DEF ScannedBy
<1>3. /\ S(m + 1) = next /\ g.hdr["totalBins"] = m + 1
      /\ next \in DOMAIN w /\ w[next] = Zero
      /\ g.cells = [w EXCEPT ![next] = x]
  BY <1>2 DEF StoredAt
<1>4. g.hdr["numberRecords"] = count + 1
  BY <1>1, StoreRecordWords
<1>5. /\ x \in Cell /\ x.info = base /\ x.tag = "entry" /\ x.path = path
      /\ x.type = rec.type
  BY <1>1 DEF Entry, Cell, Status, Address, Record
<1>6. CellsKept(cells, w, base)
  BY <1>1, WriteKeeps
<1>7. /\ base \in DOMAIN w /\ w[base].tag = "info"
      /\ w[base].path = path /\ w[base].type = rec.type
  <2> DEFINE eof == base + Size(rec.content)
             n == Extent(cells, eof + 1)
  <2>1. Size(rec.content) \in Nat
    BY OffsetType DEF Record
  <2>2. n \in Nat /\ base \in 1..n
    BY <1>1, <2>1 DEF Extent
  <2>3. DOMAIN w = 1..n
        /\ w[base] = Info(path, rec.type, Layout(base, rec.content))
    BY <2>2 DEF WriteRecord
  <2>4. QED
    BY <2>2, <2>3 DEF Info
<1>8. \A a \in DOMAIN w : w[a].tag = "info" =>
          a = base \/ (a \in DOMAIN cells /\ cells[a].tag = "info")
  BY DEF WriteRecord, CellAt, EofFlag, Data, Zero
<1>9. Scannable(cells, e, count)
  BY DEF ScannedBy
<1> HIDE DEF w, x, g, e, m, base, next, cells, count
<1>10. /\ DOMAIN g.cells = DOMAIN w /\ g.cells[next] = x
       /\ \A a \in DOMAIN w : a # next => g.cells[a] = w[a]
  BY <1>3
<1>11. OneInfoMore(cells, g.cells, x)
  <2>1. \A a \in DOMAIN cells : cells[a].tag \in {"info", "entry"} /\ a < base =>
            a \in DOMAIN w /\ w[a] = cells[a] /\ a # next
    BY <1>3, <1>6 DEF CellsKept, Zero
  <2>2. base # next
    BY <1>1
  <2>3. QED
    BY <1>5, <1>7, <1>8, <1>10, <2>1, <2>2 DEF IsFor, OneInfoMore
<1>12. \A k \in 1..m : S(k) \in DOMAIN g.cells /\ g.cells[S(k)] = e[k]
  <2>1. \A a \in DOMAIN cells : cells[a].tag = "entry" /\ a < base =>
            a \in DOMAIN w /\ w[a] = cells[a] /\ a # next
    BY <1>3, <1>6 DEF CellsKept, Zero
  <2>2. QED
    BY <1>1, <1>10, <2>1
<1> HIDE DEF S
<1>13. BinEntries(g, chain) = Append(e, x)
  <2> DEFINE d == BinEntries(g, chain)
  <2>1. g \in Image
    BY <1>1, StoreRecordType DEF g
  <2>2. d \in Seq(Cell) /\ Len(d) = m + 1
        /\ \A k \in 1..(m + 1) : d[k] = g.cells[S(k)]
    <3>1. Listing(g, chain, d)
      BY <1>2, <2>1, EntriesType
    <3> HIDE DEF d
    <3>2. QED
      BY <1>3, <3>1 DEF Listing, S
  <2>3. g.cells[S(m + 1)] = x
    BY <1>3, <1>10
  <2> HIDE DEF d
  <2>4. (\A k \in 1..m : d[k] = e[k]) /\ d[m + 1] = x
    BY <1>1, <1>12, <2>2, <2>3
  <2>5. QED
    BY <1>1, <2>2, <2>4, IsAppend DEF d
<1>14. Scannable(g.cells, Append(e, x), count + 1)
  <2>1. x.info \in Nat /\ InFront(e, x.info)
    BY <1>1, <1>5 DEF InFront
  <2>2. QED
    BY <1>1, <1>5, <1>9, <1>11, <2>1, StoredScan
<1>15. QED
  BY <1>2, <1>4, <1>13, <1>14 DEF ScannedBy, g

(* Entering a name writes no info block. *)
LEMMA EnteredInfos ==
    ASSUME NEW f \in Image, NEW entry \in Cell, entry.tag = "entry",
           NEW a \in DOMAIN EnterBin(f, entry).cells,
           EnterBin(f, entry).cells[a].tag = "info"
    PROVE  a \in DOMAIN f.cells /\ f.cells[a].tag = "info"
<1> DEFINE room == IF f.hdr.binsRemain <= 0 THEN AllocateNewBinBlock(f) ELSE f
           next == room.hdr.nextBin
<1>1. EnterBin(f, entry).cells = [room.cells EXCEPT ![next] = entry]
  BY DEF EnterBin, TakeSlot
<1>2. \A i \in DOMAIN room.cells : room.cells[i].tag = "info" =>
          i \in DOMAIN f.cells /\ f.cells[i].tag = "info"
  BY DEF AllocateNewBinBlock, Ptr, Zero, CellAt
<1> HIDE DEF room, next
<1>3. a \in DOMAIN room.cells /\ (a # next => room.cells[a].tag = "info")
      /\ a # next
  BY <1>1
<1>4. QED
  BY <1>2, <1>3

(* Nor does it count a record. *)
LEMMA EnteredWords ==
    ASSUME NEW f \in Image, NEW entry
    PROVE  EnterBin(f, entry).hdr["numberRecords"] = f.hdr["numberRecords"]
<1> DEFINE room == IF f.hdr.binsRemain <= 0 THEN AllocateNewBinBlock(f) ELSE f
<1>1. room \in Image /\ room.hdr["numberRecords"] = f.hdr["numberRecords"]
  BY AllocateType, AllocateWords DEF HeaderWord
<1>2. EnterBin(f, entry) = TakeSlot(room, entry)
  BY DEF EnterBin
<1> HIDE DEF room
<1>3. TakeSlot(room, entry).hdr["numberRecords"] = room.hdr["numberRecords"]
  BY <1>1, TakeSlotWords DEF HeaderWord
<1>4. QED
  BY <1>1, <1>2, <1>3

(* An alias is nothing that the scan meets. *)
LEMMA AliasedScanned ==
    ASSUME NEW f, Safe(f), ~ f.spilled, NEW chain, ScannedBy(f, chain),
           NEW g, Aliased(f, g)
    PROVE  \E new : ScannedBy(g, new)
<1> PICK slot \in DOMAIN f.cells, alias \in Path :
           /\ HasTag(f, slot, "entry")
           /\ g = Count(EnterBin(f, Entry(alias, "ALIAS", f.cells[slot].info,
                                         f.cells[slot].type)),
                        "numberAliases")
  BY DEF Aliased
<1> DEFINE x == Entry(alias, "ALIAS", f.cells[slot].info, f.cells[slot].type)
           base == f.hdr["fileSize"]
           m == f.hdr["totalBins"]
           count == f.hdr["numberRecords"]
           cells == f.cells
           e == BinEntries(f, chain)
<1>1. /\ f \in Image /\ cells \in Seq(Cell) /\ count \in Nat /\ m \in Nat
      /\ base \in Nat \ {0} /\ cells[f.hdr["nextBin"]] = Zero
      /\ e \in Seq(Cell) /\ Len(e) = m /\ EntriesLead(cells, base)
      /\ \A k \in 1..m : /\ SlotAt(chain, k) \in DOMAIN cells
                         /\ SlotAt(chain, k) < base
                         /\ e[k] = cells[SlotAt(chain, k)]
                         /\ cells[SlotAt(chain, k)].tag = "entry"
      /\ \A a \in DOMAIN cells : cells[a].tag = "info" => a < base
  BY ScannedFile
<1>2. PICK new : Walked(g, new) /\ Entered(f, g, chain, new, x)
  BY AliasedWalk DEF ScannedBy
<1>3. /\ g.hdr["totalBins"] = m + 1
      /\ \A k \in 1..m : SlotAt(new, k) = SlotAt(chain, k)
      /\ SlotAt(new, m + 1) \in DOMAIN g.cells
      /\ g.cells[SlotAt(new, m + 1)] = x
  BY <1>2 DEF Entered
<1>4. slot \in DOMAIN cells /\ cells[slot].tag = "entry"
      /\ cells[slot].info \in Address /\ cells[slot].type \in RecordType
  BY <1>1, FoundEntry DEF HasTag
<1>5. x \in Cell /\ x.info = cells[slot].info /\ x.tag = "entry" /\ x.path \in Path
  BY <1>4 DEF Entry, Cell, Status
<1> DEFINE entered == EnterBin(f, x)
<1>6. g.cells = entered.cells /\ g.hdr["numberRecords"] = count
  <2>1. entered.hdr["numberRecords"] = count
    BY <1>1, EnteredWords
  <2>2. entered \in Image
    BY <1>1, <1>4, EnterBinType DEF Status
  <2>3. g = Count(entered, "numberAliases")
    OBVIOUS
  <2>4. entered.hdr \in [HeaderWord -> Nat]
    BY <2>2, ImageFields DEF Header
  <2> HIDE DEF entered, count
  <2>5. QED
    BY <2>1, <2>3, <2>4 DEF Count, HeaderWord
<1>7. CellsKept(cells, entered.cells, base)
  BY <1>1, <1>5, EnterKeeps
<1>8. \A a \in DOMAIN entered.cells : entered.cells[a].tag = "info" =>
          a \in DOMAIN cells /\ cells[a].tag = "info"
  BY <1>1, <1>5, EnteredInfos
<1>9. Scannable(cells, e, count)
  BY DEF ScannedBy
<1>10. \E i \in 1..m : e[i].info = x.info
  <2>1. cells[slot].info \in DOMAIN cells /\ cells[cells[slot].info].tag = "info"
    BY <1>1, <1>4 DEF EntriesLead, Leads
  <2>2. PICK i \in Firsts(e) : e[i].info = cells[slot].info
    BY <1>9, <2>1 DEF Scannable
  <2>3. i \in 1..m
    BY <1>1 DEF Firsts
  <2>4. QED
    BY <1>5, <2>2, <2>3
<1> HIDE DEF x, entered, e, m, base, cells, count
<1>11. SameInfos(cells, g.cells)
  BY <1>1, <1>6, <1>7, <1>8 DEF SameInfos, CellsKept, Zero
<1>12. \A k \in 1..m : g.cells[SlotAt(new, k)] = e[k]
  <2>1. \A a \in DOMAIN cells : cells[a].tag = "entry" /\ a < base =>
            g.cells[a] = cells[a]
    BY <1>6, <1>7 DEF CellsKept, Zero
  <2>2. QED
    BY <1>1, <1>3, <2>1
<1>13. BinEntries(g, new) = Append(e, x)
  <2> DEFINE d == BinEntries(g, new)
  <2>1. g \in Image
    BY <1>1, ChangeType DEF Change
  <2>2. d \in Seq(Cell) /\ Len(d) = m + 1
        /\ \A k \in 1..(m + 1) : d[k] = g.cells[SlotAt(new, k)]
    <3>1. Listing(g, new, d)
      BY <1>2, <2>1, EntriesType
    <3> HIDE DEF d
    <3>2. QED
      BY <1>3, <3>1 DEF Listing
  <2> HIDE DEF d
  <2>3. (\A k \in 1..m : d[k] = e[k]) /\ d[m + 1] = x
    <3>1. (\A k \in 1..m : k \in 1..(m + 1)) /\ m + 1 \in 1..(m + 1)
      BY <1>1
    <3>2. QED
      BY <1>3, <1>12, <2>2, <3>1
  <2>4. QED
    BY <1>1, <2>2, <2>3, IsAppend DEF d
<1>14. Scannable(g.cells, Append(e, x), count)
  BY <1>1, <1>5, <1>9, <1>10, <1>11, AliasedScan
<1>15. QED
  BY <1>2, <1>6, <1>13, <1>14 DEF ScannedBy

(* A mark is none either. *)
LEMMA MarkedScanned ==
    ASSUME NEW f, Safe(f), ~ f.spilled, NEW chain, ScannedBy(f, chain),
           NEW g, Marked(f, g)
    PROVE  ScannedBy(g, chain)
<1> PICK slot \in DOMAIN f.cells, status \in Status :
        /\ HasTag(f, slot, "entry")
        /\ \/ g = SetStatus(f, slot, status)
           \/ \E word \in {"numberDeletes", "numberAliasDeletes"} :
                  g = Count(SetStatus(f, slot, status), word)
  BY DEF Marked
<1> DEFINE x == Entry(f.cells[slot].path, status, f.cells[slot].info,
                      f.cells[slot].type)
           m == f.hdr["totalBins"]
           count == f.hdr["numberRecords"]
           cells == f.cells
           e == BinEntries(f, chain)
           d == BinEntries(g, chain)
<1>1. /\ f \in Image /\ cells \in Seq(Cell) /\ m \in Nat
      /\ e \in Seq(Cell) /\ Len(e) = m
      /\ \A k \in 1..m : /\ SlotAt(chain, k) \in DOMAIN cells
                         /\ e[k] = cells[SlotAt(chain, k)]
  BY ScannedFile
<1>2. /\ Walked(g, chain) /\ g.hdr["totalBins"] = m
      /\ g.cells = [cells EXCEPT ![slot] = x]
  BY <1>1, MarkedBins DEF ScannedBy
<1>3. g \in Image
  BY <1>1, ChangeType DEF Change
<1>4. g.hdr["numberRecords"] = count
  <2>1. f.hdr \in [HeaderWord -> Nat]
    BY <1>1, ImageFields DEF Header
  <2>2. QED
    BY <2>1 DEF SetStatus, Count, HeaderWord
<1>5. /\ x.tag = "entry" /\ x.info = cells[slot].info
      /\ x.path = cells[slot].path /\ x.type = cells[slot].type
      /\ slot \in DOMAIN cells /\ cells[slot].tag = "entry"
  BY DEF Entry, HasTag
<1>6. /\ d \in Seq(Cell) /\ Len(d) = m
      /\ \A k \in 1..m : d[k] = g.cells[SlotAt(chain, k)]
  <2>1. /\ d \in Seq(Cell) /\ Len(d) = g.hdr["totalBins"]
        /\ \A k \in 1..g.hdr["totalBins"] : d[k] = g.cells[SlotAt(chain, k)]
    <3>1. Listing(g, chain, d)
      BY <1>2, <1>3, EntriesType
    <3>2. QED
      BY <3>1 DEF Listing
  <2> HIDE DEF d, m
  <2>2. QED
    BY <1>2, <2>1
<1>7. Scannable(cells, e, count)
  BY DEF ScannedBy
<1> HIDE DEF x, e, d, m, cells, count
<1>8. SameInfos(cells, g.cells)
  BY <1>2, <1>5 DEF SameInfos
<1>9. \A k \in 1..m : SameRecord(d[k], e[k])
  BY <1>1, <1>2, <1>5, <1>6 DEF SameRecord
<1>10. Scannable(g.cells, d, count)
  BY <1>1, <1>6, <1>7, <1>8, <1>9, MarkedScan
<1>11. QED
  BY <1>2, <1>4, <1>10 DEF ScannedBy, d

(* A new file has neither entries nor info blocks. *)
LEMMA NewFileScanned == ScannedBy(NewFile, << FirstBin >>)
<1> DEFINE f == NewFile
           e == BinEntries(f, << FirstBin >>)
<1>1. f.hdr["totalBins"] = 0 /\ f.hdr["numberRecords"] = 0
  BY DEF NewFile, HeaderWord
<1>2. e = << >>
  BY <1>1 DEF BinEntries
<1>3. \A a \in DOMAIN f.cells : f.cells[a].tag # "info"
  BY DEF NewFile, Zero, EofFlag
<1>4. Firsts(<< >>) = {} /\ Len(<< >>) = 0
  BY DEF Firsts
<1>5. Positions({}, 0) = << >>
  <2>1. [i \in 1..0 |-> i] = << >>
    OBVIOUS
  <2>2. QED
    BY <2>1, SelectedNone DEF Positions
<1> HIDE DEF f, e
<1>6. Scannable(f.cells, << >>, 0)
  BY <1>3, <1>4, <1>5 DEF Scannable
<1>7. QED
  BY <1>1, <1>2, <1>6, NewFileWalked DEF ScannedBy, f, e

\* A file whose records the scan meets, as long as no bin block was laid over
\* a record.
Scans(f) == Safe(f) /\ (~ f.spilled => \E chain : ScannedBy(f, chain))

(* Every operation leaves such a file. *)
LEMMA ScansChange ==
    ASSUME NEW f, Scans(f), NEW g, Change(f, g)
    PROVE  Scans(g)
<1>1. Safe(f) /\ Safe(g)
  BY ChangeSafe DEF Scans
<1>2. SUFFICES ASSUME ~ g.spilled
               PROVE  \E chain : ScannedBy(g, chain)
  BY <1>1 DEF Scans
<1>3. ~ f.spilled
  BY <1>1, <1>2, SpilledStays
<1>4. PICK chain : ScannedBy(f, chain)
  BY <1>3 DEF Scans
<1>5. CASE Stored(f, g)
  BY <1>1, <1>2, <1>3, <1>4, <1>5, StoredScanned DEF Stored
<1>6. CASE Aliased(f, g)
  BY <1>1, <1>3, <1>4, <1>6, AliasedScanned
<1>7. CASE Marked(f, g)
  BY <1>1, <1>3, <1>4, <1>7, MarkedScanned
<1>8. QED
  BY <1>4, <1>5, <1>6, <1>7 DEF Change

ScanInv == TypeOK /\ Scans(file) /\ Scans(tmp)

(* Until a bin block is laid over a record, the scan of parse_v7_info for
   info blocks meets the records that the bins name, each once, in the order
   in which they were stored, and as many as the header counts: what is
   recovered from a file whose hash table or bins are lost is all that was
   ever stored and not squeezed away. *)
THEOREM ScanFindsAll == Spec => []ScanFindsRecords
<1>1. Init => ScanInv
  <2>1. Scans(NewFile)
    BY NewFileSafe, NewFileScanned DEF Scans
  <2>2. QED
    BY <2>1, NewFileType DEF Init, TypeOK, ScanInv
<1>2. ScanInv /\ [Next]_vars => ScanInv'
  <2> SUFFICES ASSUME ScanInv, [Next]_vars
               PROVE  ScanInv'
    OBVIOUS
  <2>1. /\ Change(file, file') \/ file' = tmp
        /\ Change(tmp, tmp') \/ tmp' = NewFile
        /\ pc' \in {"idle", "squeeze"}
    BY Steps DEF ScanInv
  <2>2. Scans(NewFile)
    BY NewFileSafe, NewFileScanned DEF Scans
  <2>3. Scans(file') /\ Scans(tmp')
    BY <2>1, <2>2, ScansChange DEF ScanInv
  <2>4. file' \in Image /\ tmp' \in Image
    BY <2>3 DEF Scans, Safe
  <2>5. QED
    BY <2>1, <2>3, <2>4 DEF ScanInv, TypeOK
<1>3. ScanInv => ScanFindsRecords
  <2>1. ASSUME NEW f, Scans(f), ~ f.spilled
        PROVE  ScanAgrees(f)
    <3>1. PICK chain : ScannedBy(f, chain)
      BY <2>1 DEF Scans
    <3>2. f \in Image /\ LaidOut(f)
      BY <2>1 DEF Scans, Safe, LaidOut, LaidTo
    <3>3. QED
      BY <3>1, <3>2, ScannableAgrees DEF ScannedBy
  <2>2. QED
    BY <2>1 DEF ScanInv, ScanFindsRecords
<1>4. QED
  BY <1>1, <1>2, <1>3, PTL DEF Spec
-----------------------------------------------------------------------------
(* What squeeze keeps.  A name that is copied has the first entry of its   *)
(* table hash in the new file, because a name that is read has the first   *)
(* one in the old file, and no other name of its hash is read there.       *)

\* What copies i of the catalog become in the list of the new file.
Copies(f, list) ==
    /\ Len(list) \in Nat
    /\ \A k \in 1..Len(list) :
           \E i \in CopiedAt(f) : list[k] = Carry(f, Catalog(f)[i])
    /\ \A i \in CopiedAt(f) :
           \E k \in 1..Len(list) : list[k] = Carry(f, Catalog(f)[i])

(* At the end of its loop squeeze has written the copies and nothing else. *)
LEMMA SqueezeCopied ==
    ASSUME NEW f, Walkable(f), ~ f.spilled, NEW t, ~ t.spilled,
           Squeezing(f, t, << >>)
    PROVE  Copies(f, LogOf(t)) /\ \A i \in 1..Len(Catalog(f)) : ~ FailsAt(f, i)
<1> DEFINE cat == Catalog(f)
           at == CopiedAt(f)
           sel == Selected(cat, at)
           pos == Positions(at, Len(cat))
           list == LogOf(t)
<1>1. /\ \A i \in 1..Len(cat) : ~ FailsAt(f, i)
      /\ list = Carried(f, sel)
  BY SqueezeEnds
<1>2. cat \in Seq(Cell) /\ at \subseteq 1..Len(cat)
  BY CatalogType DEF CopiedAt
<1> HIDE DEF cat, at, list
<1>3. /\ Enumerates(pos, at, Len(cat)) /\ At(pos, sel, cat)
      /\ sel \in Seq(Cell) /\ Len(cat) \in Nat
  <2>1. Enumerates(pos, at, Len(cat)) /\ At(pos, sel, cat)
    BY <1>2, SelectedPositions
  <2>2. sel \in Seq(Cell)
    BY <1>2, SelectedType
  <2>3. QED
    BY <1>2, <2>1, <2>2
<1> HIDE DEF sel, pos
<1>4. /\ Len(list) = Len(sel) /\ Len(list) \in Nat
      /\ \A k \in 1..Len(list) : list[k] = Carry(f, sel[k])
  BY <1>1, <1>3 DEF Carried
<1>5. ASSUME NEW k \in 1..Len(list)
      PROVE  \E i \in at : list[k] = Carry(f, cat[i])
  <2>1. pos[k] \in at /\ sel[k] = cat[pos[k]]
    BY <1>3, <1>4 DEF Enumerates, At
  <2>2. QED
    BY <1>4, <2>1
<1>6. ASSUME NEW i \in at
      PROVE  \E k \in 1..Len(list) : list[k] = Carry(f, cat[i])
  <2>1. PICK k \in 1..Len(pos) : pos[k] = i
    BY <1>2, <1>3 DEF Enumerates
  <2>2. k \in 1..Len(list) /\ sel[k] = cat[i]
    BY <1>3, <1>4, <2>1 DEF At
  <2>3. QED
    BY <1>4, <2>2
<1>7. QED
  BY <1>1, <1>4, <1>5, <1>6 DEF Copies, cat, at, list

\* What squeeze wrote for the i-th entry of the catalog.
FormAt(f, i) ==
    SqueezeForm(Catalog(f)[i].type, ReadRecord(f, Catalog(f)[i].path))

(* A name that was copied reads one of its copies. *)
LEMMA CopyIsRead ==
    ASSUME NEW f \in Image, NEW t, Walkable(t), ~ t.spilled, Copies(f, LogOf(t)),
           NEW i \in CopiedAt(f), Catalog(f)[i].path \in Path
    PROVE  \E j \in CopiedAt(f) :
               /\ Catalog(f)[j].path = Catalog(f)[i].path
               /\ ReadRecord(t, Catalog(f)[i].path)
                    = [type |-> FormAt(f, j).type, content |-> FormAt(f, j).content]
<1> DEFINE x == Catalog(f)[i].path
           list == LogOf(t)
<1>1. PICK chain : Walked(t, chain)
  BY DEF Walkable
<1>2. t \in Image /\ list = Logs(t, chain)
  BY <1>1, LogOfWalked DEF Walkable, Safe
<1>3. SaidOf(t, list, x)
  BY <1>1, <1>2, ListIsRead
<1>4. \A j \in CopiedAt(f) : ReadRecord(f, Catalog(f)[j].path) # NoRecord
  BY DEF CopiedAt, SqueezeCopies
<1>5. ASSUME NEW j
      PROVE  /\ Carry(f, Catalog(f)[j]).path = Catalog(f)[j].path
             /\ Carry(f, Catalog(f)[j]).type = FormAt(f, j).type
             /\ Carry(f, Catalog(f)[j]).content = FormAt(f, j).content
  BY DEF Carry, FormAt
<1>6. PICK n \in 1..Len(list) : list[n] = Carry(f, Catalog(f)[i])
  BY DEF Copies
<1>7. list[n].path = x
  BY <1>5, <1>6
<1> HIDE DEF list
<1>8. PICK k \in 1..Len(list) :
          FirstFor(list, k, x) /\ ReadRecord(t, x) = ReadThrough(list, k, x)
  BY <1>3, <1>7 DEF SaidOf, NoneOf
<1>9. PICK j \in CopiedAt(f) : list[k] = Carry(f, Catalog(f)[j])
  BY <1>8 DEF Copies, list
<1>10. /\ list[k].path = Catalog(f)[j].path
       /\ list[k].type = FormAt(f, j).type
       /\ list[k].content = FormAt(f, j).content
  BY <1>5, <1>9
<1>11. Catalog(f)[j].path = x
  <2>1. TableHash[Catalog(f)[j].path] = TableHash[x]
    BY <1>8, <1>10 DEF FirstFor
  <2>2. QED
    BY <1>4, <2>1, OneNamePerHash
<1>12. ReadRecord(t, x)
         = [type |-> FormAt(f, j).type, content |-> FormAt(f, j).content]
  BY <1>8, <1>10, <1>11 DEF ReadThrough
<1>13. QED
  BY <1>11, <1>12

(* What squeeze has written it would write again, and could read. *)
LEMMA FormAgain ==
    ASSUME NEW type, NEW rec, SqueezeCopies(type, rec), ~ SqueezeFails(type, rec)
    PROVE  LET form == SqueezeForm(type, rec)
           IN  /\ form = [type |-> form.type, content |-> form.content]
               /\ ~ SqueezeFails(form.type, form)
               /\ SqueezeCopies(form.type, form)
               /\ SqueezeForm(form.type, form) = form
<1>1. /\ "ih" \in Area /\ "h2" \in Area /\ "v1" \in Area /\ "v2" \in Area
      /\ "length" # Empty /\ Garbled # Empty
  BY DEF Area, Empty, Garbled
<1>2. CASE IsText(type)
  <2> DEFINE text == ReadText(rec)
             form == TextRecord(text)
  <2>1. text # Empty /\ SqueezeForm(type, rec) = form
    BY <1>2 DEF SqueezeCopies, SqueezeForm, IsText, IsTimeSeries, IsPairedData
  <2> HIDE DEF text
  <2>2. form = [type |-> TEXT, content |-> form.content] /\ form.content["v1"] = text
    BY <1>1 DEF TextRecord, NoArea
  <2>3. form.type = 300
    BY <2>2 DEF TEXT
  <2> HIDE DEF form
  <2>4. IsText(form.type) /\ ~ IsTimeSeries(form.type) /\ ~ IsPairedData(form.type)
    BY <2>3 DEF IsText, IsTimeSeries, IsPairedData
  <2>5. ReadText(form) = text /\ form # NoRecord
    BY <2>2, <2>3, <2>4 DEF ReadText, NoRecord
  <2>6. QED
    BY <2>1, <2>2, <2>4, <2>5 DEF SqueezeFails, SqueezeCopies, SqueezeForm, form
<1>3. CASE IsTimeSeries(type)
  <2> DEFINE v == rec.content["v1"]
             u == rec.content["ih"]
             form == TsRecord(v, u)
  <2>1. /\ v # Empty /\ u # Empty /\ SqueezeForm(type, rec) = form
    BY <1>3 DEF SqueezeCopies, SqueezeFails, ReadTsFails, SqueezeForm, IsText,
                IsTimeSeries, IsPairedData
  <2> HIDE DEF v, u
  <2>2. /\ form = [type |-> RTD, content |-> form.content]
        /\ form.content["v1"] = v /\ form.content["ih"] = u
    BY <1>1 DEF TsRecord, NoArea
  <2>3. form.type = 105
    BY <2>2 DEF RTD
  <2>4. form = TsRecord(v, u)
    OBVIOUS
  <2> HIDE DEF form
  <2>5. ~ IsText(form.type) /\ IsTimeSeries(form.type) /\ ~ IsPairedData(form.type)
    BY <2>3 DEF IsText, IsTimeSeries, IsPairedData
  <2>6. form # NoRecord /\ ~ ReadTsFails(form)
    BY <2>1, <2>2, <2>3, <2>5 DEF NoRecord, ReadTsFails
  <2>7. QED
    BY <2>1, <2>2, <2>4, <2>5, <2>6 DEF SqueezeFails, SqueezeCopies, SqueezeForm
<1>4. CASE IsPairedData(type)
  <2> DEFINE v == rec.content["v1"]
             w == rec.content["v2"]
             u == rec.content["ih"]
             form == PdRecord(v, w, u, Empty)
  <2>1. /\ v # Empty /\ w # Empty /\ SqueezeForm(type, rec) = form
    BY <1>4 DEF SqueezeCopies, SqueezeForm, IsText, IsTimeSeries, IsPairedData
  <2> HIDE DEF v, w, u
  <2>2. /\ form = [type |-> PDD, content |-> form.content]
        /\ form.content["v1"] = v /\ form.content["v2"] = w
        /\ form.content["ih"] = u
    BY <1>1 DEF PdRecord, NoArea
  <2>3. form.type = 205
    BY <2>2 DEF PDD
  <2>4. form = PdRecord(v, w, u, Empty)
    OBVIOUS
  <2> HIDE DEF form
  <2>5. ~ IsText(form.type) /\ ~ IsTimeSeries(form.type) /\ IsPairedData(form.type)
    BY <2>3 DEF IsText, IsTimeSeries, IsPairedData
  <2>6. form # NoRecord /\ ~ ReadPdFails(form)
    BY <2>1, <2>2, <2>3, <2>5 DEF NoRecord, ReadPdFails
  <2>7. QED
    BY <2>1, <2>2, <2>4, <2>5, <2>6 DEF SqueezeFails, SqueezeCopies, SqueezeForm
<1>5. QED
  BY <1>2, <1>3, <1>4 DEF SqueezeCopies

(* The k-th slot of the walk has the path of the k-th entry of the log; the
   slot's type is that of its record. *)
LEMMA SlotsOfLog ==
    ASSUME NEW f, Walkable(f), ~ f.spilled, NEW k \in DOMAIN ReadAllBins(f)
    PROVE  LET slot == ReadAllBins(f)[k]
           IN  /\ k \in 1..Len(LogOf(f))
               /\ LogOf(f)[k].path = f.cells[slot].path
               /\ LogOf(f)[k].type = f.cells[slot].type
               /\ f.cells[slot].path \in Path
               /\ RecordAt(f, slot)
                    = [type |-> LogOf(f)[k].type, content |-> LogOf(f)[k].content]
<1>1. PICK chain : Walked(f, chain)
  BY DEF Walkable
<1> DEFINE m == f.hdr["totalBins"]
           list == LogOf(f)
           slots == ReadAllBins(f)
           s == slots[k]
<1>2. f \in Image /\ LaidOut(f) /\ list = Logs(f, chain)
      /\ EntriesLead(f.cells, f.hdr["fileSize"])
  BY <1>1, LogOfWalked DEF Walkable, Safe, LaidOut, LaidTo, Laid
<1>3. /\ m \in Nat /\ Len(list) = m
      /\ \A i \in 1..m : /\ HasTag(f, SlotAt(chain, i), "entry")
                         /\ list[i] = Logged(f, SlotAt(chain, i))
                         /\ list[i].path = f.cells[SlotAt(chain, i)].path
  BY <1>1, <1>2, LogsFields
<1>4. slots = SlotsOf(chain, m)
  BY <1>1, <1>2, WalkFinds
<1>5. k \in 1..m /\ s = SlotAt(chain, k)
  BY <1>3, <1>4 DEF SlotsOf
<1> HIDE DEF m, list, s
<1>6. HasTag(f, s, "entry") /\ list[k] = Logged(f, s) /\ list[k].path = f.cells[s].path
  BY <1>3, <1>5
<1>7. s \in DOMAIN f.cells /\ f.cells[s].tag = "entry" /\ f.cells[s].path \in Path
  BY <1>2, <1>6, FoundEntry DEF HasTag
<1>8. Leads(f.cells, f.cells[s].info, f.cells[s].type, f.hdr["fileSize"])
  BY <1>2, <1>7 DEF EntriesLead
<1>9. HasInfo(f, s) /\ f.cells[f.cells[s].info].type = f.cells[s].type
  BY <1>6, <1>8 DEF HasInfo, HasTag, Leads
<1>10. /\ RecordAt(f, s).type = f.cells[s].type
       /\ RecordAt(f, s)
            = [type |-> RecordAt(f, s).type, content |-> RecordAt(f, s).content]
  BY <1>9 DEF RecordAt
<1>11. list[k].type = RecordAt(f, s).type /\ list[k].content = RecordAt(f, s).content
  BY <1>6 DEF Logged
<1>12. QED
  BY <1>3, <1>5, <1>6, <1>7, <1>10, <1>11 DEF list, s

(* Each entry of the catalog is one of the walk. *)
LEMMA CatalogSlots ==
    ASSUME NEW f, Walkable(f), ~ f.spilled, NEW i \in 1..Len(Catalog(f))
    PROVE  \E k \in DOMAIN ReadAllBins(f) :
               Catalog(f)[i] = f.cells[ReadAllBins(f)[k]]
<1>1. PICK chain : Walked(f, chain)
  BY DEF Walkable
<1> DEFINE m == f.hdr["totalBins"]
           at == LiveAt(f, chain)
           pos == Positions(at, m)
<1>2. /\ m \in Nat /\ Enumerates(pos, at, m)
      /\ Len(Catalog(f)) = Len(pos)
      /\ Catalog(f)[i] = f.cells[SlotAt(chain, pos[i])]
  BY <1>1, CatalogPlaces DEF Walkable
<1>3. ReadAllBins(f) = SlotsOf(chain, m)
  BY <1>1, WalkFinds DEF Walkable, Safe, LaidOut, LaidTo
<1>4. at \subseteq 1..m
  BY DEF LiveAt
<1> HIDE DEF at, pos, m
<1>5. pos[i] \in 1..m
  BY <1>2, <1>4 DEF Enumerates
<1>6. pos[i] \in DOMAIN ReadAllBins(f) /\ ReadAllBins(f)[pos[i]] = SlotAt(chain, pos[i])
  BY <1>3, <1>5 DEF SlotsOf
<1>7. QED
  BY <1>2, <1>6

(* If every name has entries of one type only, a name that is read reads
   the type of any of its entries. *)
LEMMA OneTypeIsRead ==
    ASSUME NEW f, Walkable(f), ~ f.spilled, OneTypeAName(f),
           NEW i \in 1..Len(Catalog(f)), NEW j \in 1..Len(Catalog(f)),
           Catalog(f)[i].path = Catalog(f)[j].path
    PROVE  Catalog(f)[i].type = Catalog(f)[j].type
<1>1. PICK k \in DOMAIN ReadAllBins(f) : Catalog(f)[i] = f.cells[ReadAllBins(f)[k]]
  BY CatalogSlots
<1>2. PICK l \in DOMAIN ReadAllBins(f) : Catalog(f)[j] = f.cells[ReadAllBins(f)[l]]
  BY CatalogSlots
<1>3. QED
  BY <1>1, <1>2 DEF OneTypeAName

(* The new file is settled: squeezing it once more would carry every entry
   over as it is. *)
LEMMA SqueezeSettles ==
    ASSUME NEW f, Walkable(f), ~ f.spilled, OneTypeAName(f),
           NEW t, Walkable(t), ~ t.spilled, Squeezing(f, t, << >>)
    PROVE  Settled(t)
<1>1. Copies(f, LogOf(t)) /\ \A i \in 1..Len(Catalog(f)) : ~ FailsAt(f, i)
  BY SqueezeCopied
<1>2. f \in Image
  BY DEF Walkable, Safe
<1>3. SUFFICES ASSUME NEW k \in DOMAIN ReadAllBins(t)
               PROVE  LET slot  == ReadAllBins(t)[k]
                          entry == t.cells[slot]
                          rec   == ReadRecord(t, entry.path)
                      IN  /\ ~ SqueezeFails(entry.type, rec)
                          /\ SqueezeCopies(entry.type, rec)
                          /\ SqueezeForm(entry.type, rec) = RecordAt(t, slot)
  BY DEF Settled
<1> DEFINE slot == ReadAllBins(t)[k]
           entry == t.cells[slot]
           item == LogOf(t)[k]
<1>4. /\ k \in 1..Len(LogOf(t))
      /\ item.path = entry.path /\ item.type = entry.type /\ entry.path \in Path
      /\ RecordAt(t, slot) = [type |-> item.type, content |-> item.content]
  BY SlotsOfLog
<1>5. PICK i \in CopiedAt(f) : item = Carry(f, Catalog(f)[i])
  BY <1>1, <1>4 DEF Copies
<1>6. /\ item.path = Catalog(f)[i].path /\ item.type = FormAt(f, i).type
      /\ item.content = FormAt(f, i).content
  BY <1>5 DEF Carry, FormAt
<1> HIDE DEF entry, item
<1>7. PICK j \in CopiedAt(f) :
          /\ Catalog(f)[j].path = Catalog(f)[i].path
          /\ ReadRecord(t, entry.path)
               = [type |-> FormAt(f, j).type, content |-> FormAt(f, j).content]
  BY <1>1, <1>2, <1>4, <1>6, CopyIsRead
<1>8. FormAt(f, j) = FormAt(f, i)
  <2>1. i \in 1..Len(Catalog(f)) /\ j \in 1..Len(Catalog(f))
    BY DEF CopiedAt
  <2>2. Catalog(f)[j].type = Catalog(f)[i].type
    BY <1>7, <2>1, OneTypeIsRead
  <2>3. QED
    BY <1>7, <2>2 DEF FormAt
<1> DEFINE form == FormAt(f, i)
<1>9. /\ form = [type |-> form.type, content |-> form.content]
      /\ ~ SqueezeFails(form.type, form)
      /\ SqueezeCopies(form.type, form)
      /\ SqueezeForm(form.type, form) = form
  <2>1. /\ SqueezeCopies(Catalog(f)[i].type, ReadRecord(f, Catalog(f)[i].path))
        /\ ~ SqueezeFails(Catalog(f)[i].type, ReadRecord(f, Catalog(f)[i].path))
    BY <1>1 DEF CopiedAt, FailsAt
  <2>2. QED
    BY <2>1, FormAgain DEF FormAt
<1> HIDE DEF form
<1>10. ReadRecord(t, entry.path) = form /\ entry.type = form.type
       /\ RecordAt(t, slot) = form
  BY <1>4, <1>6, <1>7, <1>8, <1>9 DEF form
<1>11. QED
  BY <1>9, <1>10 DEF entry

(* The invariant of squeeze holds in every state. *)
LEMMA SqueezeAlways == Spec => []SqueezeInv
  BY SqueezeInit, SqueezeStep, PTL DEF Spec

(* Only the end of its loop ends squeeze when nothing is left to copy. *)
LEMMA SqueezeReplaces ==
    ASSUME [Next]_vars, pc = "squeeze", pc' = "idle", todo = << >>
    PROVE  file' = tmp
<1>1. Next
  BY DEF vars
<1>2. ~ Write
  BY WriteStores DEF Store
<1>3. QED
  BY <1>1, <1>2
     DEF Next, Mark, Delete, Undelete, AliasRemove, Alias, AliasAdd, Squeeze,
         SqueezeBegin, SqueezeEntry, SqueezeAbort, SqueezeEnd

(* Squeezing a squeezed file would change nothing and could not fail, if no
   name was ever used for records of two types: whatever SqueezeEnd puts in
   the place of the file holds, under each name and type, the record in the
   form squeeze writes it in. *)
THEOREM SqueezeSettlesFile == Spec => SqueezeIsIdempotent
<1>1. SqueezeInv /\ [Next]_vars =>
        [/\ pc = "squeeze" /\ pc' = "idle" /\ todo = << >>
         /\ ~ file.spilled /\ ~ tmp.spilled /\ OneTypeAName(file)
         => Settled(file')]_vars
  <2> SUFFICES ASSUME SqueezeInv, [Next]_vars, pc = "squeeze", pc' = "idle",
                      todo = << >>, ~ file.spilled, ~ tmp.spilled,
                      OneTypeAName(file)
               PROVE  Settled(file')
    OBVIOUS
  <2>1. Settled(tmp)
    BY SqueezeSettles DEF SqueezeInv
  <2>2. QED
    BY <2>1, SqueezeReplaces
<1>2. QED
  BY <1>1, SqueezeAlways, PTL DEF Spec, SqueezeIsIdempotent

\* Paired data always has values: write_pd is given some, and squeeze carries
\* over no others.
FullPair(rec) == rec.type = PDD => rec.content["v2"] # Empty
FullPairs(list) == \A k \in 1..Len(list) : FullPair(list[k])
Paired(f) == ~ f.spilled => FullPairs(LogOf(f))

(* What is read of a file of full pairs is one. *)
LEMMA FullPairRead ==
    ASSUME NEW f, Walkable(f), ~ f.spilled, Paired(f), NEW path \in Path
    PROVE  FullPair(ReadRecord(f, path))
<1>1. PICK chain : Walked(f, chain)
  BY DEF Walkable
<1> DEFINE list == LogOf(f)
<1>2. SaidOf(f, list, path)
  BY <1>1, LogOfWalked, ListIsRead DEF Walkable, Safe
<1>3. FullPairs(list)
  BY DEF Paired
<1>4. FullPair(NoRecord)
  BY DEF FullPair, NoRecord, PDD
<1> HIDE DEF list
<1>5. \A k \in 1..Len(list) : FullPair(ReadThrough(list, k, path))
  BY <1>3, <1>4 DEF FullPairs, FullPair, ReadThrough
<1>6. QED
  BY <1>2, <1>4, <1>5 DEF SaidOf

(* One entry more. *)
LEMMA FullPairsAppend ==
    ASSUME NEW V, NEW list \in Seq(V), FullPairs(list), NEW x, FullPair(x),
           NEW more, more = Append(list, x)
    PROVE  FullPairs(more)
<1>1. /\ Len(more) = Len(list) + 1 /\ Len(list) \in Nat
      /\ \A k \in 1..(Len(list) + 1) :
             more[k] = IF k = Len(list) + 1 THEN x ELSE list[k]
  OBVIOUS
<1>2. QED
  BY <1>1 DEF FullPairs

(* The log of a file is a sequence. *)
LEMMA LogIsSeq ==
    ASSUME NEW f, Walkable(f), ~ f.spilled
    PROVE  \E V : LogOf(f) \in Seq(V)
<1>1. PICK chain : Walked(f, chain)
  BY DEF Walkable
<1> DEFINE m == f.hdr["totalBins"]
           list == Logs(f, chain)
           V == {list[k] : k \in 1..m}
<1>2. list = LogOf(f) /\ m \in Nat
  BY <1>1, LogOfWalked, LogsFields DEF Walkable, Safe
<1>3. list \in [1..m -> V]
  BY DEF Logs
<1> HIDE DEF m, V, list
<1>4. list \in Seq(V)
  BY <1>2, <1>3, FunctionIsSeq
<1>5. QED
  BY <1>2, <1>4

(* A full pair is stored. *)
LEMMA StoredPaired ==
    ASSUME NEW f, Walkable(f), Paired(f), NEW path \in Path, NEW rec \in Record,
           FullPair(rec), NEW g, g = StoreRecord(f, path, rec)
    PROVE  Paired(g)
<1>1. SUFFICES ASSUME ~ g.spilled
               PROVE  FullPairs(LogOf(g))
  BY DEF Paired
<1>2. Change(f, g)
  BY DEF Change, Stored
<1>3. ~ f.spilled
  BY <1>1, <1>2, SpilledStays
<1>4. PICK chain : Walked(f, chain)
  BY <1>3 DEF Walkable
<1> DEFINE x == [path |-> path, type |-> rec.type, content |-> rec.content,
                 status |-> "PRIMARY"]
<1>5. Walked(g, chain) /\ Logs(g, chain) = Append(Logs(f, chain), x)
  BY <1>1, <1>3, <1>4, StoredWalk DEF Walkable
<1>6. FullPair(x)
  BY DEF FullPair
<1> HIDE DEF x
<1>7. LogOf(g) = Append(LogOf(f), x)
  BY <1>1, <1>2, <1>3, <1>4, <1>5, LogOfWalked, ChangeSafe DEF Walkable
<1>8. PICK V : LogOf(f) \in Seq(V)
  BY <1>3, LogIsSeq
<1>9. QED
  BY <1>3, <1>6, <1>7, <1>8, FullPairsAppend DEF Paired

(* An alias has the record of its primary. *)
LEMMA AliasedPaired ==
    ASSUME NEW f, Walkable(f), Paired(f), NEW primary \in Path, NEW alias \in Path,
           FindRecord(f, primary) # 0, NEW g,
           LET slot == FindRecord(f, primary)
           IN  g = Count(EnterBin(f, Entry(alias, "ALIAS", f.cells[slot].info,
                                           f.cells[slot].type)), "numberAliases")
    PROVE  Paired(g)
<1> DEFINE slot == FindRecord(f, primary)
<1>1. SUFFICES ASSUME ~ g.spilled
               PROVE  FullPairs(LogOf(g))
  BY DEF Paired
<1>2. slot \in DOMAIN f.cells /\ HasTag(f, slot, "entry")
  BY FoundRecord DEF Walkable, Safe, HasTag
<1>3. RecordAt(f, slot) = ReadRecord(f, primary)
  BY DEF ReadRecord
<1> HIDE DEF slot
<1>4. g = Count(EnterBin(f, Entry(alias, "ALIAS", f.cells[slot].info,
                                  f.cells[slot].type)), "numberAliases")
  BY DEF slot
<1>5. Change(f, g)
  BY <1>2, <1>4 DEF Change, Aliased
<1>6. ~ f.spilled
  BY <1>1, <1>5, SpilledStays
<1>7. PICK chain : Walked(f, chain)
  BY <1>6 DEF Walkable
<1> DEFINE x == [path |-> alias, type |-> RecordAt(f, slot).type,
                 content |-> RecordAt(f, slot).content, status |-> "ALIAS"]
<1>8. PICK new : Walked(g, new) /\ Logs(g, new) = Append(Logs(f, chain), x)
  BY <1>2, <1>4, <1>6, <1>7, AliasedWalk DEF Walkable
<1>9. FullPair(x)
  <2>1. FullPair(RecordAt(f, slot))
    BY <1>3, <1>6, FullPairRead
  <2>2. QED
    BY <2>1 DEF FullPair
<1> HIDE DEF x
<1>10. LogOf(g) = Append(LogOf(f), x)
  BY <1>1, <1>5, <1>6, <1>7, <1>8, LogOfWalked, ChangeSafe DEF Walkable
<1>11. PICK V : LogOf(f) \in Seq(V)
  BY <1>6, LogIsSeq
<1>12. QED
  BY <1>6, <1>9, <1>10, <1>11, FullPairsAppend DEF Paired

(* A mark leaves all records as they are. *)
LEMMA MarkedPaired ==
    ASSUME NEW f, Walkable(f), Paired(f), NEW g, Marked(f, g)
    PROVE  Paired(g)
<1> PICK slot \in DOMAIN f.cells, status \in Status :
        /\ HasTag(f, slot, "entry")
        /\ \/ g = SetStatus(f, slot, status)
           \/ \E word \in {"numberDeletes", "numberAliasDeletes"} :
                  g = Count(SetStatus(f, slot, status), word)
  BY DEF Marked
<1> DEFINE x == Entry(f.cells[slot].path, status, f.cells[slot].info,
                      f.cells[slot].type)
           m == f.hdr["totalBins"]
           cells == f.cells
           base == f.hdr["fileSize"]
<1>1. SUFFICES ASSUME ~ g.spilled
               PROVE  FullPairs(LogOf(g))
  BY DEF Paired
<1>2. ~ f.spilled /\ Safe(g)
  BY <1>1, SpilledStays, ChangeSafe DEF Change, Walkable
<1>3. PICK chain : Walked(f, chain)
  BY <1>2 DEF Walkable
<1>4. f \in Image /\ g \in Image /\ base \in Nat /\ EntriesLead(cells, base)
  BY <1>2, ImageFields DEF Walkable, Safe, Laid, HeaderWord
<1>5. Walked(g, chain) /\ g.hdr["totalBins"] = m /\ g.cells = [cells EXCEPT ![slot] = x]
  BY <1>3, <1>4, MarkedBins
<1>6. LogOf(f) = Logs(f, chain) /\ LogOf(g) = Logs(g, chain)
  BY <1>1, <1>2, <1>3, <1>5, LogOfWalked DEF Walkable
<1>7. m \in Nat /\ Len(LogOf(f)) = m /\ Len(LogOf(g)) = m
      /\ \A k \in 1..m : LogOf(f)[k] = Logged(f, SlotAt(chain, k))
                         /\ LogOf(g)[k] = Logged(g, SlotAt(chain, k))
                         /\ HasTag(f, SlotAt(chain, k), "entry")
                         /\ HasTag(g, SlotAt(chain, k), "entry")
  <2>1. m \in Nat /\ Len(LogOf(f)) = m
        /\ \A k \in 1..m : LogOf(f)[k] = Logged(f, SlotAt(chain, k))
                           /\ HasTag(f, SlotAt(chain, k), "entry")
    BY <1>3, <1>4, <1>6, LogsFields
  <2>2. Len(LogOf(g)) = m
        /\ \A k \in 1..m : LogOf(g)[k] = Logged(g, SlotAt(chain, k))
                           /\ HasTag(g, SlotAt(chain, k), "entry")
    BY <1>4, <1>5, <1>6, LogsFields
  <2>3. QED
    BY <2>1, <2>2
<1>8. /\ x.tag = "entry" /\ x.info = cells[slot].info
      /\ slot \in DOMAIN cells /\ cells[slot].tag = "entry"
  BY DEF Entry, HasTag
<1> HIDE DEF x, m
<1>9. ASSUME NEW k \in 1..m
      PROVE  RecordAt(g, SlotAt(chain, k)) = RecordAt(f, SlotAt(chain, k))
  <2> DEFINE s == SlotAt(chain, k)
  <2>1. HasTag(f, s, "entry") /\ HasTag(g, s, "entry")
    BY <1>7
  <2> HIDE DEF s
  <2>2. s \in DOMAIN cells /\ cells[s].tag = "entry"
    BY <2>1 DEF HasTag
  <2>3. g.cells[s].info = cells[s].info
    BY <1>5, <1>8, <2>2
  <2>4. Leads(cells, cells[s].info, cells[s].type, base)
    BY <1>4, <2>2 DEF EntriesLead
  <2>5. DataKept(cells, g.cells, base)
    BY <1>5, <1>8 DEF DataKept
  <2>6. RecordAt(g, s) = RecordAt(f, s)
    BY <1>4, <2>1, <2>3, <2>4, <2>5, RecordKept
  <2>7. QED
    BY <2>6 DEF s
<1>10. \A k \in 1..m : FullPair(LogOf(f)[k])
  BY <1>2, <1>7 DEF Paired, FullPairs
<1>11. ASSUME NEW k \in 1..m
       PROVE  FullPair(LogOf(g)[k])
  <2>1. /\ LogOf(g)[k].type = LogOf(f)[k].type
        /\ LogOf(g)[k].content = LogOf(f)[k].content
    BY <1>7, <1>9 DEF Logged
  <2>2. QED
    BY <1>10, <2>1 DEF FullPair
<1>12. QED
  BY <1>7, <1>11 DEF FullPairs

(* Every record that can be written is a full pair. *)
LEMMA WritableIsFull ==
    ASSUME NEW rec \in Writable
    PROVE  FullPair(rec)
<1> USE DEF FullPair
<1>1. /\ "v2" \in Area /\ 300 # 205 /\ 105 # 205 /\ 115 # 205
      /\ 90 # 205 /\ 20 # 205 /\ 420 # 205
  BY DEF Area
<1>2. \A v \in Value : v # Empty
  BY ValueAssumption DEF Token, Empty
<1>3. \A text : TextRecord(text).type # PDD
  BY <1>1 DEF TextRecord, TEXT, PDD
<1>4. \A v : TsRecord(v, "units").type # PDD /\ TsIrregularRecord(v).type # PDD
  BY <1>1 DEF TsRecord, TsIrregularRecord, RTD, ITD, PDD
<1>5. \A v, u, l : PdRecord("ordinates", v, u, l).content["v2"] = v
  BY <1>1 DEF PdRecord, NoArea
<1>6. \A present, v : ArrayRecord(present, v).type # PDD
  BY <1>1 DEF ArrayRecord, ARRAY, PDD
<1>7. \A v, s : LocationRecord(v, s).type # PDD /\ GridRecord(v).type # PDD
  BY <1>1 DEF LocationRecord, GridRecord, LOCATION, GRID, PDD
<1>8. QED
  BY <1>2, <1>3, <1>4, <1>5, <1>6, <1>7 DEF Writable

(* So is what squeeze writes. *)
LEMMA FormIsFull ==
    ASSUME NEW type, NEW rec, SqueezeCopies(type, rec)
    PROVE  FullPair(SqueezeForm(type, rec))
<1>1. "v2" \in Area /\ 300 # 205 /\ 105 # 205
  BY DEF Area
<1>2. \A text : TextRecord(text).type # PDD
  BY <1>1 DEF TextRecord, TEXT, PDD
<1>3. \A v, u : TsRecord(v, u).type # PDD
  BY <1>1 DEF TsRecord, RTD, PDD
<1>4. \A o, v, u, l : PdRecord(o, v, u, l).content["v2"] = v
  BY <1>1 DEF PdRecord, NoArea
<1>5. QED
  BY <1>2, <1>3, <1>4 DEF SqueezeCopies, SqueezeForm, FullPair

\* The invariant with the records squeeze could not carry over ruled out.
KeepInv == SqueezeInv /\ Paired(file) /\ Paired(tmp)

(* Every step keeps all pairs full. *)
LEMMA KeepStep ==
    ASSUME KeepInv, [Next]_vars
    PROVE  KeepInv'
<1>1. SqueezeInv'
  BY SqueezeStep DEF KeepInv
<1>2. /\ Paired(NewFile) /\ Paired(file) /\ Paired(tmp)
      /\ Walkable(file) /\ Walkable(tmp)
  BY LogOfNewFile DEF KeepInv, SqueezeInv, Paired, FullPairs
<1>3. CASE Write
  <2>1. PICK path \in Path, rec \in Writable : rec \in Record /\ Store(path, rec)
    BY <1>3, WriteStores
  <2>2. file' = StoreRecord(file, path, rec) /\ tmp' = tmp
    BY <2>1 DEF Store
  <2>3. Paired(file')
    BY <1>2, <2>1, <2>2, WritableIsFull, StoredPaired
  <2>4. QED
    BY <1>1, <1>2, <2>2, <2>3 DEF KeepInv
<1>4. CASE Mark
  <2>1. Marked(file, file') /\ tmp' = tmp
    <3>1. PICK path \in Path : Delete(path) \/ Undelete(path) \/ AliasRemove(path)
      BY <1>4 DEF Mark
    <3>2. {"PRIMARY", "DELETED", "ALIAS_DELETED"} \subseteq Status
      BY DEF Status
    <3>3. file \in Image
      BY <1>2 DEF Walkable, Safe
    <3>4. CASE Delete(path)
      <4> DEFINE slot == FindRecord(file, path)
      <4>1. /\ slot # 0 /\ tmp' = tmp
            /\ file' = Count(SetStatus(file, slot, "DELETED"), "numberDeletes")
        BY <3>4 DEF Delete
      <4>2. HasTag(file, slot, "entry") /\ slot \in DOMAIN file.cells
        BY <3>3, <4>1, FoundRecord DEF HasTag
      <4> HIDE DEF slot
      <4>3. QED
        BY <3>2, <4>1, <4>2 DEF Marked
    <3>5. \A status : SlotWith(path, status) # 0 =>
              /\ HasTag(file, SlotWith(path, status), "entry")
              /\ SlotWith(path, status) \in DOMAIN file.cells
      BY DEF SlotWith, HasTag
    <3>6. CASE Undelete(path)
      <4> DEFINE slot == SlotWith(path, "DELETED")
      <4>1. /\ slot # 0 /\ tmp' = tmp /\ file' = SetStatus(file, slot, "PRIMARY")
        BY <3>6 DEF Undelete
      <4>2. HasTag(file, slot, "entry") /\ slot \in DOMAIN file.cells
        BY <3>5, <4>1
      <4> HIDE DEF slot
      <4>3. QED
        BY <3>2, <4>1, <4>2 DEF Marked
    <3>7. CASE AliasRemove(path)
      <4> DEFINE slot == SlotWith(path, "ALIAS")
      <4>1. /\ slot # 0 /\ tmp' = tmp
            /\ file' = Count(SetStatus(file, slot, "ALIAS_DELETED"),
                             "numberAliasDeletes")
        BY <3>7 DEF AliasRemove
      <4>2. HasTag(file, slot, "entry") /\ slot \in DOMAIN file.cells
        BY <3>5, <4>1
      <4> HIDE DEF slot
      <4>3. QED
        BY <3>2, <4>1, <4>2 DEF Marked
    <3>8. QED
      BY <3>1, <3>4, <3>6, <3>7
  <2>2. Paired(file')
    BY <1>2, <2>1, MarkedPaired
  <2>3. QED
    BY <1>1, <1>2, <2>1, <2>2 DEF KeepInv
<1>5. CASE Alias
  <2>1. PICK primary \in Path, alias \in Path : AliasAdd(primary, alias)
    BY <1>5 DEF Alias
  <2>2. Paired(file') /\ tmp' = tmp
    BY <1>2, <2>1, AliasedPaired DEF AliasAdd
  <2>3. QED
    BY <1>1, <1>2, <2>2 DEF KeepInv
<1>6. CASE SqueezeEntry
  <2> DEFINE type == Head(todo).type
             path == Head(todo).path
             rec == ReadRecord(file, path)
  <2>1. /\ file' = file
        /\ tmp' = IF SqueezeCopies(type, rec)
                  THEN StoreRecord(tmp, path, SqueezeForm(type, rec)) ELSE tmp
    BY <1>6 DEF SqueezeEntry
  <2>2. CASE SqueezeCopies(type, rec)
    <3>1. file \in Image /\ rec # NoRecord
      BY <1>2, <2>2 DEF Walkable, Safe, SqueezeCopies
    <3>2. path \in Path /\ SqueezeForm(type, rec) \in Record
      BY <3>1, ReadRecordType, SqueezeFormType
    <3>3. FullPair(SqueezeForm(type, rec))
      BY <2>2, FormIsFull
    <3> HIDE DEF path, type
    <3>4. Paired(tmp')
      BY <1>2, <2>1, <2>2, <3>2, <3>3, StoredPaired
    <3>5. QED
      BY <1>1, <1>2, <2>1, <3>4 DEF KeepInv
  <2>3. CASE ~ SqueezeCopies(type, rec)
    BY <1>1, <1>2, <2>1, <2>3 DEF KeepInv
  <2>4. QED
    BY <2>2, <2>3
<1>7. CASE SqueezeBegin \/ SqueezeAbort \/ SqueezeEnd \/ UNCHANGED vars
  BY <1>1, <1>2, <1>7
     DEF KeepInv, SqueezeBegin, SqueezeAbort, SqueezeEnd, vars
<1>8. QED
  BY <1>3, <1>4, <1>5, <1>6, <1>7 DEF Next, Squeeze

(* So all pairs always are. *)
LEMMA KeepAlways == Spec => []KeepInv
<1>1. Init => KeepInv
  BY SqueezeInit, LogOfNewFile DEF Init, KeepInv, Paired, FullPairs
<1>2. QED
  BY <1>1, KeepStep, PTL DEF Spec

(* A name that reads one of the types squeeze carries over, in a file where
   its live entries all are of that type, reads the same in the new file. *)
LEMMA CarriableIsKept ==
    ASSUME NEW f, Walkable(f), ~ f.spilled, Paired(f),
           NEW t, Walkable(t), ~ t.spilled, Squeezing(f, t, << >>),
           NEW path \in Path, LET rec     == ReadRecord(f, path)
                                  entries == Catalog(f)
                                  its     == {i \in DOMAIN entries :
                                                 entries[i].path = path}
                              IN  /\ its # {}
                                  /\ \A i \in its : entries[i].type = rec.type
                                  /\ rec.type \in {TEXT, RTD, ITD, PDD}
                                  /\ rec.content["v1"] # Empty
    PROVE  ReadRecord(t, path).content["v1"] = ReadRecord(f, path).content["v1"]
<1> DEFINE rec == ReadRecord(f, path)
           cat == Catalog(f)
<1>1. f \in Image /\ cat \in Seq(Cell)
  BY CatalogType DEF Walkable, Safe
<1>2. PICK i \in 1..Len(cat) : cat[i].path = path
  BY <1>1
<1>3. \A j \in 1..Len(cat) : cat[j].path = path => cat[j].type = rec.type
  BY <1>1
<1>4. rec.type \in {300, 105, 115, 205} /\ rec.content["v1"] # Empty
  BY DEF TEXT, RTD, ITD, PDD
<1>5. rec.type = 205 => rec.content["v2"] # Empty
  BY FullPairRead DEF FullPair, PDD
<1> HIDE DEF rec
<1>6. SqueezeCopies(rec.type, rec)
  <2>1. rec # NoRecord
    BY <1>4 DEF NoRecord
  <2>2. \/ IsText(rec.type)
        \/ IsTimeSeries(rec.type)
        \/ IsPairedData(rec.type) /\ rec.content["v2"] # Empty
    BY <1>4, <1>5 DEF IsText, IsTimeSeries, IsPairedData
  <2>3. QED
    BY <1>4, <2>1, <2>2 DEF SqueezeCopies, ReadText
<1>7. i \in CopiedAt(f)
  BY <1>2, <1>3, <1>6 DEF CopiedAt, cat, rec
<1>8. PICK j \in CopiedAt(f) :
          /\ cat[j].path = path
          /\ ReadRecord(t, path)
               = [type |-> FormAt(f, j).type, content |-> FormAt(f, j).content]
  BY <1>1, <1>2, <1>7, SqueezeCopied, CopyIsRead
<1>9. FormAt(f, j) = SqueezeForm(rec.type, rec)
  BY <1>3, <1>8 DEF FormAt, CopiedAt, rec
<1>10. SqueezeForm(rec.type, rec).content["v1"] = rec.content["v1"]
  <2>1. "v1" \in Area /\ "ih" \in Area /\ "v2" \in Area /\ "h2" \in Area
    BY DEF Area
  <2>2. IsText(rec.type) => ReadText(rec) = rec.content["v1"]
    BY DEF ReadText
  <2>3. QED
    BY <2>1, <2>2 DEF SqueezeForm, TextRecord, TsRecord, PdRecord, NoArea
<1>11. QED
  BY <1>8, <1>9, <1>10 DEF rec

(* squeeze keeps what a caller could read: whatever SqueezeEnd puts in the
   place of the file, a name that read a text, a series or paired data, and
   whose live entries all are of that type, reads the same values. *)
THEOREM ReadableStaysReadable == Spec => SqueezeKeepsReadable
<1>1. KeepInv /\ [Next]_vars =>
        [/\ pc = "squeeze" /\ pc' = "idle" /\ todo = << >>
         /\ ~ file.spilled /\ ~ tmp.spilled
         => \A path \in Path : Carriable(path) =>
                ReadRecord(file', path).content["v1"]
                  = ReadRecord(file, path).content["v1"]]_vars
  <2> SUFFICES ASSUME KeepInv, [Next]_vars, pc = "squeeze", pc' = "idle",
                      todo = << >>, ~ file.spilled, ~ tmp.spilled,
                      NEW path \in Path, Carriable(path)
               PROVE  ReadRecord(file', path).content["v1"]
                        = ReadRecord(file, path).content["v1"]
    OBVIOUS
  <2>1. Walkable(file) /\ Walkable(tmp) /\ Paired(file) /\ Squeezing(file, tmp, << >>)
    BY DEF KeepInv, SqueezeInv
  <2>2. ReadRecord(tmp, path).content["v1"] = ReadRecord(file, path).content["v1"]
    BY <2>1, CarriableIsKept DEF Carriable
  <2>3. QED
    BY <2>2, SqueezeReplaces
<1>2. QED
  BY <1>1, KeepAlways, PTL DEF Spec, SqueezeKeepsReadable
=============================================================================
