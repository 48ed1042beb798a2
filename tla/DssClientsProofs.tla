-------------------------- MODULE DssClientsProofs --------------------------
(***************************************************************************)
(* Theorems about DssClients, for every value of its constants: any number *)
(* of threads, names, records and bin blocks.                              *)
(***************************************************************************)
EXTENDS DssClients, DssImageProofs, FiniteSetTheorems

\* The sizes a thread has been told are those of what its name reads now.
ToldRight(asked) ==
    LET rec == ReadRecord(file, asked.path)
    IN  /\ asked.call \in {"ts", "pd", "array"}
        /\ rec # NoRecord
        /\ Reads(asked.call, rec)
        /\ asked.sizes = Sizes(asked.call, rec)

\* The inductive invariant.
Asked ==
    /\ Safe(file)
    /\ ask = [t \in Thread |-> ask[t]]
    /\ \A t \in Thread :
           ask[t].of = "sizes" /\ ~ file.spilled => ToldRight(ask[t])

(* The file with an alias is one an alias was entered in. *)
LEMMA WithAliasEnters ==
    ASSUME NEW path \in Path, NEW rec \in Record, NEW alias \in Path
    PROVE  Aliased(StoreRecord(NewFile, path, rec), WithAlias(path, rec, alias))
<1> DEFINE base == NewFile.hdr["fileSize"]
           written == [hdr |-> NewFile.hdr, hash |-> NewFile.hash,
                       cells |-> WriteRecord(NewFile.cells, base, path, rec),
                       spilled |-> NewFile.spilled
                                     \/ NewFile.hdr["binsRemain"] <= 0]
           entry == Entry(path, "PRIMARY", base, rec.type)
           one == StoreRecord(NewFile, path, rec)
<1>2. /\ NewFile.hdr["binsRemain"] = BinsPerBlock
      /\ NewFile.hdr["nextBin"] = 1
      /\ NewFile.hdr["fileSize"] = 1 + BlockSize
      /\ NewFile.spilled = FALSE /\ 1 + BlockSize \in Nat
  BY BlockType DEF NewFile, HeaderWord, FirstBin
<1>3. Laid(NewFile.cells, 1, BinsPerBlock * BinSize, base)
  BY <1>2, NewFileSafe DEF Safe
<1>4. 1 \in DOMAIN WriteRecord(NewFile.cells, base, path, rec)
  <2>1. Laid(WriteRecord(NewFile.cells, base, path, rec), 1,
             BinsPerBlock * BinSize, base + Size(rec.content))
    BY <1>3, WriteLays
  <2> DEFINE cells == WriteRecord(NewFile.cells, base, path, rec)
             free == BinsPerBlock * BinSize
             size == base + Size(rec.content)
  <2> HIDE DEF cells, free, size
  <2>2. Laid(cells, 1, free, size)
    BY <2>1 DEF cells, free, size
  <2>3. 1 \in DOMAIN cells
    BY <2>2 DEF Laid
  <2>4. QED
    BY <2>3 DEF cells
<1>5. EnterBin(written, entry) = TakeSlot(written, entry)
  BY <1>2, ImageAssumption DEF EnterBin
<1>6. one.cells = TakeSlot(written, entry).cells
  BY <1>5 DEF StoreRecord, WriteBinEntry
<1>7. TakeSlot(written, entry).cells
        = [WriteRecord(NewFile.cells, base, path, rec) EXCEPT ![1] = entry]
  BY <1>2 DEF TakeSlot
<1>8. 1 \in DOMAIN one.cells /\ one.cells[1] = entry
  BY <1>4, <1>6, <1>7
<1>9. Aliased(one, WithAlias(path, rec, alias))
  <2>1. /\ HasTag(one, 1, "entry")
        /\ one.cells[1].info = base /\ one.cells[1].type = rec.type
    BY <1>8 DEF HasTag, Entry
  <2>2. WithAlias(path, rec, alias)
          = Count(EnterBin(one, Entry(alias, "ALIAS", base, rec.type)),
                  "numberAliases")
    BY DEF WithAlias
  <2>3. QED
    BY <1>8, <2>1, <2>2 DEF Aliased
<1>10. QED
  BY <1>9

(* A file with a record and an alias of it is one whose bins can be walked. *)
LEMMA WithAliasWalkable ==
    ASSUME NEW path \in Path, NEW rec \in Record, NEW alias \in Path
    PROVE  Walkable(WithAlias(path, rec, alias))
<1>1. Change(NewFile, StoreRecord(NewFile, path, rec))
  BY DEF Change, Stored
<1>2. Walkable(StoreRecord(NewFile, path, rec))
  BY <1>1, NewFileWalkable, WalkableChange
<1>3. QED
  BY <1>2, WithAliasEnters, WalkableChange DEF Change

(* A call that changes the file keeps what every thread has been told. *)
LEMMA ChangeKeepsAsked ==
    ASSUME Asked, Change(file, file'), UNCHANGED ask
    PROVE  Asked'
<1>1. Safe(file')
  BY ChangeSafe DEF Asked
<1>2. ASSUME NEW t \in Thread, ask[t].of = "sizes", ~ file'.spilled
      PROVE  ToldRight(ask[t])'
  <2>1. ~ file.spilled
    BY <1>2, SpilledStays
  <2>2. ToldRight(ask[t])
    BY <1>2, <2>1 DEF Asked
  <2>3. ReadRecord(file', ask[t].path) = ReadRecord(file, ask[t].path)
    BY <1>2, <2>2, ChangeReads DEF Asked, ToldRight
  <2>4. QED
    BY <2>2, <2>3 DEF ToldRight
<1>3. QED
  BY <1>1, <1>2 DEF Asked

(* What a thread was told stays right through every call that changes the file. *)
LEMMA CallsChange ==
    ASSUME Asked, NEW path \in Path, NEW v \in Value
    PROVE  /\ \A text \in {v, Empty} : TextStore(path, text) => Asked'
           /\ TsStoreRegular(path, v) => Asked'
           /\ TsStoreIregular(path, v) => Asked'
           /\ \A ordinates, header \in Value :
                  PdStore(path, ordinates, header, v) => Asked'
           /\ \A present \in SUBSET {"v1", "v2", "v3"} :
                  ArrayStore(path, present, v) => Asked'
           /\ \A supplemental \in {"supplemental", Empty} :
                  LocationStore(path, v, supplemental) => Asked'
           /\ GridStore(path, v) => Asked'
<1>1. ASSUME NEW rec \in Record, Store(path, rec)
      PROVE  Asked'
  BY <1>1, ChangeKeepsAsked DEF Store, Change, Stored
<1>2. /\ {Empty, "units", "supplemental"} \subseteq Payload
      /\ Value \subseteq Payload
  BY DEF Payload, Token
<1>3. SUBSET {"v1", "v2", "v3"} \subseteq SUBSET Area
  BY DEF Area
<1>4. QED
  BY <1>1, <1>2, <1>3, RecordTypes
     DEF TextStore, TsStoreRegular, TsStoreIregular, PdStore, ArrayStore,
         LocationStore, GridStore

(* The same for every step. *)
LEMMA AskedStep == Asked /\ [Next]_vars => Asked'
<1> SUFFICES ASSUME Asked, [Next]_vars
             PROVE  Asked'
  OBVIOUS
<1>1. ASSUME NEW path \in Path, Delete(path)
      PROVE  Asked'
  <2>1. Marked(file, file')
    BY <1>1, FoundRecord, FoundEntry DEF Delete, Marked, Status, Asked, Safe
  <2>2. QED
    BY <1>1, <2>1, ChangeKeepsAsked DEF Delete, Change
<1>2. ASSUME NEW t \in Thread, NEW asked, UNCHANGED file,
             ask' = [ask EXCEPT ![t] = asked],
             asked.of = "sizes" /\ ~ file.spilled => ToldRight(asked)
      PROVE  Asked'
  <2>1. \A u \in Thread : ask'[u] = IF u = t THEN asked ELSE ask[u]
    BY <1>2 DEF Asked
  <2>2. ask' = [u \in Thread |-> ask'[u]]
    BY <1>2 DEF Asked
  <2>3. ASSUME NEW u \in Thread, ask'[u].of = "sizes", ~ file'.spilled
        PROVE  ToldRight(ask'[u])
    BY <1>2, <2>1, <2>3 DEF Asked
  <2>4. \A u \in Thread : ToldRight(ask'[u]) => ToldRight(ask[u])'
    BY <1>2 DEF ToldRight
  <2>5. QED
    BY <1>2, <2>2, <2>3, <2>4 DEF Asked
<1>3. ASSUME NEW t \in Thread, NEW call \in {"ts", "pd", "array"},
             NEW path \in Path, GetSizes(t, call, path)
      PROVE  Asked'
  <2> DEFINE rec == ReadRecord(file, path)
             asked == AskedSizes(call, path, Sizes(call, rec))
  <2>1. Reads(call, rec)
    BY <1>3 DEF GetSizes
  <2>2. rec # NoRecord
    BY <2>1 DEF Reads, ReadTsFails, ReadPdFails, IsTimeSeries, IsPairedData,
                NoRecord
  <2>3. /\ asked.of = "sizes" /\ asked.call = call /\ asked.path = path
        /\ asked.sizes = Sizes(call, rec)
    BY DEF AskedSizes
  <2>4. ToldRight(asked)
    BY <2>1, <2>2, <2>3 DEF ToldRight
  <2>5. UNCHANGED file /\ ask' = [ask EXCEPT ![t] = asked]
    BY <1>3 DEF GetSizes
  <2> HIDE DEF asked
  <2>6. QED
    BY <1>2, <2>4, <2>5
<1>4. ASSUME NEW t \in Thread, Retrieve(t) \/ FillCatalog(t)
      PROVE  Asked'
  BY <1>2, <1>4 DEF Retrieve, FillCatalog, Nothing
<1>5. ASSUME NEW t \in Thread, RecordCount(t)
      PROVE  Asked'
  <2> DEFINE asked == AskedCount(file.hdr["numberRecords"],
                                 AsSet(LiveSlots(file)))
  <2>1. asked.of = "count"
    BY DEF AskedCount
  <2>2. UNCHANGED file /\ ask' = [ask EXCEPT ![t] = asked]
    BY <1>5 DEF RecordCount
  <2> HIDE DEF asked
  <2>3. QED
    BY <1>2, <2>1, <2>2
<1>6. CASE UNCHANGED vars
  BY <1>6, ChangeKeepsAsked DEF vars, Change
<1>7. QED
  BY <1>1, <1>3, <1>4, <1>5, <1>6, CallsChange DEF Next

(* At the beginning nothing was told. *)
LEMMA AskedInit == Init => Asked
<1> SUFFICES ASSUME Init
             PROVE  Asked
  OBVIOUS
<1>1. Safe(file)
  <2>1. CASE file = NewFile
    BY <2>1, NewFileSafe
  <2>2. ASSUME NEW path \in Path, NEW alias \in Path, NEW v \in Value,
               file = WithAlias(path, TsRecord(v, "units"), alias)
        PROVE  Safe(file)
    <3>1. TsRecord(v, "units") \in Record
      BY RecordTypes DEF Payload, Token
    <3>2. QED
      BY <2>2, <3>1, WithAliasWalkable DEF Walkable
  <2>3. QED
    BY <2>1, <2>2 DEF Init
<1>2. ask = [t \in Thread |-> ask[t]] /\ \A t \in Thread : ask[t] = Nothing
  BY DEF Init
<1>3. Nothing.of # "sizes"
  BY DEF Nothing
<1>4. QED
  BY <1>1, <1>2, <1>3 DEF Asked

(* Sizes that are right cut nothing off, if they are those of the areas. *)
LEMMA ToldRightIsWhole ==
    ASSUME Safe(file), NEW asked, ToldRight(asked),
           asked.call = "pd" => CountsCurves(ReadRecord(file, asked.path))
    PROVE  CutOff(asked) = {}
<1> DEFINE rec == ReadRecord(file, asked.path)
<1>1. rec \in Record /\ Reads(asked.call, rec)
  BY ReadRecordType DEF Safe, ToldRight
<1>2. \A a \in Area : LengthOf(rec.content[a]) \in Nat
  BY <1>1, ClientAssumption DEF Record, Content, LengthOf
<1>3. AreasOf(asked.call) \subseteq Area
  BY DEF ToldRight, AreasOf, Area
<1>4. asked.call = "pd" => LengthOf(rec.content["v2"]) = HeaderSize(rec)
  BY DEF CountsCurves
<1>5. asked.sizes
        = [a \in AreasOf(asked.call) |->
              IF asked.call = "pd" /\ a = "v2" THEN HeaderSize(rec)
              ELSE LengthOf(rec.content[a])]
  BY DEF ToldRight, Sizes
<1> HIDE DEF rec
<1>6. \A a \in AreasOf(asked.call) : asked.sizes[a] = LengthOf(rec.content[a])
  BY <1>4, <1>5
<1>7. \A a \in AreasOf(asked.call) : ~ LengthOf(rec.content[a]) > asked.sizes[a]
  BY <1>2, <1>3, <1>6
<1>8. QED
  BY <1>1, <1>7 DEF CutOff, rec

(* A caller that has asked for the sizes of a record gets all of it with   *)
(* buffers of these sizes, for any number of threads, in every execution   *)
(* in which no write allocates a bin block: what a name reads never        *)
(* changes, since the hash table keeps leading to its first entry.  Of     *)
(* paired data it is claimed where the values fill the curves the internal *)
(* header tells.  (hec_dss_tsGetSizes, pdRetrieveInfo, arrayRetrieveInfo   *)
(* and the retrieving calls.)                                              *)
THEOREM AlwaysRetrievesWhole == Spec => []RetrievesWhole
<1>1. Asked => RetrievesWhole
  BY ToldRightIsWhole DEF Asked, RetrievesWhole
<1>2. QED
  BY <1>1, AskedInit, AskedStep, PTL DEF Spec

-----------------------------------------------------------------------------
(* Asking for the record count, then for the catalog.                      *)

(* The i-th of numbers in their order is no less than i. *)
LEMMA IncreasingAbove ==
    ASSUME NEW m \in Nat, NEW at, at \subseteq 1..m, NEW a, Enumerates(a, at, m)
    PROVE  \A i \in 1..Len(a) : i <= a[i]
<1> DEFINE S == {n \in Nat : n + 1 <= Len(a) => n + 1 <= a[n + 1]}
<1>1. /\ Len(a) \in Nat
      /\ \A i \in 1..Len(a) : a[i] \in 1..m
      /\ \A i, j \in 1..Len(a) : i < j => a[i] < a[j]
  BY DEF Enumerates
<1>2. 0 \in S
  <2>1. 1 <= Len(a) => 1 <= a[1]
    BY <1>1
  <2>2. QED
    BY <2>1
<1>3. ASSUME NEW n \in Nat, n \in S
      PROVE  n + 1 \in S
  <2>1. SUFFICES ASSUME n + 2 <= Len(a)
                 PROVE  n + 2 <= a[n + 2]
    <3>1. (n + 1) + 1 = n + 2
      OBVIOUS
    <3>2. QED
      BY <3>1
  <2>2. n + 1 \in 1..Len(a) /\ n + 2 \in 1..Len(a)
    BY <1>1, <2>1
  <2>3. n + 1 <= a[n + 1] /\ a[n + 1] < a[n + 2]
    BY <1>1, <1>3, <2>2
  <2>4. a[n + 1] \in Nat /\ a[n + 2] \in Nat
    BY <1>1, <2>2
  <2>5. QED
    BY <2>3, <2>4
<1>4. Nat \subseteq S
  <2> HIDE DEF S
  <2>1. QED
    BY <1>2, <1>3, SetInduction
<1>5. ASSUME NEW i \in 1..Len(a)
      PROVE  i <= a[i]
  <2>1. i - 1 \in Nat /\ (i - 1) + 1 = i
    BY <1>1
  <2>2. i - 1 \in S
    BY <1>4, <2>1
  <2>3. QED
    BY <1>1, <2>1, <2>2
<1>6. QED
  BY <1>5

(* A bin whose entry is live comes no later in the catalog than in the bins. *)
LEMMA LiveIsListed ==
    ASSUME NEW f \in Image, LaidOut(f), NEW chain, Walked(f, chain)
    PROVE  /\ LiveSlots(f) \in Seq(Nat)
           /\ \A k \in 1..f.hdr["totalBins"] :
                  IsLive(f.cells[ReadAllBins(f)[k]]) =>
                      \E i \in 1..Len(LiveSlots(f)) :
                          i <= k /\ LiveSlots(f)[i] = ReadAllBins(f)[k]
<1> DEFINE m == f.hdr["totalBins"]
           slots == ReadAllBins(f)
           at == {k \in DOMAIN slots : IsLive(f.cells[slots[k]])}
           pos == Positions(at, m)
           live == LiveSlots(f)
<1>1. slots = SlotsOf(chain, m) /\ slots \in Seq(Nat) /\ m \in Nat
  BY WalkFinds
<1>2. Len(slots) = m /\ DOMAIN slots = 1..m
  BY <1>1 DEF SlotsOf
<1>3. at \subseteq 1..m /\ \A k \in 1..m : IsLive(f.cells[slots[k]]) => k \in at
  BY <1>2
<1>4. live = Selected(slots, at)
  BY DEF LiveSlots
<1> HIDE DEF at, m, slots, live
<1>5. live \in Seq(Nat) /\ Enumerates(pos, at, m) /\ At(pos, live, slots)
  <2>1. Selected(slots, at) \in Seq(Nat)
    BY <1>1, <1>2, <1>3, SelectedType
  <2>2. /\ Enumerates(Positions(at, Len(slots)), at, Len(slots))
        /\ At(Positions(at, Len(slots)), Selected(slots, at), slots)
    BY <1>1, <1>2, <1>3, SelectedPositions
  <2>3. QED
    BY <1>2, <1>4, <2>1, <2>2
<1> HIDE DEF pos
<1>6. \A i \in 1..Len(pos) : i <= pos[i]
  BY <1>1, <1>3, <1>5, IncreasingAbove
<1>7. ASSUME NEW k \in 1..m, IsLive(f.cells[slots[k]])
      PROVE  \E i \in 1..Len(live) : i <= k /\ live[i] = slots[k]
  <2>1. PICK i \in 1..Len(pos) : pos[i] = k
    BY <1>1, <1>3, <1>5, <1>7 DEF Enumerates
  <2>2. i <= k /\ live[i] = slots[k] /\ Len(live) = Len(pos)
    BY <1>5, <1>6, <2>1 DEF At
  <2>3. QED
    BY <2>2
<1>8. QED
  BY <1>5, <1>7 DEF m, slots, live

\* What storing and marking leave of the bins.
BinsStay(f, g) ==
    /\ f.hdr["totalBins"] \in Nat /\ g.hdr["totalBins"] \in Nat
    /\ f.hdr["totalBins"] <= g.hdr["totalBins"]
    /\ \A k \in 1..f.hdr["totalBins"] : ReadAllBins(g)[k] = ReadAllBins(f)[k]
    /\ g.hdr["numberAliases"] = f.hdr["numberAliases"]
    /\ f.hdr["totalBins"] = f.hdr["numberRecords"] + f.hdr["numberAliases"]
         => g.hdr["totalBins"] = g.hdr["numberRecords"] + g.hdr["numberAliases"]

(* The walk of the bins visits the slots in their order. *)
LEMMA WalkedBins ==
    ASSUME NEW f, Safe(f), ~ f.spilled, NEW chain, Walked(f, chain)
    PROVE  /\ f \in Image /\ LaidOut(f)
           /\ f.hdr["totalBins"] \in Nat
           /\ ReadAllBins(f) = SlotsOf(chain, f.hdr["totalBins"])
  BY WalkFinds DEF Safe, LaidOut, LaidTo

(* A store leaves the entries there are and adds a live one. *)
LEMMA StoredBins ==
    ASSUME NEW f, Walkable(f), NEW g, Stored(f, g), ~ g.spilled
    PROVE  BinsStay(f, g)
<1>1. PICK path \in Path, rec \in Record : g = StoreRecord(f, path, rec)
  BY DEF Stored
<1>2. ~ f.spilled /\ Safe(f) /\ f \in Image /\ Safe(g)
  BY SpilledStays, ChangeSafe DEF Change, Walkable, Safe
<1>3. PICK chain : Walked(f, chain)
  BY <1>2 DEF Walkable
<1>4. Walked(g, chain)
  BY <1>1, <1>2, <1>3, StoredWalk
<1>5. /\ g.hdr["numberRecords"] = f.hdr["numberRecords"] + 1
      /\ g.hdr["totalBins"] = f.hdr["totalBins"] + 1
      /\ g.hdr["numberAliases"] = f.hdr["numberAliases"]
  BY <1>1, <1>2, StoreRecordWords
<1>6. /\ f.hdr["totalBins"] \in Nat /\ g.hdr["totalBins"] \in Nat
      /\ ReadAllBins(f) = SlotsOf(chain, f.hdr["totalBins"])
      /\ ReadAllBins(g) = SlotsOf(chain, g.hdr["totalBins"])
  BY <1>2, <1>3, <1>4, WalkedBins
<1>7. \A k \in 1..f.hdr["totalBins"] : ReadAllBins(g)[k] = ReadAllBins(f)[k]
  BY <1>5, <1>6 DEF SlotsOf
<1>8. f.hdr["numberRecords"] \in Nat /\ f.hdr["numberAliases"] \in Nat
  BY <1>2, ImageFields DEF HeaderWord
<1>9. QED
  BY <1>5, <1>6, <1>7, <1>8 DEF BinsStay

(* A delete leaves the entries and their places. *)
LEMMA DeletedBins ==
    ASSUME NEW f, Walkable(f), NEW slot, HasTag(f, slot, "entry"), NEW g,
           g = Count(SetStatus(f, slot, "DELETED"), "numberDeletes"), ~ g.spilled
    PROVE  BinsStay(f, g)
<1>1. slot \in DOMAIN f.cells
  BY DEF HasTag
<1>2. Marked(f, g)
  BY <1>1 DEF Marked, Status
<1>3. ~ f.spilled /\ Safe(f) /\ f \in Image /\ Safe(g)
  BY <1>2, SpilledStays, ChangeSafe DEF Change, Walkable, Safe
<1>4. PICK chain : Walked(f, chain)
  BY <1>3 DEF Walkable
<1>5. Walked(g, chain)
  BY <1>1, <1>3, <1>4, MarkedBins DEF Status
<1>6. /\ g.hdr["totalBins"] = f.hdr["totalBins"]
      /\ g.hdr["numberRecords"] = f.hdr["numberRecords"]
      /\ g.hdr["numberAliases"] = f.hdr["numberAliases"]
  BY <1>3, ImageFields DEF Count, SetStatus, Header, HeaderWord
<1>7. /\ f.hdr["totalBins"] \in Nat
      /\ ReadAllBins(f) = SlotsOf(chain, f.hdr["totalBins"])
      /\ ReadAllBins(g) = SlotsOf(chain, g.hdr["totalBins"])
  BY <1>3, <1>4, <1>5, WalkedBins
<1>8. QED
  BY <1>6, <1>7 DEF BinsStay

(* The file with an alias has a bin for the record and one for the alias. *)
LEMMA WithAliasCounts ==
    ASSUME NEW path \in Path, NEW rec \in Record, NEW alias \in Path
    PROVE  LET f == WithAlias(path, rec, alias)
           IN  f.hdr["totalBins"] = f.hdr["numberRecords"] + f.hdr["numberAliases"]
<1> DEFINE one == StoreRecord(NewFile, path, rec)
           entry == Entry(alias, "ALIAS", NewFile.hdr["fileSize"], rec.type)
           room == IF one.hdr.binsRemain <= 0 THEN AllocateNewBinBlock(one) ELSE one
           taken == TakeSlot(room, entry)
           f == WithAlias(path, rec, alias)
<1>1. one \in Image /\ NewFile \in Image
  BY NewFileType, StoreRecordType
<1>2. /\ one.hdr["numberRecords"] = 1 /\ one.hdr["totalBins"] = 1
      /\ one.hdr["numberAliases"] = 0
  <2>1. \A w \in {"numberRecords", "totalBins", "numberAliases"} : NewFile.hdr[w] = 0
    BY DEF NewFile, HeaderWord
  <2>2. QED
    BY <1>1, <2>1, StoreRecordWords
<1>3. f.hdr = [taken.hdr EXCEPT !["numberAliases"] = @ + 1]
  BY DEF WithAlias, Count, EnterBin
<1> HIDE DEF one, entry, f
<1>4. /\ room \in Image
      /\ room.hdr["numberRecords"] = 1 /\ room.hdr["totalBins"] = 1
      /\ room.hdr["numberAliases"] = 0
  BY <1>1, <1>2, AllocateType, AllocateWords DEF HeaderWord
<1> HIDE DEF room
<1>5. /\ taken.hdr["numberRecords"] = 1 /\ taken.hdr["totalBins"] = 2
      /\ taken.hdr["numberAliases"] = 0
  BY <1>4, TakeSlotWords DEF HeaderWord
<1>6. DOMAIN taken.hdr = HeaderWord
  BY <1>4, ImageFields DEF TakeSlot, Header
<1> HIDE DEF taken
<1>7. f.hdr["numberRecords"] = 1 /\ f.hdr["totalBins"] = 2
      /\ f.hdr["numberAliases"] = 1
  BY <1>3, <1>5, <1>6 DEF HeaderWord
<1>8. QED
  BY <1>7 DEF f

\* A thread has been told all records, and the live entries in front of as
\* many more as there are aliases.
ToldCount(asked) ==
    LET m == asked.n + file.hdr["numberAliases"]
    IN  /\ asked.n \in Nat
        /\ m <= file.hdr["totalBins"]
        /\ asked.live \subseteq {ReadAllBins(file)[k] : k \in 1..m}

\* The inductive invariant.
Counting ==
    /\ Walkable(file)
    /\ ask = [t \in Thread |-> ask[t]]
    /\ ~ file.spilled =>
           /\ file.hdr["totalBins"]
                = file.hdr["numberRecords"] + file.hdr["numberAliases"]
           /\ \A t \in Thread : ask[t].of = "count" => ToldCount(ask[t])

(* A call that leaves the bins as told leaves the counts right. *)
LEMMA ChangeKeepsCounting ==
    ASSUME Counting, Change(file, file'), ~ file'.spilled => BinsStay(file, file'),
           UNCHANGED ask
    PROVE  Counting'
<1>1. Walkable(file')
  BY WalkableChange DEF Counting
<1>2. ASSUME ~ file'.spilled
      PROVE  /\ file'.hdr["totalBins"]
                  = file'.hdr["numberRecords"] + file'.hdr["numberAliases"]
             /\ \A t \in Thread : ask[t].of = "count" => ToldCount(ask[t])'
  <2>1. ~ file.spilled /\ BinsStay(file, file') /\ file \in Image
    BY <1>2, SpilledStays DEF Counting, Walkable, Safe
  <2>2. file.hdr["numberAliases"] \in Nat
    BY <2>1, ImageFields DEF HeaderWord
  <2>3. ASSUME NEW t \in Thread, ask[t].of = "count"
        PROVE  ToldCount(ask[t])'
    <3> DEFINE m == ask[t].n + file.hdr["numberAliases"]
    <3>1. /\ ask[t].n \in Nat /\ m <= file.hdr["totalBins"]
          /\ ask[t].live \subseteq {ReadAllBins(file)[k] : k \in 1..m}
      BY <2>1, <2>3 DEF Counting, ToldCount
    <3>2. m \in Nat /\ m <= file'.hdr["totalBins"]
          /\ file'.hdr["numberAliases"] = file.hdr["numberAliases"]
      BY <2>1, <2>2, <3>1 DEF BinsStay
    <3>3. \A k \in 1..m : ReadAllBins(file')[k] = ReadAllBins(file)[k]
      BY <2>1, <3>1, <3>2 DEF BinsStay
    <3>4. ask'[t] = ask[t]
      OBVIOUS
    <3>5. ask[t].live \subseteq {ReadAllBins(file')[k] : k \in 1..m}
      BY <3>1, <3>3
    <3>6. QED
      BY <3>1, <3>2, <3>4, <3>5 DEF ToldCount
  <2>4. QED
    BY <2>1, <2>3 DEF Counting, BinsStay
<1>3. QED
  BY <1>1, <1>2 DEF Counting

(* Every call that stores leaves the counts right. *)
LEMMA CallsCount ==
    ASSUME Counting, NEW path \in Path, NEW v \in Value
    PROVE  /\ \A text \in {v, Empty} : TextStore(path, text) => Counting'
           /\ TsStoreRegular(path, v) => Counting'
           /\ TsStoreIregular(path, v) => Counting'
           /\ \A ordinates, header \in Value :
                  PdStore(path, ordinates, header, v) => Counting'
           /\ \A present \in SUBSET {"v1", "v2", "v3"} :
                  ArrayStore(path, present, v) => Counting'
           /\ \A supplemental \in {"supplemental", Empty} :
                  LocationStore(path, v, supplemental) => Counting'
           /\ GridStore(path, v) => Counting'
<1>1. ASSUME NEW rec \in Record, Store(path, rec)
      PROVE  Counting'
  <2>1. Stored(file, file') /\ UNCHANGED ask
    BY <1>1 DEF Store, Stored
  <2>2. ~ file'.spilled => BinsStay(file, file')
    BY <2>1, StoredBins DEF Counting
  <2>3. QED
    BY <2>1, <2>2, ChangeKeepsCounting DEF Change
<1>2. /\ {Empty, "units", "supplemental"} \subseteq Payload
      /\ Value \subseteq Payload
  BY DEF Payload, Token
<1>3. SUBSET {"v1", "v2", "v3"} \subseteq SUBSET Area
  BY DEF Area
<1>4. QED
  BY <1>1, <1>2, <1>3, RecordTypes
     DEF TextStore, TsStoreRegular, TsStoreIregular, PdStore, ArrayStore,
         LocationStore, GridStore

(* What RecordCount tells is right when it tells it. *)
LEMMA CountIsTold ==
    ASSUME Counting, ~ file.spilled
    PROVE  ToldCount(AskedCount(file.hdr["numberRecords"], AsSet(LiveSlots(file))))
<1> DEFINE asked == AskedCount(file.hdr["numberRecords"], AsSet(LiveSlots(file)))
           m == file.hdr["totalBins"]
           slots == ReadAllBins(file)
           at == {i \in DOMAIN slots : IsLive(file.cells[slots[i]])}
<1>1. asked.n = file.hdr["numberRecords"] /\ asked.live = AsSet(LiveSlots(file))
  BY DEF AskedCount
<1>2. PICK chain : Walked(file, chain)
  BY DEF Counting, Walkable
<1>3. Safe(file)
  BY DEF Counting, Walkable
<1>4. file \in Image /\ LaidOut(file) /\ m \in Nat /\ slots = SlotsOf(chain, m)
      /\ slots \in Seq(Nat)
  BY <1>2, <1>3, WalkedBins, WalkFinds
<1>5. m = file.hdr["numberRecords"] + file.hdr["numberAliases"]
      /\ file.hdr["numberRecords"] \in Nat
  BY <1>4, ImageFields DEF Counting, HeaderWord
<1>6. Len(slots) = m /\ DOMAIN slots = 1..m
  BY <1>4 DEF SlotsOf
<1>7. LiveSlots(file) = Selected(slots, at)
  BY DEF LiveSlots
<1>8. at \subseteq 1..Len(slots)
  BY <1>6
<1> HIDE DEF asked, m, slots, at
<1>9. /\ Enumerates(Positions(at, Len(slots)), at, Len(slots))
      /\ At(Positions(at, Len(slots)), Selected(slots, at), slots)
  BY <1>4, <1>8, SelectedPositions
<1>10. AsSet(LiveSlots(file)) \subseteq {slots[k] : k \in 1..m}
  <2> DEFINE live == LiveSlots(file)
             pos == Positions(at, Len(slots))
  <2>1. live \in Seq(Nat)
    BY <1>2, <1>4, LiveIsListed
  <2>2. /\ Enumerates(pos, at, Len(slots)) /\ At(pos, live, slots)
    BY <1>7, <1>9
  <2> HIDE DEF live, pos
  <2>3. ASSUME NEW i \in DOMAIN live
        PROVE  live[i] \in {slots[k] : k \in 1..m}
    <3>1. i \in 1..Len(pos)
      BY <2>1, <2>2 DEF At
    <3>2. live[i] = slots[pos[i]] /\ pos[i] \in 1..m
      BY <1>6, <1>8, <2>2, <3>1 DEF At, Enumerates
    <3>3. QED
      BY <3>2
  <2>4. QED
    BY <2>3 DEF AsSet, live
<1>11. QED
  BY <1>1, <1>4, <1>5, <1>10 DEF ToldCount, asked, m, slots

(* So does every step. *)
LEMMA CountingStep == Counting /\ [Next]_vars => Counting'
<1> SUFFICES ASSUME Counting, [Next]_vars
             PROVE  Counting'
  OBVIOUS
<1>1. ASSUME NEW path \in Path, Delete(path)
      PROVE  Counting'
  <2> DEFINE slot == FindRecord(file, path)
  <2>1. /\ slot # 0 /\ UNCHANGED ask
        /\ file' = Count(SetStatus(file, slot, "DELETED"), "numberDeletes")
    BY <1>1 DEF Delete
  <2>2. HasTag(file, slot, "entry") /\ slot \in DOMAIN file.cells
    BY <2>1, FoundRecord DEF Counting, Walkable, Safe, HasTag
  <2>3. Marked(file, file')
    BY <2>1, <2>2 DEF Marked, Status
  <2>4. ~ file'.spilled => BinsStay(file, file')
    BY <2>1, <2>2, DeletedBins DEF Counting
  <2>5. QED
    BY <2>1, <2>3, <2>4, ChangeKeepsCounting DEF Change
<1>2. ASSUME NEW t \in Thread, NEW asked, UNCHANGED file,
             ask' = [ask EXCEPT ![t] = asked],
             asked.of = "count" /\ ~ file.spilled => ToldCount(asked)
      PROVE  Counting'
  <2>1. \A u \in Thread : ask'[u] = IF u = t THEN asked ELSE ask[u]
    BY <1>2 DEF Counting
  <2>2. ask' = [u \in Thread |-> ask'[u]]
    BY <1>2 DEF Counting
  <2>3. ASSUME NEW u \in Thread, ask'[u].of = "count", ~ file'.spilled
        PROVE  ToldCount(ask'[u])
    BY <1>2, <2>1, <2>3 DEF Counting
  <2>4. \A u \in Thread : ToldCount(ask'[u]) => ToldCount(ask[u])'
    BY <1>2 DEF ToldCount
  <2>5. QED
    BY <1>2, <2>2, <2>3, <2>4 DEF Counting
<1>3. ASSUME NEW t \in Thread, NEW call \in {"ts", "pd", "array"},
             NEW path \in Path, GetSizes(t, call, path)
      PROVE  Counting'
  <2> DEFINE asked == AskedSizes(call, path, Sizes(call, ReadRecord(file, path)))
  <2>1. asked.of # "count"
    BY DEF AskedSizes
  <2>2. UNCHANGED file /\ ask' = [ask EXCEPT ![t] = asked]
    BY <1>3 DEF GetSizes
  <2> HIDE DEF asked
  <2>3. QED
    BY <1>2, <2>1, <2>2
<1>4. ASSUME NEW t \in Thread, Retrieve(t) \/ FillCatalog(t)
      PROVE  Counting'
  BY <1>2, <1>4 DEF Retrieve, FillCatalog, Nothing
<1>5. ASSUME NEW t \in Thread, RecordCount(t)
      PROVE  Counting'
  <2> DEFINE asked == AskedCount(file.hdr["numberRecords"],
                                 AsSet(LiveSlots(file)))
  <2>1. ~ file.spilled => ToldCount(asked)
    BY CountIsTold
  <2>2. UNCHANGED file /\ ask' = [ask EXCEPT ![t] = asked]
    BY <1>5 DEF RecordCount
  <2> HIDE DEF asked
  <2>3. QED
    BY <1>2, <2>1, <2>2
<1>6. CASE UNCHANGED vars
  BY <1>6 DEF vars, Counting, ToldCount
<1>7. QED
  BY <1>1, <1>3, <1>4, <1>5, <1>6, CallsCount DEF Next

(* The file that the threads begin with is counted. *)
LEMMA CountingInit == Init => Counting
<1> SUFFICES ASSUME Init
             PROVE  Counting
  OBVIOUS
<1>1. Walkable(file) /\ file.hdr["totalBins"]
                          = file.hdr["numberRecords"] + file.hdr["numberAliases"]
  <2>1. CASE file = NewFile
    BY <2>1, NewFileWalkable DEF NewFile, HeaderWord
  <2>2. ASSUME NEW path \in Path, NEW alias \in Path, NEW v \in Value,
               file = WithAlias(path, TsRecord(v, "units"), alias)
        PROVE  Walkable(file) /\ file.hdr["totalBins"]
                 = file.hdr["numberRecords"] + file.hdr["numberAliases"]
    <3>1. TsRecord(v, "units") \in Record
      BY RecordTypes DEF Payload, Token
    <3>2. QED
      BY <2>2, <3>1, WithAliasWalkable, WithAliasCounts
  <2>3. QED
    BY <2>1, <2>2 DEF Init
<1>2. ask = [t \in Thread |-> ask[t]] /\ \A t \in Thread : ask[t] = Nothing
  BY DEF Init
<1>3. Nothing.of # "count"
  BY DEF Nothing
<1>4. QED
  BY <1>1, <1>2, <1>3 DEF Counting

(* No more elements than there are numbers in an interval. *)
LEMMA PickedFrom ==
    ASSUME NEW V, NEW s \in Seq(V), NEW n \in Nat, NEW al \in Nat, NEW T,
           \A x \in T : \E i \in 1..Len(s) : n < i /\ i <= n + al /\ s[i] = x
    PROVE  Cardinality(T) <= al
<1> DEFINE I == {i \in (n + 1)..(n + al) : i <= Len(s) /\ s[i] \in T}
           F == [i \in I |-> s[i]]
<1>1. IsFiniteSet((n + 1)..(n + al)) /\ Cardinality((n + 1)..(n + al)) = al
  <2>1. /\ IsFiniteSet((n + 1)..(n + al))
        /\ Cardinality((n + 1)..(n + al))
             = IF n + 1 > n + al THEN 0 ELSE (n + al) - (n + 1) + 1
    BY FS_Interval
  <2>2. QED
    BY <2>1
<1>2. I \subseteq (n + 1)..(n + al)
  OBVIOUS
<1> HIDE DEF I
<1>3. IsFiniteSet(I) /\ Cardinality(I) <= al /\ Cardinality(I) \in Nat
  BY <1>1, <1>2, FS_Subset, FS_CardinalityType
<1>4. F \in Surjection(I, T)
  <2>1. F \in [I -> T]
    BY DEF I
  <2>2. ASSUME NEW x \in T
        PROVE  \E i \in I : F[i] = x
    <3>1. PICK i \in 1..Len(s) : n < i /\ i <= n + al /\ s[i] = x
      OBVIOUS
    <3>2. i \in I
      BY <3>1 DEF I
    <3>3. QED
      BY <3>1, <3>2
  <2>3. QED
    BY <2>1, <2>2 DEF Surjection
<1> HIDE DEF F
<1>5. IsFiniteSet(T) /\ Cardinality(T) <= Cardinality(I)
  BY <1>3, <1>4, FS_Surjection
<1>6. Cardinality(T) \in Nat
  BY <1>5, FS_CardinalityType
<1>7. QED
  BY <1>3, <1>5, <1>6

(* A caller that has asked for the record count and passes buffers of this *)
(* size to catalog misses no more of the entries that were live when it    *)
(* asked and still are than the file has aliases, for any number of        *)
(* threads and whatever they store and delete in between: bins never       *)
(* move, and a live entry comes no later in the catalog than its bin among *)
(* all bins.  (hec_dss_record_count and hec_dss_catalog.)                  *)
THEOREM CatalogNeverMissesMore == Spec => []CatalogMissesAliasesOnly
<1>1. Counting => CatalogMissesAliasesOnly
  <2> SUFFICES ASSUME Counting, ~ file.spilled, NEW t \in Thread,
                      ask[t].of = "count"
               PROVE  Cardinality(Missed(ask[t])) <= file.hdr["numberAliases"]
    BY DEF CatalogMissesAliasesOnly
  <2> DEFINE missed == Missed(ask[t])
             n == ask[t].n
             al == file.hdr["numberAliases"]
             live == LiveSlots(file)
             slots == ReadAllBins(file)
  <2>1. PICK chain : Walked(file, chain)
    BY DEF Counting, Walkable
  <2>2. file \in Image /\ LaidOut(file)
    BY <2>1, WalkedBins DEF Counting, Walkable
  <2>3. al \in Nat /\ file.hdr["totalBins"] \in Nat
    BY <2>2, ImageFields DEF HeaderWord
  <2>4. /\ n \in Nat /\ n + al <= file.hdr["totalBins"]
        /\ ask[t].live \subseteq {slots[k] : k \in 1..(n + al)}
    BY DEF Counting, ToldCount
  <2>5. /\ live \in Seq(Nat)
        /\ \A k \in 1..file.hdr["totalBins"] :
               IsLive(file.cells[slots[k]]) =>
                   \E i \in 1..Len(live) : i <= k /\ live[i] = slots[k]
    BY <2>1, <2>2, LiveIsListed
  <2>6. \A i \in 1..Len(live) : i <= n => live[i] \in Listing(n)
    BY <2>5 DEF Listing
  <2> HIDE DEF live, slots, n, al
  <2>7. ASSUME NEW x \in missed
        PROVE  \E i \in 1..Len(live) : n < i /\ i <= n + al /\ live[i] = x
    <3>1. x \in ask[t].live /\ x \notin Listing(n) /\ IsLive(file.cells[x])
      BY DEF n, Missed
    <3>2. PICK k \in 1..(n + al) : slots[k] = x
      BY <2>4, <3>1
    <3>3. k \in 1..file.hdr["totalBins"]
      BY <2>3, <2>4
    <3>4. PICK i \in 1..Len(live) : i <= k /\ live[i] = x
      BY <2>5, <3>1, <3>2, <3>3
    <3>5. ~ i <= n
      BY <2>6, <3>1, <3>4
    <3>6. i \in Nat /\ k \in Nat
      BY <2>5
    <3>7. n < i /\ i <= n + al
      BY <2>3, <2>4, <3>4, <3>5, <3>6
    <3>8. QED
      BY <3>4, <3>7
  <2> HIDE DEF missed
  <2>8. Cardinality(missed) <= al
    <3>1. /\ live \in Seq(Nat) /\ n \in Nat /\ al \in Nat
          /\ \A x \in missed : \E i \in 1..Len(live) :
                 n < i /\ i <= n + al /\ live[i] = x
      BY <2>3, <2>4, <2>5, <2>7
    <3>2. QED
      BY <3>1, PickedFrom, ZenonT(20)
  <2>9. QED
    BY <2>8 DEF missed, al
<1>2. QED
  BY <1>1, CountingInit, CountingStep, PTL DEF Spec
=============================================================================
