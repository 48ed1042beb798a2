-------------------------- MODULE DssHandlesProofs --------------------------
(***************************************************************************)
(* What one handle has stored outlives every later operation, failed write *)
(* and crash of the process; and without faults its writes add up to the   *)
(* operations of NativeDss, and readers in between see whole records.      *)
(*                                                                         *)
(* The argument: the cells that a completed store is read from lie in      *)
(* front of FILE_SIZE and outside of the free slots, for the header on     *)
(* disk and for the one in memory; and each write goes to a place that the *)
(* header in memory takes for free.  Since a header is torn at a place     *)
(* where BINS_REMAIN and ADD_NEXT_EMPTY_BIN are both old or both new, the  *)
(* next process takes no other places for free.                            *)
(*                                                                         *)
(* For the operations: the queue of a handle leads, over files that each   *)
(* write has its effect on, from the file as the handle sees it to what    *)
(* one operation makes of the file as the last operation left it.  Up to   *)
(* the write of the hash slot everything that file has in use is in place; *)
(* behind it there is nothing left to write but the header.                *)
(***************************************************************************)
EXTENDS DssHandles, DssImageProofs

\* The one handle.
Only == CHOOSE h \in Handle : TRUE
OneHandle == Handle = {Only}

-----------------------------------------------------------------------------
(* The inductive invariant: what it says of a file f, the header hd in     *)
(* memory and the queue q of writes to come.                               *)

Waiting(q, do) == \E i \in 1..Len(q) : q[i].do = do

Kind == {"cell", "block", "pointer", "entry", "hash", "status", "header"}
Rank == [do \in Kind |->
            IF do = "cell" THEN 0
            ELSE IF do = "block" THEN 1
            ELSE IF do = "pointer" THEN 2
            ELSE IF do = "entry" THEN 3
            ELSE IF do = "header" THEN 5
            ELSE 4]

\* Cells, block, pointer, entry, slot of the hash table or status, header.
InOrder(q) ==
    \A i, j \in 1..Len(q) :
        i < j => \/ Rank[q[i].do] < Rank[q[j].do]
                 \/ q[i].do = "cell" /\ q[j].do = "cell"

\* A slot is taken for the entry just written, and only if there is one.
SlotIsFree(q, hd) ==
    /\ Waiting(q, "hash") => hd["binsRemain"] > 0 \/ Waiting(q, "pointer")
    /\ Waiting(q, "pointer") => Waiting(q, "entry")
    /\ Waiting(q, "entry") => Waiting(q, "hash")
    /\ \A i \in 1..Len(q) :
           q[i].do \in {"entry", "hash"} => q[i].entry.tag = "entry"
    /\ \A i, j \in 1..Len(q) :
           q[i].do = "entry" /\ q[j].do = "hash" => q[i].entry = q[j].entry

\* It is an entry whose status is overwritten, at once.
StatusOfEntry(q, f) ==
    \A i \in 1..Len(q) :
        q[i].do = "status" => i = 1 /\ HasTag(f, q[i].slot, "entry")

Counter == {"numberRecords", "numberAliases", "numberDeletes", "numberAliasDeletes"}

\* Only the header of a store moves FILE_SIZE.
HeaderCounts(q) ==
    \A i \in 1..Len(q) :
        q[i].do = "header" => /\ q[i].count \in Counter
                              /\ q[i].path \notin Path => q[i].size = 0

QueueOK(f, hd, q) ==
    InOrder(q) /\ SlotIsFree(q, hd) /\ StatusOfEntry(q, f) /\ HeaderCounts(q)

\* Free slots, the overflow word behind them, and everything from FILE_SIZE.
LastFree(hd) == hd["nextBin"] + hd["binsRemain"] * BinSize
InUse(hd, i) == i < hd["fileSize"] /\ i \notin hd["nextBin"]..LastFree(hd)

\* Free slots lie in front of FILE_SIZE.
Apart(hd) == hd["nextBin"] > 0 /\ LastFree(hd) < hd["fileSize"]

\* The places that a name is read from.
InfoOf(f, path) == CellAt(f.cells, HashSlot(f, path)).info
Places(f, path) ==
    {HashSlot(f, path), InfoOf(f, path)}
        \cup ({CellAt(f.cells, InfoOf(f, path)).at[a] : a \in Area} \ {0})

KeptIn(f, k, hd) ==
    \A path \in Path :
        k[path] # NoRecord => \A i \in Places(f, path) : InUse(hd, i)

Durable(f, k) ==
    \A path \in Path : k[path] # NoRecord => ReadRecord(f, path) = k[path]

\* An info block at base whose record ends in front of size.
InfoWithin(cell, base, size) ==
    /\ cell.tag = "info"
    /\ \A a \in Area : cell.at[a] # 0 => cell.at[a] \in (base + 1)..(size - 1)

\* A store: its info block and its entry are written or wait.
Storing(f, hd, q, put) ==
    LET base == hd["fileSize"]
    IN  /\ put.size > base
        /\ \A i \in 1..Len(q) :
               /\ q[i].do \notin {"block", "pointer", "status"}
               /\ q[i].do \in {"entry", "hash"} => q[i].entry.info = base
               /\ q[i].do = "cell" /\ q[i].at = base
                    => InfoWithin(q[i].cell, base, put.size)
        /\ \/ \E i \in 1..Len(q) : q[i].do = "cell" /\ q[i].at = base
           \/ InfoWithin(CellAt(f.cells, base), base, put.size)
        /\ ~ Waiting(q, "hash") =>
               /\ hd["nextBin"] > BinSize
               /\ CellAt(f.cells, hd["nextBin"] - BinSize).info = base

\* The overflow word of a block, and that of one that leads nowhere.
Word(block) == block + BlockSize - 1
Bare(cells, block) ==
    Word(block) <= Len(cells) /\ CellAt(cells, Word(block)).tag # "ptr"

\* Writes go to free places, and a store ends with all of it written.
WritesAreSafe(f, hd, q) ==
    /\ \A i \in 1..Len(q) : q[i].do = "cell" => q[i].at >= hd["fileSize"]
    /\ \A i \in 1..Len(q) :
           q[i].do = "hash" /\ ~ Waiting(q, "entry")
             => CellAt(f.cells, hd["nextBin"]) = q[i].entry
    /\ \A i \in 1..Len(q) :
           q[i].do = "header" /\ q[i].path \in Path => Storing(f, hd, q, q[i])

\* A block is allocated when no slot is left, for a name without a record of
\* its own; only its pointer leads anywhere, and a store ends with a slot in
\* use.
BinWrites(f, hd, q) ==
    /\ Waiting(q, "block") => Waiting(q, "pointer")
    /\ Waiting(q, "pointer") => hd["binsRemain"] = 0 /\ ~ Waiting(q, "cell")
    /\ Waiting(q, "pointer") /\ ~ Waiting(q, "block") => Bare(f.cells, hd["fileSize"])
    /\ \A i \in 1..Len(q) : q[i].do = "cell" => q[i].cell.tag # "ptr"
    /\ \A i \in 1..Len(q) :
           q[i].do = "header" /\ q[i].path \in Path
             => Waiting(q, "hash") \/ hd["binsRemain"] < BinsPerBlock

Sound(f, hd, q, k) ==
    /\ Apart(hd) /\ Apart(f.hdr) /\ f.hdr["fileSize"] <= hd["fileSize"]
    /\ KeptIn(f, k, hd) /\ KeptIn(f, k, f.hdr)
    /\ Durable(f, k)
    /\ WritesAreSafe(f, hd, q)

HandlesInv ==
    /\ HandlesTypeOK
    /\ QueueOK(disk, hdr[Only], job[Only])
    /\ ~ disk.spilled => Sound(disk, hdr[Only], job[Only], kept)

-----------------------------------------------------------------------------
(* Cells.                                                                  *)

(* The file after one cell is written. *)
Overwritten(c, at, cell) ==
    [i \in 1..Extent(c, at + 1) |-> IF i = at THEN cell ELSE CellAt(c, i)]

(* Every address has a cell: behind the end of the file it is zeros. *)
LEMMA CellAtType ==
    ASSUME NEW c \in Seq(Cell), NEW i
    PROVE  CellAt(c, i) \in Cell
  BY DEF CellAt, Cell, Zero

(* Of all cells only one changes; behind the end of a file there are zeros. *)
LEMMA OverwrittenCells ==
    ASSUME NEW c \in Seq(Cell), NEW at \in Nat, NEW cell \in Cell
    PROVE  /\ Overwritten(c, at, cell) \in Seq(Cell)
           /\ Len(Overwritten(c, at, cell)) >= Len(c)
           /\ \A i \in Nat : i # at => CellAt(Overwritten(c, at, cell), i) = CellAt(c, i)
           /\ at > 0 => CellAt(Overwritten(c, at, cell), at) = cell
<1> DEFINE n == Extent(c, at + 1)
           d == Overwritten(c, at, cell)
<1>1. n \in Nat /\ n >= Len(c) /\ (at > 0 => n >= at)
  BY DEF Extent
<1>2. d = [i \in 1..n |-> IF i = at THEN cell ELSE CellAt(c, i)]
  BY DEF Overwritten
<1> HIDE DEF n, d
<1>3. d \in [1..n -> Cell]
  BY <1>2, CellAtType
<1>4. d \in Seq(Cell) /\ DOMAIN d = 1..n /\ Len(d) = n
  BY <1>1, <1>3, FunctionIsSeq
<1>5. \A i \in Nat : i # at => CellAt(d, i) = CellAt(c, i)
  BY <1>1, <1>2, <1>4 DEF CellAt
<1>6. at > 0 => CellAt(d, at) = cell
  BY <1>1, <1>2, <1>4 DEF CellAt
<1> QED
  BY <1>1, <1>4, <1>5, <1>6 DEF d

(* The file after a block of zeros is written. *)
LEMMA ZeroedCells ==
    ASSUME disk.cells \in Seq(Cell), NEW start \in Nat
    PROVE  LET d == Zeroed(start, start + BlockSize)
           IN  /\ d \in Seq(Cell)
               /\ Len(d) >= Len(disk.cells) /\ Len(d) >= start + BlockSize - 1
               /\ \A i \in Nat :
                      CellAt(d, i) = IF start <= i /\ i < start + BlockSize THEN Zero
                                     ELSE CellAt(disk.cells, i)
<1> DEFINE c == disk.cells
           end == start + BlockSize
           n == Extent(c, end)
           d == Zeroed(start, end)
<1>1. /\ n \in Nat /\ n >= Len(c) /\ n >= end - 1
      /\ BlockSize \in Nat /\ end \in Nat
  BY BlockType DEF Extent
<1>2. d = [i \in 1..n |-> IF i \in start..(end - 1) THEN Zero ELSE CellAt(c, i)]
  BY DEF Zeroed
<1> HIDE DEF n, c, d
<1>3. Zero \in Cell /\ c \in Seq(Cell)
  BY DEF Cell, c
<1>4. d \in [1..n -> Cell]
  BY <1>2, <1>3, CellAtType
<1>5. d \in Seq(Cell) /\ DOMAIN d = 1..n /\ Len(d) = n
  BY <1>1, <1>4, FunctionIsSeq
<1>6. ASSUME NEW i \in Nat
      PROVE  CellAt(d, i) = IF start <= i /\ i < end THEN Zero ELSE CellAt(c, i)
  <2>1. i \in start..(end - 1) <=> start <= i /\ i < end
    BY <1>1
  <2>2. CASE i \in 1..n
    <3>1. d[i] = IF i \in start..(end - 1) THEN Zero ELSE CellAt(c, i)
      BY <1>2, <2>2, Zenon
    <3> QED
      BY <1>5, <2>1, <2>2, <3>1 DEF CellAt
  <2>3. CASE i \notin 1..n
    <3>1. CellAt(d, i) = Zero
      BY <1>5, <2>3 DEF CellAt
    <3>2. i \notin DOMAIN c
      BY <1>1, <1>3, <2>3
    <3> QED
      BY <3>1, <3>2 DEF CellAt
  <2> QED
    BY <2>2, <2>3
<1> QED
  BY <1>1, <1>5, <1>6 DEF c, d

(* A tag tells that there is a cell. *)
LEMMA TagOfCell ==
    ASSUME NEW f \in Image, NEW i, NEW tag \in {"entry", "info", "data", "ptr", "eof"}
    PROVE  /\ HasTag(f, i, tag) <=> CellAt(f.cells, i).tag = tag
           /\ HasTag(f, i, tag) => CellAt(f.cells, i) = f.cells[i] /\ i \in Nat \ {0}
  BY ImageFields DEF HasTag, CellAt, Zero

(* An image with other cells, another header, or another hash table. *)
LEMMA OtherParts ==
    ASSUME NEW f \in Image, NEW hd, NEW hash, NEW cells, NEW spill
    PROVE  LET With(h, t, c, w) == [hdr |-> h, hash |-> t, cells |-> c, spilled |-> w]
           IN  /\ [f EXCEPT !.hdr = hd] = With(hd, f.hash, f.cells, f.spilled)
               /\ [f EXCEPT !.hash = hash] = With(f.hdr, hash, f.cells, f.spilled)
               /\ [f EXCEPT !.cells = cells] = With(f.hdr, f.hash, cells, f.spilled)
               /\ [f EXCEPT !.spilled = @ \/ spill]
                    = With(f.hdr, f.hash, f.cells, f.spilled \/ spill)
<1> DEFINE h == f.hdr
           t == f.hash
           b == f.cells
           w == f.spilled
           r == [hdr |-> h, hash |-> t, cells |-> b, spilled |-> w]
<1>1. f = r
  BY DEF Image
<1> HIDE DEF h, t, b, w
<1>2. /\ [r EXCEPT !.hdr = hd] = [hdr |-> hd, hash |-> t, cells |-> b, spilled |-> w]
      /\ [r EXCEPT !.hash = hash] = [hdr |-> h, hash |-> hash, cells |-> b, spilled |-> w]
      /\ [r EXCEPT !.cells = cells] = [hdr |-> h, hash |-> t, cells |-> cells, spilled |-> w]
      /\ [r EXCEPT !.spilled = w \/ spill]
           = [hdr |-> h, hash |-> t, cells |-> b, spilled |-> w \/ spill]
  OBVIOUS
<1> HIDE DEF r
<1>3. /\ [f EXCEPT !.hdr = hd] = [r EXCEPT !.hdr = hd]
      /\ [f EXCEPT !.hash = hash] = [r EXCEPT !.hash = hash]
      /\ [f EXCEPT !.cells = cells] = [r EXCEPT !.cells = cells]
      /\ [f EXCEPT !.spilled = f.spilled \/ spill] = [r EXCEPT !.spilled = f.spilled \/ spill]
  BY <1>1, Zenon
<1> QED
  BY <1>2, <1>3, Zenon DEF h, t, b, w

\* Cells that are read alike: the status of an entry plays no part.
Alike(c, d) ==
    \/ c = d
    \/ /\ c.tag = "entry" /\ d.tag = "entry"
       /\ c.path = d.path /\ c.info = d.info

(* A name reads the same, from the same places, if these are alike. *)
LEMMA ReadsAlike ==
    ASSUME NEW f \in Image, NEW g \in Image, NEW path \in Path,
           ReadRecord(f, path) # NoRecord,
           HashSlot(f, path) # 0 => HashSlot(g, path) = HashSlot(f, path),
           \A i \in Places(f, path) : Alike(CellAt(f.cells, i), CellAt(g.cells, i))
    PROVE  /\ ReadRecord(g, path) = ReadRecord(f, path)
           /\ Places(g, path) = Places(f, path)
<1> DEFINE slot == HashSlot(f, path)
           info == f.cells[slot].info
           at   == f.cells[info].at
<1>1. /\ FindRecord(f, path) = slot /\ HasTag(f, slot, "entry")
      /\ f.cells[slot].path = path /\ HasTag(f, info, "info")
      /\ RecordAt(f, slot) # NoRecord
  <2>1. HasInfo(f, FindRecord(f, path)) /\ RecordAt(f, FindRecord(f, path)) # NoRecord
    BY DEF ReadRecord, RecordAt
  <2>2. HasTag(f, FindRecord(f, path), "entry")
    BY <2>1 DEF HasInfo
  <2>3. FindRecord(f, path) # 0
    BY <2>2, FoundEntry
  <2>4. FindRecord(f, path) = slot
    BY <2>3 DEF FindRecord
  <2> QED
    BY <2>1, <2>2, <2>3, <2>4, FoundRecord DEF HasInfo
<1>2. /\ slot # 0 /\ CellAt(f.cells, slot) = f.cells[slot]
      /\ CellAt(f.cells, info) = f.cells[info]
      /\ f.cells[slot].tag = "entry" /\ f.cells[info].tag = "info"
  BY <1>1, TagOfCell DEF HasTag
<1>3. /\ Places(f, path) = {slot, info} \cup ({at[a] : a \in Area} \ {0})
      /\ HashSlot(g, path) = slot
  BY <1>2 DEF Places, InfoOf
<1> HIDE DEF slot, info, at
<1>4. /\ HasTag(g, slot, "entry") /\ g.cells[slot].path = path
      /\ g.cells[slot].info = info
  <2>1. Alike(f.cells[slot], CellAt(g.cells, slot))
    BY <1>2, <1>3
  <2>2. CellAt(g.cells, slot).tag = "entry" /\ CellAt(g.cells, slot).path = path
        /\ CellAt(g.cells, slot).info = info
    BY <1>1, <1>2, <2>1 DEF Alike, info
  <2> QED
    BY <2>2, TagOfCell
<1>5. HasTag(g, info, "info") /\ g.cells[info] = f.cells[info]
  <2>1. Alike(f.cells[info], CellAt(g.cells, info))
    BY <1>2, <1>3
  <2>2. CellAt(g.cells, info) = f.cells[info]
    BY <1>2, <2>1 DEF Alike
  <2> QED
    BY <1>2, <2>2, TagOfCell
<1>6. FindRecord(g, path) = slot
  BY <1>3, <1>4 DEF FindRecord
<1>7. ASSUME NEW a \in Area
      PROVE  ReadArea(g, at[a]) = ReadArea(f, at[a])
  <2>1. CASE at[a] = 0
    BY <2>1 DEF ReadArea
  <2>2. CASE at[a] # 0
    <3>1. Alike(CellAt(f.cells, at[a]), CellAt(g.cells, at[a]))
      BY <1>3, <2>2
    <3>2. HasTag(g, at[a], "data") <=> HasTag(f, at[a], "data")
      BY <3>1, TagOfCell DEF Alike
    <3>3. HasTag(f, at[a], "data") => g.cells[at[a]] = f.cells[at[a]]
      BY <3>1, <3>2, TagOfCell DEF Alike
    <3> QED
      BY <2>2, <3>2, <3>3 DEF ReadArea
  <2> QED
    BY <2>1, <2>2
<1>8. RecordAt(g, slot) = RecordAt(f, slot)
  <2>1. HasInfo(g, slot) /\ HasInfo(f, slot)
    BY <1>1, <1>4, <1>5 DEF HasInfo, info
  <2>2. RecordAt(g, slot) =
          [type |-> f.cells[info].type, content |-> [a \in Area |-> ReadArea(g, at[a])]]
    BY <1>4, <1>5, <2>1 DEF RecordAt, at
  <2>3. RecordAt(f, slot) =
          [type |-> f.cells[info].type, content |-> [a \in Area |-> ReadArea(f, at[a])]]
    BY <2>1 DEF RecordAt, at, info
  <2> QED
    BY <1>7, <2>2, <2>3
<1>9. Places(g, path) = {slot, info} \cup ({at[a] : a \in Area} \ {0})
  <2>1. CellAt(g.cells, slot).info = info /\ CellAt(g.cells, info).at = at
    BY <1>4, <1>5, TagOfCell DEF at
  <2> QED
    BY <1>3, <2>1 DEF Places, InfoOf
<1> QED
  BY <1>1, <1>3, <1>6, <1>8, <1>9 DEF ReadRecord

(* The places a kept name is read from are addresses. *)
LEMMA PlacesType ==
    ASSUME NEW f \in Image, NEW path \in Path, ReadRecord(f, path) # NoRecord
    PROVE  Places(f, path) \subseteq Nat
<1> DEFINE slot == HashSlot(f, path)
           info == f.cells[slot].info
<1>1. FindRecord(f, path) = slot /\ HasTag(f, slot, "entry") /\ HasTag(f, info, "info")
  <2>1. HasInfo(f, FindRecord(f, path))
    BY DEF ReadRecord, RecordAt
  <2>2. HasTag(f, FindRecord(f, path), "entry")
    BY <2>1 DEF HasInfo
  <2>3. FindRecord(f, path) = slot
    BY <2>2, FoundEntry DEF FindRecord
  <2> QED
    BY <2>1, <2>2, <2>3 DEF HasInfo
<1>2. slot \in Nat /\ info \in Nat
  BY <1>1, TagOfCell
<1>3. CellAt(f.cells, slot) = f.cells[slot] /\ CellAt(f.cells, info) = f.cells[info]
  BY <1>1, TagOfCell
<1>4. f.cells[info] \in Cell /\ f.cells[info].tag = "info"
  BY <1>1, ImageFields DEF HasTag
<1>5. \A a \in Area : f.cells[info].at[a] \in Nat
  BY <1>4 DEF Cell, Zero, EofFlag, Address
<1> HIDE DEF slot, info
<1>6. Places(f, path) = {slot, info} \cup ({f.cells[info].at[a] : a \in Area} \ {0})
  BY <1>3 DEF Places, InfoOf, slot, info
<1> QED
  BY <1>2, <1>5, <1>6

(* What is kept stays kept when only free places are written. *)
LEMMA KeptStays ==
    ASSUME NEW f \in Image, NEW g \in Image, NEW k, NEW hd,
           Durable(f, k), KeptIn(f, k, hd),
           \A path \in Path :
               HashSlot(f, path) # 0 => HashSlot(g, path) = HashSlot(f, path),
           \A i \in Nat :
               InUse(hd, i) => Alike(CellAt(f.cells, i), CellAt(g.cells, i))
    PROVE  /\ Durable(g, k)
           /\ \A other : KeptIn(f, k, other) => KeptIn(g, k, other)
<1>1. ASSUME NEW path \in Path, k[path] # NoRecord
      PROVE  ReadRecord(g, path) = k[path] /\ Places(g, path) = Places(f, path)
  <2>1. ReadRecord(f, path) = k[path]
    BY <1>1 DEF Durable
  <2>2. \A i \in Places(f, path) : Alike(CellAt(f.cells, i), CellAt(g.cells, i))
    BY <1>1, <2>1, PlacesType DEF KeptIn
  <2> QED
    BY <1>1, <2>1, <2>2, ReadsAlike
<1> QED
  BY <1>1 DEF Durable, KeptIn

(* A header that takes less for free leaves more in use. *)
LEMMA KeptPlaces ==
    ASSUME NEW f \in Image, NEW k, NEW hd, NEW new, Durable(f, k), KeptIn(f, k, hd),
           \A i \in Nat : InUse(hd, i) => InUse(new, i)
    PROVE  KeptIn(f, k, new)
<1> SUFFICES ASSUME NEW path \in Path, k[path] # NoRecord,
                    NEW i \in Places(f, path)
             PROVE  InUse(new, i)
  BY DEF KeptIn
<1>1. i \in Nat
  BY PlacesType DEF Durable
<1> QED
  BY <1>1 DEF KeptIn

-----------------------------------------------------------------------------
(* The queue of writes.                                                    *)

(* What the writes carry. *)
LEMMA PutTypes ==
    ASSUME NEW put \in Put
    PROVE  /\ put.do \in Kind
           /\ put.do = "cell" => put.at \in Nat /\ put.cell \in Cell
           /\ put.do \in {"entry", "hash"} => put.entry \in Cell
           /\ put.do = "status" => put.slot \in Nat /\ put.status \in Status
           /\ put.do = "header" => /\ put.count \in HeaderWord /\ put.size \in Nat
                                   /\ put.path \in Path \cup {Empty}
  BY DEF Put, Kind

(* The first write of a queue and the others. *)
LEMMA QueueTail ==
    ASSUME NEW q \in Seq(Put), q # << >>
    PROVE  /\ Len(q) \in Nat \ {0} /\ Tail(q) \in Seq(Put)
           /\ Head(q) = q[1] /\ Head(q) \in Put
           /\ Len(Tail(q)) = Len(q) - 1
           /\ \A i \in 1..Len(Tail(q)) : i + 1 \in 1..Len(q) /\ Tail(q)[i] = q[i + 1]
  OBVIOUS

(* The ranks in full. *)
LEMMA RankValues ==
    /\ Rank["cell"] = 0 /\ Rank["block"] = 1 /\ Rank["pointer"] = 2
    /\ Rank["entry"] = 3 /\ Rank["hash"] = 4 /\ Rank["status"] = 4
    /\ Rank["header"] = 5
  BY DEF Rank, Kind

(* What waits behind the first write is of a later kind. *)
LEMMA Behind ==
    ASSUME NEW q \in Seq(Put), q # << >>, InOrder(q)
    PROVE  /\ InOrder(Tail(q))
           /\ \A i \in 1..Len(Tail(q)) :
                  \/ Rank[Head(q).do] < Rank[Tail(q)[i].do]
                  \/ Head(q).do = "cell" /\ Tail(q)[i].do = "cell"
  BY QueueTail DEF InOrder

(* The same for the kinds that wait. *)
LEMMA WaitingTail ==
    ASSUME NEW q \in Seq(Put), q # << >>, InOrder(q), NEW do
    PROVE  /\ Waiting(Tail(q), do) => Waiting(q, do)
           /\ Waiting(q, do) /\ Head(q).do # do => Waiting(Tail(q), do)
           /\ Waiting(Tail(q), do) =>
                  \/ Rank[Head(q).do] < Rank[do]
                  \/ Head(q).do = "cell" /\ do = "cell"
           /\ Waiting(q, Head(q).do)
<1>1. Waiting(Tail(q), do) => Waiting(q, do)
  BY QueueTail DEF Waiting
<1>2. ASSUME Waiting(q, do), Head(q).do # do PROVE Waiting(Tail(q), do)
  <2>1. PICK i \in 1..Len(q) : q[i].do = do
    BY <1>2 DEF Waiting
  <2>2. i # 1
    BY <1>2, <2>1, QueueTail
  <2>3. i - 1 \in 1..Len(Tail(q)) /\ Tail(q)[i - 1] = q[i]
    BY <2>2, QueueTail
  <2> QED
    BY <2>1, <2>3 DEF Waiting
<1>3. Waiting(Tail(q), do) => \/ Rank[Head(q).do] < Rank[do]
                              \/ Head(q).do = "cell" /\ do = "cell"
  BY Behind DEF Waiting
<1>4. Waiting(q, Head(q).do)
  BY QueueTail DEF Waiting
<1> QED
  BY <1>1, <1>2, <1>3, <1>4

(* The order of the writes is kept when the first is done. *)
LEMMA QueueStays ==
    ASSUME NEW f, NEW g, NEW hd \in Header, NEW new \in Header,
           NEW q \in Seq(Put), q # << >>, QueueOK(f, hd, q),
           Head(q).do = "pointer" => new["binsRemain"] > 0,
           Head(q).do \notin {"pointer", "hash", "header"}
             => new["binsRemain"] = hd["binsRemain"]
    PROVE  QueueOK(g, new, Tail(q))
<1> DEFINE rest == Tail(q)
           do == Head(q).do
<1>1. /\ InOrder(q) /\ SlotIsFree(q, hd) /\ StatusOfEntry(q, f) /\ HeaderCounts(q)
  BY DEF QueueOK
<1>2. InOrder(rest)
  BY <1>1, Behind
<1>3. do \in Kind
  BY QueueTail, PutTypes
<1>4. \A i \in 1..Len(rest) : i + 1 \in 1..Len(q) /\ rest[i] = q[i + 1]
  BY QueueTail
<1>5. \A kind \in Kind :
               /\ Waiting(rest, kind) => Waiting(q, kind)
               /\ Waiting(q, kind) /\ do # kind => Waiting(rest, kind)
               /\ Waiting(rest, kind) => \/ Rank[do] < Rank[kind]
                                         \/ do = "cell" /\ kind = "cell"
  BY <1>1, WaitingTail
<1>6. Len(rest) \in Nat
  BY QueueTail
<1> HIDE DEF rest, do
<1>kinds. {"pointer", "entry", "hash"} \subseteq Kind
  BY DEF Kind
<1>7. SlotIsFree(rest, new)
  <2>1. Waiting(rest, "hash") => new["binsRemain"] > 0 \/ Waiting(rest, "pointer")
    <3> SUFFICES ASSUME Waiting(rest, "hash")
                 PROVE  new["binsRemain"] > 0 \/ Waiting(rest, "pointer")
      OBVIOUS
    <3>1. Rank[do] < 4
      BY <1>5, <1>kinds, RankValues
    <3>2. do \notin {"hash", "header"}
      BY <3>1, RankValues
    <3>3. hd["binsRemain"] > 0 \/ Waiting(q, "pointer")
      BY <1>1, <1>5, <1>kinds DEF SlotIsFree
    <3>4. CASE do = "pointer"
      BY <3>4 DEF do
    <3>5. CASE do # "pointer"
      <4>1. new["binsRemain"] = hd["binsRemain"]
        BY <3>2, <3>5 DEF do
      <4> QED
        BY <1>5, <1>kinds, <3>3, <3>5, <4>1
    <3> QED
      BY <3>4, <3>5
  <2>2. Waiting(rest, "pointer") => Waiting(rest, "entry")
    <3>1. Waiting(rest, "pointer") => Waiting(q, "entry") /\ do # "entry"
      BY <1>1, <1>5, <1>kinds, RankValues DEF SlotIsFree
    <3> QED
      BY <1>5, <1>kinds, <3>1
  <2>3. Waiting(rest, "entry") => Waiting(rest, "hash")
    <3>1. Waiting(rest, "entry") => Waiting(q, "hash") /\ do # "hash"
      BY <1>1, <1>5, <1>kinds, RankValues DEF SlotIsFree
    <3> QED
      BY <1>5, <1>kinds, <3>1
  <2>4. \A i \in 1..Len(rest) :
           rest[i].do \in {"entry", "hash"} => rest[i].entry.tag = "entry"
    BY <1>1, <1>4 DEF SlotIsFree
  <2>5. \A i, j \in 1..Len(rest) : rest[i].do = "entry" /\ rest[j].do = "hash"
           => rest[i].entry = rest[j].entry
    BY <1>1, <1>4 DEF SlotIsFree
  <2> QED
    BY <2>1, <2>2, <2>3, <2>4, <2>5 DEF SlotIsFree
<1>8. StatusOfEntry(rest, g)
  <2>1. \A i \in 1..Len(rest) : rest[i].do # "status"
    BY <1>1, <1>4, <1>6 DEF StatusOfEntry
  <2> QED
    BY <2>1 DEF StatusOfEntry
<1>9. HeaderCounts(rest)
  BY <1>1, <1>4 DEF HeaderCounts
<1> QED
  BY <1>2, <1>7, <1>8, <1>9 DEF QueueOK, rest

-----------------------------------------------------------------------------
(* Each write keeps what is kept, and what the writes behind it rely on.   *)

(* The places of free slots. *)
LEMMA SlotPlaces ==
    ASSUME NEW hd \in Header
    PROVE  /\ hd["nextBin"] \in Nat /\ hd["binsRemain"] \in Nat
           /\ hd["fileSize"] \in Nat /\ LastFree(hd) \in Nat
           /\ hd["nextBin"] <= LastFree(hd)
           /\ \A i \in Nat : InUse(hd, i) <=>
                  i < hd["fileSize"] /\ (i < hd["nextBin"] \/ LastFree(hd) < i)
<1>1. hd["nextBin"] \in Nat /\ hd["binsRemain"] \in Nat /\ hd["fileSize"] \in Nat
  BY DEF Header, HeaderWord
<1>2. \A n \in Nat : n * BinSize \in Nat
  BY ImageAssumption
<1>3. LastFree(hd) \in Nat /\ hd["nextBin"] <= LastFree(hd)
  BY <1>1, <1>2 DEF LastFree
<1> QED
  BY <1>1, <1>3 DEF InUse

(* The one cell that a write changes. *)
LEMMA OneCell ==
    ASSUME NEW f \in Image, NEW g, NEW at \in Nat, NEW cell \in Cell,
           g.cells = Overwritten(f.cells, at, cell)
    PROVE  /\ \A i \in Nat : i # at => CellAt(g.cells, i) = CellAt(f.cells, i)
           /\ at > 0 => CellAt(g.cells, at) = cell
<1>1. f.cells \in Seq(Cell)
  BY ImageFields
<1>2. /\ \A i \in Nat : i # at =>
             CellAt(Overwritten(f.cells, at, cell), i) = CellAt(f.cells, i)
      /\ at > 0 => CellAt(Overwritten(f.cells, at, cell), at) = cell
  BY <1>1, OverwrittenCells
<1> QED
  BY <1>2, Zenon

(* A cell of a record is written, behind FILE_SIZE. *)
LEMMA CellWritten ==
    ASSUME NEW f \in Image, NEW g \in Image, NEW hd \in Header, NEW k,
           NEW q \in Seq(Put), q # << >>, QueueOK(f, hd, q), Sound(f, hd, q, k),
           Head(q).do = "cell",
           g.hdr = f.hdr, g.hash = f.hash,
           g.cells = Overwritten(f.cells, Head(q).at, Head(q).cell)
    PROVE  Sound(g, hd, Tail(q), k)
<1> DEFINE rest == Tail(q)
           at   == Head(q).at
           cell == Head(q).cell
           base == hd["fileSize"]
<1>1. /\ Head(q) = q[1] /\ at \in Nat /\ cell \in Cell
      /\ \A i \in 1..Len(rest) : i + 1 \in 1..Len(q) /\ rest[i] = q[i + 1]
      /\ 1 \in 1..Len(q)
  BY QueueTail, PutTypes
<1>2. base \in Nat /\ at >= base
  BY <1>1, SlotPlaces DEF Sound, WritesAreSafe
<1>3. /\ hd["nextBin"] \in Nat /\ LastFree(hd) \in Nat
      /\ hd["nextBin"] > 0 /\ hd["nextBin"] < base
  BY SlotPlaces DEF Sound, Apart
<1>4. /\ \A i \in Nat : i # at => CellAt(g.cells, i) = CellAt(f.cells, i)
      /\ at > 0 => CellAt(g.cells, at) = cell
  <2>1. g.cells = Overwritten(f.cells, at, cell)
    OBVIOUS
  <2>2. at \in Nat /\ cell \in Cell
    BY <1>1
  <2> HIDE DEF at, cell
  <2> QED
    BY <2>1, <2>2, OneCell
<1>5. \A i \in Nat : i < base => CellAt(g.cells, i) = CellAt(f.cells, i)
  BY <1>1, <1>2, <1>4
<1>6. /\ Durable(g, k) /\ KeptIn(g, k, hd) /\ KeptIn(g, k, g.hdr)
  <2>1. \A i \in Nat : InUse(hd, i) => Alike(CellAt(f.cells, i), CellAt(g.cells, i))
    BY <1>5 DEF InUse, Alike
  <2>2. \A path \in Path : HashSlot(g, path) = HashSlot(f, path)
    BY DEF HashSlot
  <2>3. Durable(f, k) /\ KeptIn(f, k, hd) /\ KeptIn(f, k, f.hdr)
    BY DEF Sound
  <2> QED
    BY <2>1, <2>2, <2>3, KeptStays
<1>7. WritesAreSafe(g, hd, rest)
  <2>1. \A i \in 1..Len(rest) : rest[i].do = "cell" => rest[i].at >= base
    BY <1>1 DEF Sound, WritesAreSafe
  <2>2. /\ Waiting(rest, "entry") <=> Waiting(q, "entry")
        /\ Waiting(rest, "hash") <=> Waiting(q, "hash")
    BY WaitingTail DEF QueueOK
  <2>3. ASSUME NEW i \in 1..Len(rest), rest[i].do = "hash", ~ Waiting(rest, "entry")
        PROVE  CellAt(g.cells, hd["nextBin"]) = rest[i].entry
    BY <1>1, <1>3, <1>5, <2>2, <2>3 DEF Sound, WritesAreSafe
  <2>4. ASSUME NEW i \in 1..Len(rest), rest[i].do = "header", rest[i].path \in Path
        PROVE  Storing(g, hd, rest, rest[i])
    <3> DEFINE size == rest[i].size
    <3>1. Storing(f, hd, q, rest[i])
      BY <1>1, <2>4 DEF Sound, WritesAreSafe
    <3>2. /\ size > base
          /\ \A j \in 1..Len(q) :
                 /\ q[j].do \notin {"block", "pointer", "status"}
                 /\ q[j].do \in {"entry", "hash"} => q[j].entry.info = base
                 /\ q[j].do = "cell" /\ q[j].at = base
                      => InfoWithin(q[j].cell, base, size)
          /\ \/ \E j \in 1..Len(q) : q[j].do = "cell" /\ q[j].at = base
             \/ InfoWithin(CellAt(f.cells, base), base, size)
          /\ ~ Waiting(q, "hash") =>
                 /\ hd["nextBin"] > BinSize
                 /\ CellAt(f.cells, hd["nextBin"] - BinSize).info = base
      BY <3>1 DEF Storing
    <3>3. \/ \E j \in 1..Len(rest) : rest[j].do = "cell" /\ rest[j].at = base
          \/ InfoWithin(CellAt(g.cells, base), base, size)
      <4>1. CASE at = base
        BY <1>1, <1>2, <1>3, <1>4, <3>2, <4>1
      <4>2. CASE at # base
        <5>1. CellAt(g.cells, base) = CellAt(f.cells, base)
          BY <1>2, <1>4, <4>2
        <5>2. ASSUME NEW j \in 1..Len(q), q[j].do = "cell", q[j].at = base
              PROVE  \E m \in 1..Len(rest) : rest[m].do = "cell" /\ rest[m].at = base
          <6>1. j # 1
            BY <1>1, <4>2, <5>2
          <6>2. j - 1 \in 1..Len(rest) /\ rest[j - 1] = q[j]
            BY <6>1, QueueTail
          <6> QED
            BY <5>2, <6>2
        <5> QED
          BY <3>2, <5>1, <5>2
      <4> QED
        BY <4>1, <4>2
    <3>4. ~ Waiting(rest, "hash") =>
               /\ hd["nextBin"] > BinSize
               /\ CellAt(g.cells, hd["nextBin"] - BinSize).info = base
      <4>1. hd["nextBin"] > BinSize =>
              CellAt(g.cells, hd["nextBin"] - BinSize)
                = CellAt(f.cells, hd["nextBin"] - BinSize)
        BY <1>2, <1>3, <1>5, ImageAssumption
      <4> QED
        BY <2>2, <3>2, <4>1
    <3> QED
      BY <1>1, <3>2, <3>3, <3>4 DEF Storing
  <2> QED
    BY <2>1, <2>3, <2>4 DEF WritesAreSafe
<1> QED
  BY <1>6, <1>7 DEF Sound

(* A block of zeros is written at FILE_SIZE, for an alias. *)
LEMMA BlockWritten ==
    ASSUME NEW f \in Image, NEW g \in Image, NEW hd \in Header, NEW k,
           NEW q \in Seq(Put), q # << >>, QueueOK(f, hd, q), Sound(f, hd, q, k),
           Head(q).do = "block", g.hdr = f.hdr, g.hash = f.hash,
           \A i \in Nat : i < hd["fileSize"] => CellAt(g.cells, i) = CellAt(f.cells, i)
    PROVE  Sound(g, hd, Tail(q), k)
<1> DEFINE rest == Tail(q)
           base == hd["fileSize"]
<1>1. /\ Head(q) = q[1]
      /\ \A i \in 1..Len(rest) : i + 1 \in 1..Len(q) /\ rest[i] = q[i + 1]
      /\ 1 \in 1..Len(q)
  BY QueueTail
<1>2. /\ hd["nextBin"] \in Nat /\ hd["nextBin"] < base
  BY SlotPlaces DEF Sound, Apart
<1>3. /\ Durable(g, k) /\ KeptIn(g, k, hd) /\ KeptIn(g, k, g.hdr)
  <2>1. \A i \in Nat : InUse(hd, i) => Alike(CellAt(f.cells, i), CellAt(g.cells, i))
    BY DEF InUse, Alike
  <2>2. \A path \in Path : HashSlot(g, path) = HashSlot(f, path)
    BY DEF HashSlot
  <2>3. Durable(f, k) /\ KeptIn(f, k, hd) /\ KeptIn(f, k, f.hdr)
    BY DEF Sound
  <2> QED
    BY <2>1, <2>2, <2>3, KeptStays
<1>4. WritesAreSafe(g, hd, rest)
  <2>1. \A i \in 1..Len(rest) : rest[i].do = "cell" => rest[i].at >= base
    BY <1>1 DEF Sound, WritesAreSafe
  <2>2. Waiting(rest, "entry") <=> Waiting(q, "entry")
    BY WaitingTail DEF QueueOK
  <2>3. ASSUME NEW i \in 1..Len(rest), rest[i].do = "hash", ~ Waiting(rest, "entry")
        PROVE  CellAt(g.cells, hd["nextBin"]) = rest[i].entry
    BY <1>1, <1>2, <2>2, <2>3 DEF Sound, WritesAreSafe
  <2>4. ASSUME NEW i \in 1..Len(rest), rest[i].do = "header"
        PROVE  rest[i].path \notin Path
    BY <1>1, <2>4 DEF Sound, WritesAreSafe, Storing
  <2> QED
    BY <2>1, <2>3, <2>4 DEF WritesAreSafe
<1> QED
  BY <1>3, <1>4 DEF Sound

(* The overflow pointer is written, and the handle takes the new block. *)
LEMMA PointerWritten ==
    ASSUME NEW f \in Image, NEW g \in Image, NEW hd \in Header, NEW new \in Header,
           NEW k, NEW q \in Seq(Put), q # << >>, QueueOK(f, hd, q), Sound(f, hd, q, k),
           Head(q).do = "pointer", g.hdr = f.hdr, g.hash = f.hash,
           g.cells = Overwritten(f.cells, hd["nextBin"], Ptr(hd["fileSize"])),
           new["nextBin"] = hd["fileSize"], new["binsRemain"] = BinsPerBlock,
           new["fileSize"] = hd["fileSize"] + BlockSize
    PROVE  Sound(g, new, Tail(q), k)
<1> DEFINE rest == Tail(q)
           base == hd["fileSize"]
<1>1. /\ Head(q) = q[1]
      /\ \A i \in 1..Len(rest) : i + 1 \in 1..Len(q) /\ rest[i] = q[i + 1]
      /\ 1 \in 1..Len(q)
  BY QueueTail
<1>2. /\ hd["nextBin"] \in Nat /\ LastFree(hd) \in Nat /\ base \in Nat
      /\ hd["nextBin"] <= LastFree(hd) /\ LastFree(hd) < base
  BY SlotPlaces DEF Sound, Apart
<1>3. \A i \in Nat : i # hd["nextBin"] => CellAt(g.cells, i) = CellAt(f.cells, i)
  BY <1>2, OneCell DEF Cell, Ptr, Address
<1>4. /\ Apart(new) /\ base <= new["fileSize"]
      /\ \A i : InUse(hd, i) /\ i \in Nat => InUse(new, i)
  <2>1. LastFree(new) = base + BinsPerBlock * BinSize
    BY DEF LastFree
  <2>2. BinsPerBlock * BinSize \in Nat /\ BlockSize = BinsPerBlock * BinSize + 1
    BY ImageAssumption DEF BlockSize
  <2>3. new["fileSize"] = base + BlockSize /\ new["nextBin"] = base
    OBVIOUS
  <2> QED
    BY <1>2, <2>1, <2>2, <2>3 DEF Apart, InUse
<1>5. /\ Durable(g, k) /\ KeptIn(g, k, hd) /\ KeptIn(g, k, g.hdr)
  <2>1. \A i \in Nat : InUse(hd, i) => i # hd["nextBin"]
    BY <1>2, SlotPlaces
  <2>2. \A i \in Nat : InUse(hd, i) => Alike(CellAt(f.cells, i), CellAt(g.cells, i))
    BY <1>3, <2>1 DEF Alike
  <2>3. \A path \in Path : HashSlot(g, path) = HashSlot(f, path)
    BY DEF HashSlot
  <2>4. Durable(f, k) /\ KeptIn(f, k, hd) /\ KeptIn(f, k, f.hdr)
    BY DEF Sound
  <2> QED
    BY <2>2, <2>3, <2>4, KeptStays
<1>6. KeptIn(g, k, new)
  BY <1>4, <1>5, KeptPlaces
<1>7. WritesAreSafe(g, new, rest)
  <2>1. \A i \in 1..Len(rest) : rest[i].do # "cell"
    <3>1. ~ Waiting(rest, "cell")
      BY WaitingTail, RankValues DEF QueueOK
    <3> QED
      BY <3>1 DEF Waiting
  <2>2. Waiting(rest, "entry")
    <3>1. Waiting(q, "pointer") /\ SlotIsFree(q, hd)
      BY WaitingTail DEF QueueOK
    <3>2. Waiting(q, "entry")
      BY <3>1 DEF SlotIsFree
    <3> QED
      BY <3>2, WaitingTail DEF QueueOK
  <2>3. ASSUME NEW i \in 1..Len(rest), rest[i].do = "header"
        PROVE  rest[i].path \notin Path
    BY <1>1, <2>3 DEF Sound, WritesAreSafe, Storing
  <2> QED
    BY <2>1, <2>2, <2>3 DEF WritesAreSafe
<1>8. Apart(g.hdr) /\ g.hdr["fileSize"] <= new["fileSize"]
  <2>1. f.hdr \in Header /\ f.hdr["fileSize"] <= base /\ Apart(f.hdr)
    BY ImageFields DEF Sound
  <2>2. f.hdr["fileSize"] \in Nat /\ new["fileSize"] \in Nat
    BY <2>1, SlotPlaces
  <2> QED
    BY <1>2, <1>4, <2>1, <2>2
<1> QED
  BY <1>4, <1>5, <1>6, <1>7, <1>8 DEF Sound

(* The entry goes to the next free slot; no lookup leads there yet. *)
LEMMA EntryWritten ==
    ASSUME NEW f \in Image, NEW g \in Image, NEW hd \in Header, NEW k,
           NEW q \in Seq(Put), q # << >>, QueueOK(f, hd, q), Sound(f, hd, q, k),
           Head(q).do = "entry", g.hdr = f.hdr, g.hash = f.hash,
           g.cells = Overwritten(f.cells, hd["nextBin"], Head(q).entry)
    PROVE  Sound(g, hd, Tail(q), k)
<1> DEFINE rest  == Tail(q)
           entry == Head(q).entry
           next  == hd["nextBin"]
           base  == hd["fileSize"]
<1>1. /\ Head(q) = q[1] /\ entry \in Cell
      /\ \A i \in 1..Len(rest) : i + 1 \in 1..Len(q) /\ rest[i] = q[i + 1]
      /\ 1 \in 1..Len(q)
  BY QueueTail, PutTypes
<1>2. /\ next \in Nat /\ next > 0 /\ LastFree(hd) \in Nat /\ base \in Nat
      /\ next <= LastFree(hd) /\ LastFree(hd) < base
  BY SlotPlaces DEF Sound, Apart
<1>3. /\ \A i \in Nat : i # next => CellAt(g.cells, i) = CellAt(f.cells, i)
      /\ CellAt(g.cells, next) = entry
  <2>1. g.cells = Overwritten(f.cells, next, entry)
    OBVIOUS
  <2>2. next \in Nat /\ entry \in Cell /\ next > 0
    BY <1>1, <1>2
  <2> HIDE DEF next, entry
  <2> QED
    BY <2>1, <2>2, OneCell
<1>4. /\ Durable(g, k) /\ KeptIn(g, k, hd) /\ KeptIn(g, k, g.hdr)
  <2>1. \A i \in Nat : InUse(hd, i) => i # next
    BY <1>2, SlotPlaces
  <2>2. \A i \in Nat : InUse(hd, i) => Alike(CellAt(f.cells, i), CellAt(g.cells, i))
    BY <1>3, <2>1 DEF Alike
  <2>3. \A path \in Path : HashSlot(g, path) = HashSlot(f, path)
    BY DEF HashSlot
  <2>4. Durable(f, k) /\ KeptIn(f, k, hd) /\ KeptIn(f, k, f.hdr)
    BY DEF Sound
  <2> QED
    BY <2>2, <2>3, <2>4, KeptStays
<1>5. /\ \A i \in 1..Len(q) : q[i].do # "cell"
      /\ Waiting(rest, "hash")
      /\ \A i \in 1..Len(q) : q[i].do = "hash" => q[i].entry = entry
  <2>1. ~ Waiting(rest, "cell") /\ Waiting(q, "entry") /\ SlotIsFree(q, hd)
    BY WaitingTail, RankValues DEF QueueOK
  <2>2. ~ Waiting(q, "cell")
    BY <2>1, WaitingTail DEF QueueOK
  <2>3. Waiting(q, "hash")
    BY <2>1 DEF SlotIsFree
  <2>4. Waiting(rest, "hash")
    BY <2>3, WaitingTail DEF QueueOK
  <2>5. \A i \in 1..Len(q) : q[i].do = "hash" => q[i].entry = entry
    BY <1>1, <2>1 DEF SlotIsFree
  <2> QED
    BY <2>2, <2>4, <2>5 DEF Waiting
<1>6. WritesAreSafe(g, hd, rest)
  <2>1. \A i \in 1..Len(rest) : rest[i].do = "hash" => CellAt(g.cells, next) = rest[i].entry
    BY <1>1, <1>3, <1>5
  <2>2. ASSUME NEW i \in 1..Len(rest), rest[i].do = "header", rest[i].path \in Path
        PROVE  Storing(g, hd, rest, rest[i])
    <3>1. Storing(f, hd, q, rest[i])
      BY <1>1, <2>2 DEF Sound, WritesAreSafe
    <3>2. InfoWithin(CellAt(f.cells, base), base, rest[i].size)
      BY <1>5, <3>1 DEF Storing
    <3>3. CellAt(g.cells, base) = CellAt(f.cells, base)
      BY <1>2, <1>3
    <3> QED
      BY <1>1, <1>5, <3>1, <3>2, <3>3 DEF Storing
  <2> QED
    BY <1>1, <1>5, <2>1, <2>2 DEF WritesAreSafe
<1> QED
  BY <1>4, <1>6 DEF Sound

(* The slot of the hash table is written, and the handle counts the entry. *)
LEMMA HashWritten ==
    ASSUME NEW f \in Image, NEW g \in Image, NEW hd \in Header, NEW new \in Header,
           NEW k, NEW q \in Seq(Put), q # << >>, QueueOK(f, hd, q), Sound(f, hd, q, k),
           Head(q).do = "hash", g.hdr = f.hdr, g.cells = f.cells,
           \A path \in Path :
               HashSlot(f, path) # 0 => HashSlot(g, path) = HashSlot(f, path),
           hd["binsRemain"] > 0,
           new["nextBin"] = hd["nextBin"] + BinSize,
           new["binsRemain"] = hd["binsRemain"] - 1,
           new["fileSize"] = hd["fileSize"]
    PROVE  Sound(g, new, Tail(q), k)
<1> DEFINE rest == Tail(q)
           next == hd["nextBin"]
           base == hd["fileSize"]
<1>1. /\ Head(q) = q[1]
      /\ \A i \in 1..Len(rest) : i + 1 \in 1..Len(q) /\ rest[i] = q[i + 1]
      /\ 1 \in 1..Len(q)
  BY QueueTail
<1>2. /\ next \in Nat /\ next > 0 /\ LastFree(hd) \in Nat /\ base \in Nat
      /\ next <= LastFree(hd) /\ LastFree(hd) < base
  BY SlotPlaces DEF Sound, Apart
<1>3. LastFree(new) = LastFree(hd)
  <2>1. \A n \in Nat : (n - 1) * BinSize = n * BinSize - BinSize /\ n * BinSize \in Nat
    BY ImageAssumption
  <2>2. hd["binsRemain"] \in Nat /\ BinSize \in Nat
    BY SlotPlaces, ImageAssumption
  <2>3. LastFree(new) = (next + BinSize) + (hd["binsRemain"] * BinSize - BinSize)
    BY <2>1, <2>2 DEF LastFree
  <2>4. hd["binsRemain"] * BinSize \in Nat
    BY <2>1, <2>2
  <2> QED
    BY <1>2, <2>2, <2>3, <2>4 DEF LastFree
<1>4. /\ Apart(new)
      /\ \A i \in Nat : InUse(hd, i) => InUse(new, i)
  BY <1>2, <1>3, ImageAssumption DEF Apart, InUse
<1>5. /\ Durable(g, k) /\ KeptIn(g, k, hd) /\ KeptIn(g, k, g.hdr)
  <2>1. \A i \in Nat : InUse(hd, i) => Alike(CellAt(f.cells, i), CellAt(g.cells, i))
    BY DEF Alike
  <2>2. Durable(f, k) /\ KeptIn(f, k, hd) /\ KeptIn(f, k, f.hdr)
    BY DEF Sound
  <2> QED
    BY <2>1, <2>2, KeptStays
<1>6. KeptIn(g, k, new)
  BY <1>4, <1>5, KeptPlaces
<1>7. /\ \A i \in 1..Len(q) : q[i].do # "cell"
      /\ ~ Waiting(q, "entry")
      /\ \A i \in 1..Len(rest) : rest[i].do \notin {"hash", "entry", "cell"}
  <2>1. ~ Waiting(rest, "cell") /\ ~ Waiting(rest, "entry") /\ ~ Waiting(rest, "hash")
    BY WaitingTail, RankValues DEF QueueOK
  <2>2. ~ Waiting(q, "cell") /\ ~ Waiting(q, "entry")
    BY <2>1, WaitingTail DEF QueueOK
  <2> QED
    BY <2>1, <2>2 DEF Waiting
<1>8. WritesAreSafe(g, new, rest)
  <2>1. ASSUME NEW i \in 1..Len(rest), rest[i].do = "header", rest[i].path \in Path
        PROVE  Storing(g, new, rest, rest[i])
    <3>1. Storing(f, hd, q, rest[i])
      BY <1>1, <2>1 DEF Sound, WritesAreSafe
    <3>2. InfoWithin(CellAt(g.cells, base), base, rest[i].size)
      BY <1>7, <3>1 DEF Storing
    <3>3. CellAt(g.cells, next).info = base
      <4>1. CellAt(f.cells, next) = Head(q).entry
        BY <1>1, <1>7 DEF Sound, WritesAreSafe
      <4>2. Head(q).entry.info = base
        BY <1>1, <3>1 DEF Storing
      <4> QED
        BY <4>1, <4>2
    <3>4. new["nextBin"] > BinSize /\ new["nextBin"] - BinSize = next
      BY <1>2, ImageAssumption
    <3>5. rest[i].size > new["fileSize"]
      BY <3>1 DEF Storing
    <3>6. \A j \in 1..Len(rest) : rest[j].do \notin {"block", "pointer", "status"}
      BY <1>1, <3>1 DEF Storing
    <3> QED
      BY <1>7, <3>2, <3>3, <3>4, <3>5, <3>6 DEF Storing
  <2> QED
    BY <1>7, <2>1 DEF WritesAreSafe
<1> QED
  BY <1>4, <1>5, <1>6, <1>8 DEF Sound

(* A status is overwritten, which no lookup considers. *)
LEMMA StatusWritten ==
    ASSUME NEW f \in Image, NEW hd \in Header, NEW k,
           NEW q \in Seq(Put), q # << >>, QueueOK(f, hd, q), Sound(f, hd, q, k),
           Head(q).do = "status"
    PROVE  Sound(SetStatus(f, Head(q).slot, Head(q).status), hd, Tail(q), k)
<1> DEFINE rest  == Tail(q)
           slot  == Head(q).slot
           entry == f.cells[slot]
           g == SetStatus(f, slot, Head(q).status)
<1>1. /\ Head(q) = q[1] /\ Head(q).status \in Status
      /\ \A i \in 1..Len(rest) : i + 1 \in 1..Len(q) /\ rest[i] = q[i + 1]
      /\ 1 \in 1..Len(q)
  BY QueueTail, PutTypes
<1>2. HasTag(f, slot, "entry") /\ slot \in DOMAIN f.cells
  BY <1>1 DEF QueueOK, StatusOfEntry, HasTag
<1>3. g \in Image
  <2>1. Head(q).status \in Status
    BY <1>1
  <2> QED
    BY <1>2, <2>1, SetStatusType
<1>4. /\ g.hdr = f.hdr /\ g.hash = f.hash
      /\ g.cells = [f.cells EXCEPT ![slot] = Entry(entry.path, Head(q).status,
                                                 entry.info, entry.type)]
  BY DEF SetStatus
<1>5. \A i : Alike(CellAt(f.cells, i), CellAt(g.cells, i))
  <2>1. slot \in DOMAIN f.cells /\ entry.tag = "entry"
    BY <1>2 DEF HasTag
  <2>2. DOMAIN g.cells = DOMAIN f.cells
    BY <1>4
  <2>3. \A i \in DOMAIN f.cells : i # slot => g.cells[i] = f.cells[i]
    BY <1>4
  <2>4. g.cells[slot] = Entry(entry.path, Head(q).status, entry.info, entry.type)
    BY <1>4, <2>1
  <2> HIDE DEF g
  <2>5. Alike(f.cells[slot], g.cells[slot])
    BY <2>1, <2>4 DEF Alike, Entry
  <2> QED
    BY <2>1, <2>2, <2>3, <2>5 DEF Alike, CellAt
<1> HIDE DEF g
<1>6. /\ Durable(g, k) /\ KeptIn(g, k, hd) /\ KeptIn(g, k, g.hdr)
  <2>1. \A path \in Path : HashSlot(g, path) = HashSlot(f, path)
    BY <1>4 DEF HashSlot
  <2>2. Durable(f, k) /\ KeptIn(f, k, hd) /\ KeptIn(f, k, f.hdr)
    BY DEF Sound
  <2> QED
    BY <1>3, <1>4, <1>5, <2>1, <2>2, KeptStays
<1>7. WritesAreSafe(g, hd, rest)
  <2>1. ~ Waiting(rest, "cell") /\ ~ Waiting(rest, "hash")
    BY WaitingTail, RankValues DEF QueueOK
  <2>2. \A i \in 1..Len(rest) : rest[i].do \notin {"cell", "hash"}
    BY <2>1 DEF Waiting
  <2>3. ASSUME NEW i \in 1..Len(rest), rest[i].do = "header"
        PROVE  rest[i].path \notin Path
    BY <1>1, <2>3 DEF Sound, WritesAreSafe, Storing
  <2> QED
    BY <2>2, <2>3 DEF WritesAreSafe
<1> QED
  BY <1>4, <1>6, <1>7 DEF Sound, g

(* Nothing waits behind a header. *)
LEMMA HeaderIsLast ==
    ASSUME NEW q \in Seq(Put), q # << >>, InOrder(q), Head(q).do = "header"
    PROVE  Tail(q) = << >> /\ Len(q) = 1
<1> DEFINE rest == Tail(q)
<1>1. 1 \notin 1..Len(rest)
  <2> SUFFICES ASSUME 1 \in 1..Len(rest) PROVE FALSE
    OBVIOUS
  <2>1. Rank["header"] < Rank[rest[1].do]
    BY Behind
  <2>2. rest[1].do \in Kind
    BY QueueTail, PutTypes
  <2>3. \A do \in Kind : Rank[do] <= 5
    BY DEF Rank, Kind
  <2>4. Rank[rest[1].do] \in Nat
    BY <2>2 DEF Rank, Kind
  <2> QED
    BY <2>1, <2>2, <2>3, <2>4, RankValues
<1>2. /\ rest \in Seq(Put) /\ Len(rest) = Len(q) - 1 /\ Len(q) \in Nat \ {0}
  BY QueueTail
<1>3. Len(rest) = 0
  BY <1>1, <1>2
<1> HIDE DEF rest
<1>4. rest = << >>
  BY <1>2, <1>3
<1> QED
  BY <1>2, <1>3, <1>4 DEF rest

(* The header is the last write; what a store has made readable is kept. *)
LEMMA HeaderWritten ==
    ASSUME NEW f \in Image, NEW g \in Image, NEW hd \in Header, NEW new \in Header,
           NEW k, NEW more,
           NEW q \in Seq(Put), q # << >>, QueueOK(f, hd, q), Sound(f, hd, q, k),
           Head(q).do = "header",
           g.hdr = new, g.cells = f.cells, g.hash = f.hash,
           new["nextBin"] = hd["nextBin"], new["binsRemain"] = hd["binsRemain"],
           new["fileSize"] = IF Head(q).size = 0 THEN hd["fileSize"] ELSE Head(q).size,
           \A path \in Path :
               more[path] = IF /\ Head(q).path = path
                               /\ FindRecord(g, path) # 0
                               /\ FindRecord(g, path) = hd["nextBin"] - BinSize
                            THEN ReadRecord(g, path) ELSE k[path]
    PROVE  Sound(g, new, Tail(q), more)
<1> DEFINE rest == Tail(q)
           put  == Head(q)
           next == hd["nextBin"]
           base == hd["fileSize"]
<1>1. /\ put = q[1] /\ put \in Put /\ put.size \in Nat
      /\ 1 \in 1..Len(q) /\ Len(rest) = Len(q) - 1 /\ Len(q) \in Nat
  BY QueueTail, PutTypes
<1>2. /\ next \in Nat /\ next > 0 /\ LastFree(hd) \in Nat /\ base \in Nat
      /\ next <= LastFree(hd) /\ LastFree(hd) < base
      /\ new["fileSize"] \in Nat
  BY SlotPlaces DEF Sound, Apart
<1>3. put.path \in Path => Storing(f, hd, q, put)
  BY <1>1 DEF Sound, WritesAreSafe
<1>4. base <= new["fileSize"]
  <2>1. CASE put.path \in Path
    BY <1>1, <1>2, <1>3, <2>1 DEF Storing
  <2>2. CASE put.path \notin Path
    BY <1>1, <1>2, <2>2 DEF QueueOK, HeaderCounts
  <2> QED
    BY <2>1, <2>2
<1>5. LastFree(new) = LastFree(hd)
  BY DEF LastFree
<1>6. /\ Apart(new)
      /\ \A i \in Nat : InUse(hd, i) => InUse(new, i)
  BY <1>2, <1>4, <1>5 DEF Apart, InUse
<1>7. Durable(g, k) /\ KeptIn(g, k, new)
  <2>1. \A i \in Nat : InUse(hd, i) => Alike(CellAt(f.cells, i), CellAt(g.cells, i))
    BY DEF Alike
  <2>2. \A path \in Path : HashSlot(g, path) = HashSlot(f, path)
    BY DEF HashSlot
  <2>3. Durable(f, k) /\ KeptIn(f, k, hd)
    BY DEF Sound
  <2>4. Durable(g, k) /\ KeptIn(g, k, hd)
    BY <2>1, <2>2, <2>3, KeptStays
  <2> QED
    BY <1>6, <2>4, KeptPlaces
<1>8. Durable(g, more)
  BY <1>7 DEF Durable
<1>9. /\ ~ Waiting(q, "hash") /\ \A i \in 1..Len(q) : q[i].do # "cell"
      /\ rest = << >>
  <2>1. rest = << >> /\ Len(q) = 1
    BY HeaderIsLast DEF QueueOK
  <2>2. \A i \in 1..Len(q) : q[i].do = "header"
    BY <1>1, <2>1
  <2> QED
    BY <2>1, <2>2 DEF Waiting
<1>10. ASSUME NEW path \in Path, put.path = path, ReadRecord(g, path) # NoRecord,
              FindRecord(g, path) = next - BinSize
       PROVE  \A i \in Places(g, path) : InUse(new, i)
  <2>1. Storing(f, hd, q, put)
    BY <1>3, <1>10
  <2>2. /\ put.size > base /\ new["fileSize"] = put.size
        /\ InfoWithin(CellAt(g.cells, base), base, put.size)
        /\ next > BinSize
        /\ CellAt(g.cells, next - BinSize).info = base
    BY <1>1, <1>2, <1>9, <2>1 DEF Storing
  <2>3. HashSlot(g, path) = next - BinSize
    <3>1. HasInfo(g, FindRecord(g, path))
      BY <1>10 DEF ReadRecord, RecordAt
    <3>2. FindRecord(g, path) # 0
      BY <3>1, FoundEntry DEF HasInfo
    <3> QED
      BY <1>10, <3>2 DEF FindRecord, HashSlot
  <2>4. InfoOf(g, path) = base
    BY <2>2, <2>3 DEF InfoOf
  <2>5. Places(g, path) = {next - BinSize, base}
          \cup ({CellAt(g.cells, base).at[a] : a \in Area} \ {0})
    BY <2>3, <2>4 DEF Places
  <2>6. InUse(new, next - BinSize)
    BY <1>2, <2>2, ImageAssumption DEF InUse
  <2>7. \A i \in base..(put.size - 1) : InUse(new, i)
    BY <1>1, <1>2, <1>5, <2>2 DEF InUse
  <2>8. InUse(new, base)
    BY <1>1, <1>2, <2>2, <2>7
  <2>9. \A a \in Area : CellAt(g.cells, base).at[a] # 0
           => InUse(new, CellAt(g.cells, base).at[a])
    <3> TAKE a \in Area
    <3> DEFINE addr == CellAt(g.cells, base).at[a]
    <3>1. addr # 0 => addr \in (base + 1)..(put.size - 1)
      BY <2>2 DEF InfoWithin
    <3> HIDE DEF addr
    <3>2. addr # 0 => addr \in base..(put.size - 1)
      BY <1>1, <1>2, <3>1
    <3>3. addr # 0 => InUse(new, addr)
      BY <2>7, <3>2
    <3> QED
      BY <3>3 DEF addr
  <2> QED
    BY <2>5, <2>6, <2>8, <2>9
<1>11. KeptIn(g, more, new)
  <2> SUFFICES ASSUME NEW path \in Path, more[path] # NoRecord
               PROVE  \A i \in Places(g, path) : InUse(new, i)
    BY DEF KeptIn
  <2>1. CASE /\ put.path = path
             /\ FindRecord(g, path) # 0
             /\ FindRecord(g, path) = next - BinSize
    <3>1. ReadRecord(g, path) # NoRecord
      BY <2>1
    <3> QED
      BY <1>10, <2>1, <3>1
  <2>2. CASE ~ /\ put.path = path
               /\ FindRecord(g, path) # 0
               /\ FindRecord(g, path) = next - BinSize
    <3>1. k[path] # NoRecord
      BY <2>2
    <3> QED
      BY <1>7, <3>1 DEF KeptIn
  <2> QED
    BY <2>1, <2>2
<1>12. WritesAreSafe(g, new, rest)
  <2>1. WritesAreSafe(g, new, << >>)
    BY DEF WritesAreSafe
  <2> QED
    BY <1>9, <2>1, Zenon
<1> QED
  BY <1>2, <1>6, <1>8, <1>11, <1>12 DEF Sound

\* An operation breaks off: the header on disk may be torn, between the one
\* that was there and the one that was to be written, and the handle goes on
\* with the latter or the file is opened again.
Broken(f, hd, closed, torn, g, new) ==
    /\ closed \in Header /\ torn \in Header
    /\ closed["nextBin"] = hd["nextBin"]
    /\ closed["binsRemain"] = hd["binsRemain"]
    /\ closed["totalBins"] = hd["totalBins"]
    /\ ~ f.spilled => closed["fileSize"] >= hd["fileSize"]
    /\ g = [hdr |-> torn, hash |-> f.hash, cells |-> f.cells, spilled |-> f.spilled]
    /\ torn["fileSize"] \in {f.hdr["fileSize"], closed["fileSize"]}
    /\ \/ /\ torn["nextBin"] = f.hdr["nextBin"]
          /\ torn["binsRemain"] = f.hdr["binsRemain"]
          /\ torn["totalBins"] = f.hdr["totalBins"]
       \/ /\ torn["nextBin"] = closed["nextBin"]
          /\ torn["binsRemain"] = closed["binsRemain"]
          /\ torn["fileSize"] = closed["fileSize"]
          /\ torn["totalBins"] \in {f.hdr["totalBins"], closed["totalBins"]}
    /\ new \in {closed, torn}

(* What is kept then is neither free for this process nor for the next. *)
LEMMA BrokenOff ==
    ASSUME NEW f \in Image, NEW g \in Image, NEW hd \in Header, NEW k, NEW q,
           Sound(f, hd, q, k), NEW closed, NEW torn, NEW new,
           Broken(f, hd, closed, torn, g, new), ~ f.spilled
    PROVE  Sound(g, new, << >>, k)
<1> /\ closed \in Header /\ torn \in Header
    /\ closed["nextBin"] = hd["nextBin"]
    /\ closed["binsRemain"] = hd["binsRemain"]
    /\ closed["fileSize"] >= hd["fileSize"]
    /\ g.hdr = torn /\ g.cells = f.cells /\ g.hash = f.hash
    /\ torn["fileSize"] \in {f.hdr["fileSize"], closed["fileSize"]}
    /\ \/ /\ torn["nextBin"] = f.hdr["nextBin"]
          /\ torn["binsRemain"] = f.hdr["binsRemain"]
       \/ /\ torn["nextBin"] = closed["nextBin"]
          /\ torn["binsRemain"] = closed["binsRemain"]
          /\ torn["fileSize"] = closed["fileSize"]
    /\ new \in {closed, torn}
  BY DEF Broken
<1>1. f.hdr \in Header
  BY ImageFields
<1>2. /\ Apart(hd) /\ Apart(f.hdr) /\ f.hdr["fileSize"] <= hd["fileSize"]
      /\ Durable(f, k) /\ KeptIn(f, k, hd) /\ KeptIn(f, k, f.hdr)
  BY DEF Sound
<1>3. \A h \in {hd, f.hdr, closed, torn} :
          /\ h["nextBin"] \in Nat /\ h["fileSize"] \in Nat /\ LastFree(h) \in Nat
          /\ \A i \in Nat : InUse(h, i) <=>
                 i < h["fileSize"] /\ (i < h["nextBin"] \/ LastFree(h) < i)
  BY <1>1, SlotPlaces
<1>4. LastFree(closed) = LastFree(hd)
  BY DEF LastFree
<1>5. /\ Apart(closed)
      /\ \A i \in Nat : InUse(hd, i) => InUse(closed, i)
  BY <1>2, <1>3, <1>4 DEF Apart
<1>6. /\ Apart(torn) /\ torn["fileSize"] <= closed["fileSize"]
      /\ \/ \A i \in Nat : InUse(f.hdr, i) => InUse(torn, i)
         \/ \A i \in Nat : InUse(hd, i) => InUse(torn, i)
  <2>1. f.hdr["fileSize"] <= torn["fileSize"] /\ torn["fileSize"] <= closed["fileSize"]
    BY <1>2, <1>3
  <2>2. CASE /\ torn["nextBin"] = f.hdr["nextBin"]
             /\ torn["binsRemain"] = f.hdr["binsRemain"]
    <3>1. LastFree(torn) = LastFree(f.hdr)
      BY <2>2 DEF LastFree
    <3> QED
      BY <1>2, <1>3, <2>1, <2>2, <3>1 DEF Apart
  <2>3. CASE /\ torn["nextBin"] = closed["nextBin"]
             /\ torn["binsRemain"] = closed["binsRemain"]
             /\ torn["fileSize"] = closed["fileSize"]
    <3>1. LastFree(torn) = LastFree(closed)
      BY <2>3 DEF LastFree
    <3> QED
      BY <1>2, <1>3, <1>4, <1>5, <2>1, <2>3, <3>1 DEF Apart
  <2> QED
    BY <2>1, <2>2, <2>3
<1>7. /\ Durable(g, k) /\ KeptIn(g, k, hd) /\ KeptIn(g, k, f.hdr)
  <2>1. \A i \in Nat : InUse(hd, i) => Alike(CellAt(f.cells, i), CellAt(g.cells, i))
    BY DEF Alike
  <2>2. \A path \in Path : HashSlot(g, path) = HashSlot(f, path)
    BY DEF HashSlot
  <2> QED
    BY <1>2, <2>1, <2>2, KeptStays
<1>8. KeptIn(g, k, closed) /\ KeptIn(g, k, torn)
  BY <1>5, <1>6, <1>7, KeptPlaces
<1>9. WritesAreSafe(g, new, << >>)
  BY DEF WritesAreSafe
<1> QED
  BY <1>3, <1>5, <1>6, <1>7, <1>8, <1>9 DEF Sound

-----------------------------------------------------------------------------
(* The queues that operations begin with.                                  *)

\* n cells, a block and its pointer if m is 2, entry, hash table, header.
Planned(q, n, m, entry, last) ==
    /\ n \in Nat /\ m \in {0, 2} /\ entry.tag = "entry"
    /\ last.do = "header" /\ last.count \in Counter
    /\ last.path \notin Path => last.size = 0
    /\ q \in Seq(Put) /\ Len(q) = n + m + 3
    /\ \A i \in 1..n : q[i].do = "cell"
    /\ m = 2 => q[n + 1].do = "block" /\ q[n + 2].do = "pointer"
    /\ q[n + m + 1] = PutEntry(entry)
    /\ q[n + m + 2] = PutHash(entry)
    /\ q[n + m + 3] = last

\* What is in such a queue.
Found(q, n, m, entry, last) ==
    /\ Waiting(q, "entry") /\ Waiting(q, "hash")
    /\ \A i \in 1..Len(q) :
           /\ q[i].do = "cell" => i \in 1..n
           /\ q[i].do \in {"entry", "hash"} => q[i].entry = entry
           /\ q[i].do = "header" => q[i] = last
           /\ q[i].do # "status"
           /\ m = 0 => q[i].do \notin {"block", "pointer"}

(* It is in order, whatever the file. *)
LEMMA PlannedIsOK ==
    ASSUME NEW f, NEW hd, NEW q, NEW n, NEW m, NEW entry, NEW last,
           Planned(q, n, m, entry, last),
           m = 2 \/ hd["binsRemain"] > 0
    PROVE  QueueOK(f, hd, q) /\ Found(q, n, m, entry, last)
<1>0. /\ n \in Nat /\ m \in {0, 2} /\ entry.tag = "entry"
      /\ last.do = "header" /\ last.count \in Counter
      /\ last.path \notin Path => last.size = 0
  BY DEF Planned
<1>1. /\ Len(q) = n + m + 3
      /\ \A i \in 1..Len(q) :
             \/ i \in 1..n /\ q[i].do = "cell"
             \/ m = 2 /\ i = n + 1 /\ q[i].do = "block"
             \/ m = 2 /\ i = n + 2 /\ q[i].do = "pointer"
             \/ i = n + m + 1 /\ q[i].do = "entry" /\ q[i].entry = entry
             \/ i = n + m + 2 /\ q[i].do = "hash" /\ q[i].entry = entry
             \/ i = n + m + 3 /\ q[i].do = "header" /\ q[i] = last
  <2>1. /\ q[n + m + 1].do = "entry" /\ q[n + m + 1].entry = entry
        /\ q[n + m + 2].do = "hash" /\ q[n + m + 2].entry = entry
        /\ q[n + m + 3] = last
    BY DEF Planned, PutEntry, PutHash
  <2>2. Len(q) = n + m + 3
    BY DEF Planned
  <2>3. ASSUME NEW i \in 1..Len(q)
        PROVE  \/ i \in 1..n \/ (m = 2 /\ i = n + 1) \/ (m = 2 /\ i = n + 2)
               \/ i = n + m + 1 \/ i = n + m + 2 \/ i = n + m + 3
    BY <1>0, <2>2
  <2> QED
    BY <1>0, <2>1, <2>2, <2>3 DEF Planned
<1>2. InOrder(q)
  BY <1>0, <1>1, RankValues DEF InOrder
<1>3. /\ Waiting(q, "entry") /\ Waiting(q, "hash")
      /\ m = 2 => Waiting(q, "pointer")
  <2>1. /\ n + m + 1 \in 1..Len(q) /\ q[n + m + 1].do = "entry"
        /\ n + m + 2 \in 1..Len(q) /\ q[n + m + 2].do = "hash"
        /\ m = 2 => n + 2 \in 1..Len(q) /\ q[n + 2].do = "pointer"
    BY <1>0, <1>1 DEF Planned, PutEntry, PutHash
  <2> QED
    BY <2>1 DEF Waiting
<1>4. SlotIsFree(q, hd)
  <2>1. \A i \in 1..Len(q) : q[i].do \in {"entry", "hash"} => q[i].entry = entry
    BY <1>1
  <2> QED
    BY <1>0, <1>3, <2>1 DEF SlotIsFree
<1>5. StatusOfEntry(q, f)
  BY <1>0, <1>1 DEF StatusOfEntry
<1>6. HeaderCounts(q)
  BY <1>0, <1>1 DEF HeaderCounts
<1> QED
  BY <1>0, <1>1, <1>2, <1>3, <1>4, <1>5, <1>6 DEF QueueOK, Found

(* Between the info block of a record and its end there is nothing but its
   areas. *)
LEMMA AreasFill ==
    ASSUME NEW c \in Content, NEW n \in 1..(Size(c) - 1)
    PROVE  \E a \in Area : c[a] # Empty /\ Offset(c, a) = n
<1>1. \A a \in Area : Present(c, a) \in {0, 1} /\ (Present(c, a) = 1 => c[a] # Empty)
  BY DEF Present
<1> QED
  BY <1>1 DEF Area, Offset, Size

(* The writes of a record are those of its cells, from base on. *)
LEMMA RecordQueue ==
    ASSUME NEW base \in Nat, NEW path \in Path, NEW rec \in Record
    PROVE  LET q    == RecordWrites(base, path, rec)
               size == base + Size(rec.content)
           IN  /\ size \in Nat /\ size > base
               /\ q \in Seq(Put) /\ Len(q) = Size(rec.content) + 1
               /\ \A i \in 1..Len(q) :
                      /\ q[i].do = "cell" /\ q[i].at >= base
                      /\ q[i].cell.tag # "ptr"
                      /\ q[i].at = base => InfoWithin(q[i].cell, base, size)
               /\ q[1].at = base
<1> DEFINE c == rec.content
           at == Layout(base, c)
           size == base + Size(c)
           n == Size(c) + 1
           AreaAt(i) == CHOOSE a \in Area : at[a] = i
           Cells(addr) == IF addr = base THEN Info(path, rec.type, at)
                          ELSE IF addr = size THEN EofFlag
                          ELSE Data(c[AreaAt(addr)])
           q == RecordWrites(base, path, rec)
<1>1. /\ c \in Content /\ rec.type \in RecordType /\ Size(c) \in 1..7
      /\ size \in Nat /\ size > base /\ n \in Nat
  <2>1. c \in Content /\ rec.type \in RecordType
    BY DEF Record
  <2>2. Size(c) \in 1..7
    BY <2>1, OffsetType
  <2> HIDE DEF c
  <2> QED
    BY <2>1, <2>2
<1>2. \A a \in Area : /\ at[a] \in Nat
                      /\ at[a] # 0 => at[a] \in (base + 1)..(size - 1)
                      /\ c[a] # Empty => at[a] = base + Offset(c, a)
  <2>1. \A a \in Area : /\ Offset(c, a) \in 1..6
                        /\ c[a] # Empty => Offset(c, a) < Size(c)
    BY <1>1, OffsetType
  <2>2. \A a \in Area : at[a] = IF c[a] = Empty THEN 0 ELSE base + Offset(c, a)
    BY DEF Layout
  <2> HIDE DEF at, c
  <2> QED
    BY <1>1, <2>1, <2>2
<1>3. at \in [Area -> Address]
  BY <1>2 DEF Layout, Address
<1>4. \A addr \in (base + 1)..(size - 1) : AreaAt(addr) \in Area
  <2> TAKE addr \in (base + 1)..(size - 1)
  <2>1. addr - base \in 1..(Size(c) - 1)
    BY <1>1
  <2>2. PICK a \in Area : c[a] # Empty /\ Offset(c, a) = addr - base
    BY <1>1, <2>1, AreasFill
  <2>3. at[a] = addr
    <3>1. at[a] = base + (addr - base)
      BY <1>2, <2>2
    <3> QED
      BY <3>1
  <2> QED
    BY <2>3
<1> HIDE DEF AreaAt, at
<1>5. \A addr \in base..size : Cells(addr) \in Cell /\ Cells(addr).tag # "ptr"
  <2>1. /\ Info(path, rec.type, at) \in Cell /\ EofFlag \in Cell
        /\ Info(path, rec.type, at).tag # "ptr" /\ EofFlag.tag # "ptr"
    BY <1>1, <1>3 DEF Cell, Info, EofFlag
  <2>2. \A a \in Area : Data(c[a]) \in Cell /\ Data(c[a]).tag # "ptr"
    BY <1>1 DEF Cell, Data, Content
  <2> HIDE DEF c
  <2> QED
    BY <1>1, <1>4, <2>1, <2>2
<1>6. q = [i \in 1..(size - base + 1) |-> PutCell(base + i - 1, Cells(base + i - 1))]
  BY DEF RecordWrites, Cells, AreaAt, at
<1>7. size - base + 1 = n
  <2> HIDE DEF c
  <2> QED
    BY <1>1
<1> HIDE DEF q, n, Cells
<1>8. q = [i \in 1..n |-> PutCell(base + i - 1, Cells(base + i - 1))]
  BY <1>6, <1>7
<1>9. \A i \in 1..n : base + i - 1 \in base..size /\ (base + i - 1 = base => i = 1)
  BY <1>1, <1>7
<1>10. q \in [1..n -> Put]
  <2>1. \A i \in 1..n : PutCell(base + i - 1, Cells(base + i - 1)) \in Put
    <3> TAKE i \in 1..n
    <3>1. base + i - 1 \in Nat /\ Cells(base + i - 1) \in Cell
      BY <1>1, <1>5, <1>9
    <3> QED
      BY <3>1 DEF PutCell, Put
  <2> QED
    BY <1>8, <2>1
<1>11. q \in Seq(Put) /\ Len(q) = n
  <2>1. q \in Seq(Put)
    BY <1>1, <1>10, FunctionIsSeq
  <2> QED
    BY <1>1, <1>10, <2>1, LenProperties
<1>12. ASSUME NEW i \in 1..n
       PROVE  /\ q[i].do = "cell" /\ q[i].at = base + i - 1
              /\ q[i].cell = Cells(base + i - 1)
  BY <1>8 DEF PutCell
<1>13. InfoWithin(Cells(base), base, size)
  <2>1. Cells(base) = Info(path, rec.type, at)
    BY DEF Cells
  <2> QED
    BY <1>2, <2>1 DEF InfoWithin, Info
<1>14. \A i \in 1..n : /\ q[i].at >= base /\ q[i].cell.tag # "ptr"
                      /\ (q[i].at = base => InfoWithin(q[i].cell, base, size))
  <2> TAKE i \in 1..n
  <2>1. q[i].at >= base /\ (q[i].at = base => i = 1)
    BY <1>9, <1>12
  <2>2. i = 1 => base + i - 1 = base
    OBVIOUS
  <2>3. q[i].cell.tag # "ptr"
    BY <1>5, <1>9, <1>12
  <2> QED
    BY <1>12, <1>13, <2>1, <2>2, <2>3
<1>15. 1 \in 1..n /\ q[1].at = base
  <2>1. 1 \in 1..n
    BY <1>1 DEF n
  <2> QED
    BY <1>12, <2>1
<1> QED
  BY <1>1, <1>11, <1>12, <1>14, <1>15 DEF q, n

(* The kinds of writes. *)
LEMMA PutKinds ==
    /\ PutBlock \in Put /\ PutBlock.do = "block"
    /\ PutPointer \in Put /\ PutPointer.do = "pointer"
    /\ \A entry \in Cell : PutEntry(entry) \in Put /\ PutHash(entry) \in Put
    /\ \A count \in HeaderWord, size \in Nat, path \in Path \cup {Empty} :
           /\ PutHeader(count, size, path) \in Put
           /\ PutHeader(count, size, path).do = "header"
           /\ PutHeader(count, size, path).count = count
           /\ PutHeader(count, size, path).size = size
           /\ PutHeader(count, size, path).path = path
  BY DEF PutBlock, PutPointer, PutEntry, PutHash, PutHeader, Put

(* Cells, then the entry, then the header. *)
LEMMA PlannedQueue ==
    ASSUME NEW h \in Handle, NEW entry \in Cell, entry.tag = "entry",
           NEW last \in Put, last.do = "header", last.count \in Counter,
           last.path \notin Path => last.size = 0,
           NEW s \in Seq(Put), \A i \in 1..Len(s) : s[i].do = "cell"
    PROVE  LET q == s \o EntryWrites(h, entry) \o <<last>>
           IN  /\ Planned(q, Len(s), IF hdr[h]["binsRemain"] <= 0 THEN 2 ELSE 0,
                          entry, last)
               /\ \A i \in 1..Len(s) : q[i] = s[i]
<1> DEFINE m == IF hdr[h]["binsRemain"] <= 0 THEN 2 ELSE 0
           e == EntryWrites(h, entry)
           q == s \o e \o <<last>>
<1>1. /\ PutEntry(entry) \in Put /\ PutHash(entry) \in Put
      /\ PutBlock \in Put /\ PutPointer \in Put
      /\ PutBlock.do = "block" /\ PutPointer.do = "pointer"
  BY PutKinds
<1>2. /\ e \in Seq(Put) /\ Len(e) = m + 2
      /\ m = 2 => e[1] = PutBlock /\ e[2] = PutPointer
      /\ e[m + 1] = PutEntry(entry) /\ e[m + 2] = PutHash(entry)
  <2>1. CASE hdr[h]["binsRemain"] <= 0
    <3>1. e = <<PutBlock, PutPointer>> \o <<PutEntry(entry), PutHash(entry)>> /\ m = 2
      BY <2>1 DEF EntryWrites
    <3> HIDE DEF e, m
    <3> QED
      BY <1>1, <3>1
  <2>2. CASE ~ hdr[h]["binsRemain"] <= 0
    <3>1. e = << >> \o <<PutEntry(entry), PutHash(entry)>> /\ m = 0
      BY <2>2 DEF EntryWrites
    <3> HIDE DEF e, m
    <3> QED
      BY <1>1, <3>1
  <2> QED
    BY <2>1, <2>2
<1>3. m \in {0, 2} /\ Len(s) \in Nat
  OBVIOUS
<1> HIDE DEF e, m
<1>4. /\ q \in Seq(Put) /\ Len(q) = Len(s) + m + 3
      /\ \A i \in 1..Len(s) : q[i] = s[i]
      /\ \A i \in 1..(m + 2) : q[Len(s) + i] = e[i]
      /\ q[Len(s) + m + 3] = last
  <2>1. /\ s \o e \in Seq(Put) /\ Len(s \o e) = Len(s) + m + 2
        /\ \A i \in 1..Len(s) : (s \o e)[i] = s[i]
        /\ \A i \in 1..(m + 2) : (s \o e)[Len(s) + i] = e[i]
    BY <1>2, <1>3
  <2> DEFINE t == s \o e
  <2> HIDE DEF t
  <2>2. /\ t \in Seq(Put) /\ Len(t) = Len(s) + m + 2
        /\ \A i \in 1..Len(s) : t[i] = s[i]
        /\ \A i \in 1..(m + 2) : t[Len(s) + i] = e[i]
    BY <2>1 DEF t
  <2>3. /\ t \o <<last>> \in Seq(Put) /\ Len(t \o <<last>>) = Len(t) + 1
        /\ \A i \in 1..Len(t) : (t \o <<last>>)[i] = t[i]
        /\ (t \o <<last>>)[Len(t) + 1] = last
    BY <2>2
  <2> QED
    BY <1>3, <2>2, <2>3 DEF t
<1> HIDE DEF q
<1>5. \A i \in 1..Len(s) : q[i].do = "cell"
  BY <1>4
<1>6. m = 2 => q[Len(s) + 1].do = "block" /\ q[Len(s) + 2].do = "pointer"
  BY <1>1, <1>2, <1>3, <1>4
<1>7. q[Len(s) + m + 1] = PutEntry(entry) /\ q[Len(s) + m + 2] = PutHash(entry)
  <2>1. /\ m + 1 \in 1..(m + 2) /\ m + 2 \in 1..(m + 2)
        /\ Len(s) + m + 1 = Len(s) + (m + 1) /\ Len(s) + m + 2 = Len(s) + (m + 2)
    BY <1>3
  <2> QED
    BY <1>2, <1>4, <2>1
<1>8. Planned(q, Len(s), m, entry, last)
  BY <1>3, <1>4, <1>5, <1>6, <1>7 DEF Planned
<1> QED
  BY <1>4, <1>8 DEF q, m, e

-----------------------------------------------------------------------------
(* The steps.                                                              *)

\* What an operation begins with does not disturb what is kept.
Begun(f, k, g, hd, q) ==
    /\ g \in Image /\ q \in Seq(Put) /\ QueueOK(g, hd, q)
    /\ ~ g.spilled => ~ f.spilled /\ WritesAreSafe(g, hd, q) /\ BinWrites(g, hd, q)
    /\ g.hdr = f.hdr /\ g.cells = f.cells /\ g.hash = f.hash

(* With its writes queued nothing on disk has changed yet. *)
LEMMA BegunIsSound ==
    ASSUME NEW f \in Image, NEW g, NEW hd, NEW k, NEW q, Begun(f, k, g, hd, q),
           Sound(f, hd, << >>, k), ~ g.spilled
    PROVE  Sound(g, hd, q, k)
<1>1. \A i \in Nat : InUse(hd, i) => Alike(CellAt(f.cells, i), CellAt(g.cells, i))
  BY DEF Alike, Begun
<1>2. \A path \in Path : HashSlot(g, path) = HashSlot(f, path)
  BY DEF HashSlot, Begun
<1>3. Durable(f, k) /\ KeptIn(f, k, hd) /\ KeptIn(f, k, f.hdr) /\ g \in Image
  BY DEF Sound, Begun
<1>4. Durable(g, k) /\ KeptIn(g, k, hd) /\ KeptIn(g, k, g.hdr)
  <2>1. g.hdr = f.hdr
    BY DEF Begun
  <2> QED
    BY <1>1, <1>2, <1>3, <2>1, KeptStays
<1> QED
  BY <1>4 DEF Sound, Begun

(* A store begins. *)
LEMMA StoreBegins ==
    ASSUME OneHandle, HandlesTypeOK, NEW path \in Path, NEW rec \in Storable,
           NEW g, g.hdr = disk.hdr, g.cells = disk.cells, g.hash = disk.hash,
           g.spilled = (disk.spilled \/ hdr[Only]["binsRemain"] <= 0), g \in Image
    PROVE  Begun(disk, kept, g, hdr[Only], StoreWrites(Only, path, rec))
<1> DEFINE hd    == hdr[Only]
           base  == hd["fileSize"]
           size  == base + Size(rec.content)
           s     == RecordWrites(base, path, rec)
           entry == Entry(path, "PRIMARY", base, rec.type)
           last  == PutHeader("numberRecords", size, path)
           q     == StoreWrites(Only, path, rec)
           m     == IF hd["binsRemain"] <= 0 THEN 2 ELSE 0
<1>1. /\ Only \in Handle /\ hd \in Header /\ base \in Nat /\ hd["binsRemain"] \in Nat
      /\ rec \in Record /\ disk \in Image
  BY HandleAssumption, SlotPlaces DEF OneHandle, HandlesTypeOK
<1>2. /\ size \in Nat /\ size > base
      /\ s \in Seq(Put) /\ Len(s) = Size(rec.content) + 1
      /\ \A i \in 1..Len(s) : /\ s[i].do = "cell" /\ s[i].at >= base
                              /\ s[i].cell.tag # "ptr"
                              /\ s[i].at = base => InfoWithin(s[i].cell, base, size)
      /\ s[1].at = base
  <2> HIDE DEF base
  <2> QED
    BY <1>1, RecordQueue
<1>3. entry \in Cell /\ entry.tag = "entry" /\ entry.info = base
  BY <1>1 DEF Entry, Cell, Status, Address, Record
<1>4. /\ last \in Put /\ last.do = "header" /\ last.count = "numberRecords"
      /\ last.size = size /\ last.path = path
      /\ last.count \in Counter /\ (last.path \notin Path => last.size = 0)
  <2>1. "numberRecords" \in HeaderWord \cap Counter /\ path \in Path \cup {Empty}
    BY DEF HeaderWord, Counter
  <2> HIDE DEF size
  <2>2. /\ last \in Put /\ last.do = "header" /\ last.count = "numberRecords"
        /\ last.size = size /\ last.path = path
    BY <1>2, <2>1, PutKinds
  <2> QED
    BY <2>1, <2>2
<1>5. Planned(q, Len(s), m, entry, last) /\ \A i \in 1..Len(s) : q[i] = s[i]
  <2>1. q = s \o EntryWrites(Only, entry) \o <<last>>
    BY DEF StoreWrites
  <2> HIDE DEF q, s, entry, last
  <2> QED
    BY <1>1, <1>2, <1>3, <1>4, <2>1, PlannedQueue
<1>6. /\ g.hdr = disk.hdr /\ g.cells = disk.cells /\ g.hash = disk.hash
      /\ g.spilled = (disk.spilled \/ hd["binsRemain"] <= 0) /\ g \in Image
  OBVIOUS
<1> HIDE DEF q, s, entry, last, size, hd
<1>7. m \in {0, 2} /\ (m = 2 \/ hd["binsRemain"] > 0) /\ Len(s) \in Nat
  BY <1>1, <1>2
<1> HIDE DEF m
<1>8. QueueOK(g, hd, q) /\ Found(q, Len(s), m, entry, last)
  BY <1>5, <1>7, PlannedIsOK, Zenon
<1>9. /\ QueueOK(g, hd, q)
      /\ Waiting(q, "entry") /\ Waiting(q, "hash")
      /\ \A i \in 1..Len(q) :
             /\ q[i].do = "cell" => i \in 1..Len(s)
             /\ q[i].do \in {"entry", "hash"} => q[i].entry = entry
             /\ q[i].do = "header" => q[i] = last
             /\ q[i].do # "status"
             /\ m = 0 => q[i].do \notin {"block", "pointer"}
  BY <1>8, Zenon DEF Found
<1>10. q \in Seq(Put) /\ Len(q) = Len(s) + m + 3
  BY <1>5 DEF Planned
<1>11. ~ g.spilled => m = 0 /\ ~ disk.spilled
  BY <1>1, <1>6 DEF m
<1>12. ASSUME m = 0
       PROVE  WritesAreSafe(g, hd, q)
  <2>1. \A i \in 1..Len(q) : q[i].do = "cell" =>
           /\ q[i].at >= base
           /\ q[i].at = base => InfoWithin(q[i].cell, base, size)
    BY <1>2, <1>5, <1>9
  <2>2. 1 \in 1..Len(q) /\ q[1].do = "cell" /\ q[1].at = base
    <3>1. 1 \in 1..Len(s)
      <4>1. Size(rec.content) \in Nat
        BY <1>1, OffsetType DEF Record
      <4> QED
        BY <1>2, <4>1
    <3>2. q[1] = s[1] /\ s[1].do = "cell" /\ s[1].at = base
      BY <1>2, <1>5, <3>1
    <3> QED
      BY <1>7, <1>10, <1>12, <3>2
  <2>3. Storing(g, hd, q, last)
    BY <1>2, <1>3, <1>4, <1>9, <1>12, <2>1, <2>2 DEF Storing
  <2> QED
    BY <1>9, <2>1, <2>3 DEF WritesAreSafe
<1>13. ASSUME m = 0
       PROVE  BinWrites(g, hd, q)
  <2>1. \A i \in 1..Len(q) : q[i].do = "cell" => q[i].cell.tag # "ptr"
    BY <1>2, <1>5, <1>9
  <2>2. ~ Waiting(q, "block") /\ ~ Waiting(q, "pointer")
    BY <1>9, <1>13 DEF Waiting
  <2> QED
    BY <1>9, <2>1, <2>2 DEF BinWrites
<1> QED
  BY <1>6, <1>9, <1>10, <1>11, <1>12, <1>13 DEF Begun, hd, q

(* An alias begins. *)
LEMMA AliasBegins ==
    ASSUME OneHandle, HandlesTypeOK, NEW primary \in Path, NEW alias \in Path,
           FindRecord(disk, primary) # 0
    PROVE  LET found == disk.cells[FindRecord(disk, primary)]
           IN  Begun(disk, kept, disk, hdr[Only],
                     EntryWrites(Only, Entry(alias, "ALIAS", found.info, found.type))
                     \o <<PutHeader("numberAliases", 0, Empty)>>)
<1> DEFINE hd    == hdr[Only]
           found == disk.cells[FindRecord(disk, primary)]
           entry == Entry(alias, "ALIAS", found.info, found.type)
           last  == PutHeader("numberAliases", 0, Empty)
           q     == EntryWrites(Only, entry) \o <<last>>
           none  == << >> \o EntryWrites(Only, entry) \o <<last>>
           m     == IF hd["binsRemain"] <= 0 THEN 2 ELSE 0
<1>1. /\ Only \in Handle /\ hd \in Header /\ hd["binsRemain"] \in Nat
      /\ disk \in Image
  BY SlotPlaces DEF OneHandle, HandlesTypeOK
<1>2. entry \in Cell /\ entry.tag = "entry"
  BY <1>1, FoundRecord, FoundEntry DEF Entry, Cell, Status, Address
<1>3. /\ last \in Put /\ last.do = "header" /\ last.count = "numberAliases"
      /\ last.size = 0 /\ last.path = Empty /\ last.count \in Counter
  BY PutKinds DEF HeaderWord, Counter
<1> HIDE DEF last, entry
<1>4. Planned(none, 0, m, entry, last)
  <2> DEFINE s == << >>
  <2>1. s \in Seq(Put) /\ Len(s) = 0
    OBVIOUS
  <2>2. none = s \o EntryWrites(Only, entry) \o <<last>>
    OBVIOUS
  <2> HIDE DEF s, none, m
  <2>3. \A i \in 1..Len(s) : s[i].do = "cell"
    BY <2>1
  <2>4. Planned(none, Len(s), IF hdr[Only]["binsRemain"] <= 0 THEN 2 ELSE 0, entry, last)
    BY <1>1, <1>2, <1>3, <2>1, <2>2, <2>3, PlannedQueue
  <2> QED
    BY <2>1, <2>4 DEF m
<1>5. none = q
  <2> DEFINE e == EntryWrites(Only, entry)
  <2>1. e \in Seq(Put)
    BY <1>2, PutKinds DEF EntryWrites
  <2> HIDE DEF e
  <2>2. << >> \o e = e
    BY <2>1
  <2> QED
    BY <2>2 DEF e
<1> HIDE DEF none, q
<1>6. Planned(q, 0, m, entry, last)
  BY <1>4, <1>5
<1>7. m \in {0, 2} /\ (m = 2 \/ hd["binsRemain"] > 0)
  BY <1>1
<1> HIDE DEF m
<1>8. QueueOK(disk, hd, q) /\ Found(q, 0, m, entry, last)
  BY <1>6, <1>7, PlannedIsOK, Zenon
<1>9. /\ QueueOK(disk, hd, q) /\ Waiting(q, "entry") /\ Waiting(q, "hash")
      /\ m = 0 => \A i \in 1..Len(q) : q[i].do \notin {"block", "pointer"}
      /\ \A i \in 1..Len(q) : /\ q[i].do = "cell" => i \in 1..0
                              /\ q[i].do = "header" => q[i] = last
  BY <1>8, Zenon DEF Found
<1>10. WritesAreSafe(disk, hd, q)
  BY <1>3, <1>9, HandleAssumption DEF WritesAreSafe
<1>11. BinWrites(disk, hd, q)
  <2>1. m = 2 => Waiting(q, "block") /\ Waiting(q, "pointer")
    BY <1>6 DEF Planned, Waiting
  <2>2. m = 0 => ~ Waiting(q, "block") /\ ~ Waiting(q, "pointer")
    BY <1>9 DEF Waiting
  <2>3. m = 2 => hd["binsRemain"] = 0
    BY <1>1 DEF m
  <2>4. \A i \in 1..Len(q) : q[i].do # "cell"
    BY <1>9
  <2>5. ~ Waiting(q, "cell")
    BY <2>4 DEF Waiting
  <2> QED
    BY <1>7, <1>9, <2>1, <2>2, <2>3, <2>4, <2>5 DEF BinWrites
<1> QED
  BY <1>1, <1>6, <1>9, <1>10, <1>11 DEF Begun, Planned, q, last, entry

(* A status is to be written, and the counter of the header unless it is that
   of undelete. *)
LEMMA MarkBegins ==
    ASSUME OneHandle, HandlesTypeOK, NEW slot, HasTag(disk, slot, "entry"),
           NEW status \in Status, NEW count \in Counter,
           NEW q \in {<<PutStatus(slot, status)>>,
                      <<PutStatus(slot, status), PutHeader(count, 0, Empty)>>}
    PROVE  Begun(disk, kept, disk, hdr[Only], q)
<1> DEFINE hd    == hdr[Only]
           first == PutStatus(slot, status)
           last  == PutHeader(count, 0, Empty)
<1>1. Only \in Handle /\ hd \in Header /\ disk \in Image
  BY DEF OneHandle, HandlesTypeOK
<1>2. /\ first \in Put /\ first.do = "status" /\ first.slot = slot
  BY <1>1, FoundEntry DEF PutStatus, Put
<1>3. /\ last \in Put /\ last.do = "header" /\ last.count = count
      /\ last.size = 0 /\ last.path = Empty
  BY PutKinds DEF HeaderWord, Counter
<1> HIDE DEF first, last, hd
<1>4. /\ q \in Seq(Put) /\ Len(q) \in {1, 2} /\ q[1] = first
      /\ Len(q) = 2 => q[2] = last
  <2>1. q = <<first>> \/ q = <<first, last>>
    BY DEF first, last
  <2>2. CASE q = <<first>>
    BY <1>2, <2>2
  <2>3. CASE q = <<first, last>>
    BY <1>2, <1>3, <2>3
  <2> QED
    BY <2>1, <2>2, <2>3
<1>5. \A i \in 1..Len(q) : \/ i = 1 /\ q[i].do = "status" /\ q[i].slot = slot
                           \/ i = 2 /\ q[i] = last /\ q[i].do = "header"
  <2>1. \A n \in {1, 2} : \A i \in 1..n : i = 1 \/ (i = 2 /\ n = 2)
    OBVIOUS
  <2>2. ASSUME NEW i \in 1..Len(q) PROVE i = 1 \/ (i = 2 /\ Len(q) = 2)
    BY <1>4, <2>1, Zenon
  <2> QED
    BY <1>2, <1>3, <1>4, <2>2, Zenon
<1>6. QueueOK(disk, hd, q)
  <2>1. InOrder(q)
    BY <1>4, <1>5, RankValues DEF InOrder
  <2>2. SlotIsFree(q, hd)
    BY <1>5 DEF SlotIsFree, Waiting
  <2>3. StatusOfEntry(q, disk) /\ HeaderCounts(q)
    BY <1>3, <1>5 DEF StatusOfEntry, HeaderCounts
  <2> QED
    BY <2>1, <2>2, <2>3 DEF QueueOK
<1>7. WritesAreSafe(disk, hd, q)
  BY <1>3, <1>5, HandleAssumption DEF WritesAreSafe
<1>8. BinWrites(disk, hd, q)
  <2>1. ~ Waiting(q, "block") /\ ~ Waiting(q, "pointer")
    BY <1>5 DEF Waiting
  <2> QED
    BY <1>3, <1>5, <2>1, HandleAssumption DEF BinWrites
<1> QED
  BY <1>1, <1>4, <1>6, <1>7, <1>8 DEF Begun, hd

(* The file that a handle sees is an image, with its own header. *)
LEMMA ViewType ==
    ASSUME OneHandle, HandlesTypeOK
    PROVE  /\ View(Only) \in Image /\ View(Only).hdr = hdr[Only]
           /\ View(Only).hash = disk.hash /\ View(Only).cells = disk.cells
           /\ View(Only).spilled = disk.spilled
<1>1. disk \in Image /\ hdr[Only] \in Header
  BY DEF OneHandle, HandlesTypeOK
<1>2. View(Only) = [hdr |-> hdr[Only], hash |-> disk.hash, cells |-> disk.cells,
                    spilled |-> disk.spilled]
  BY <1>1, OtherParts DEF View
<1>3. /\ disk.hash \in [0..MaxHash-1 -> Nat] /\ disk.cells \in Seq(Cell)
      /\ disk.spilled \in BOOLEAN
  BY <1>1, ImageFields
<1> QED
  BY <1>1, <1>2, <1>3 DEF Image

(* The parts of the file after a write. *)
LEMMA WrittenParts ==
    ASSUME OneHandle, HandlesTypeOK, NEW put
    PROVE  LET With(h, t, c) == [hdr |-> h, hash |-> t, cells |-> c,
                                 spilled |-> disk.spilled]
               start == hdr[Only]["fileSize"]
               g == Written(Only, put)
           IN  /\ put.do = "cell" =>
                     g = With(disk.hdr, disk.hash,
                              Overwritten(disk.cells, put.at, put.cell))
               /\ put.do = "block" =>
                     g = With(disk.hdr, disk.hash, Zeroed(start, start + BlockSize))
               /\ put.do = "pointer" =>
                     g = With(disk.hdr, disk.hash,
                              Overwritten(disk.cells, hdr[Only]["nextBin"], Ptr(start)))
               /\ put.do = "entry" =>
                     g = With(disk.hdr, disk.hash,
                              Overwritten(disk.cells, hdr[Only]["nextBin"], put.entry))
               /\ put.do = "hash" =>
                     g = With(disk.hdr, TakeSlot(View(Only), put.entry).hash, disk.cells)
               /\ put.do = "status" => g = SetStatus(disk, put.slot, put.status)
               /\ put.do = "header" => g = With(Closed(Only, put), disk.hash, disk.cells)
<1>1. disk \in Image
  BY DEF HandlesTypeOK
<1>2. CASE put.do = "cell"
  BY <1>1, <1>2, OtherParts DEF Written, Overwrite, Overwritten
<1>3. CASE put.do = "block"
  <2> DEFINE start == hdr[Only]["fileSize"]
             c == Zeroed(start, start + BlockSize)
  <2>1. Written(Only, put) = [disk EXCEPT !.cells = c]
    BY <1>3, Zenon DEF Written
  <2> HIDE DEF c
  <2>2. Written(Only, put) = [hdr |-> disk.hdr, hash |-> disk.hash, cells |-> c,
                              spilled |-> disk.spilled]
    BY <1>1, <2>1, OtherParts, Zenon
  <2> QED
    BY <1>3, <2>2 DEF c
<1>4. CASE put.do = "pointer"
  BY <1>1, <1>4, OtherParts DEF Written, Overwrite, Overwritten, OverflowWord
<1>5. CASE put.do = "entry"
  BY <1>1, <1>5, OtherParts DEF Written, Overwrite, Overwritten
<1>6. CASE put.do = "hash"
  BY <1>1, <1>6, OtherParts DEF Written
<1>7. CASE put.do = "status"
  BY <1>7 DEF Written
<1>8. CASE put.do = "header"
  BY <1>1, <1>8, OtherParts DEF Written
<1> QED
  BY <1>2, <1>3, <1>4, <1>5, <1>6, <1>7, <1>8

(* The header in memory behind the overflow pointer and behind the slot of the
   hash table, which keeps what it leads to. *)
LEMMA RememberedWords ==
    ASSUME OneHandle, HandlesTypeOK, NEW put
    PROVE  LET hd  == hdr[Only]
               new == Remembered(Only, put)
           IN  /\ put.do = "pointer" =>
                     /\ new \in Header
                     /\ new["nextBin"] = hd["fileSize"]
                     /\ new["binsRemain"] = BinsPerBlock
                     /\ new["fileSize"] = hd["fileSize"] + BlockSize
                     /\ new["totalBins"] = hd["totalBins"]
               /\ /\ put.do = "hash" /\ hd["binsRemain"] > 0
                  /\ put.entry \in Cell /\ put.entry.tag = "entry"
                  => /\ new \in Header
                     /\ new["nextBin"] = hd["nextBin"] + BinSize
                     /\ new["binsRemain"] = hd["binsRemain"] - 1
                     /\ new["fileSize"] = hd["fileSize"]
                     /\ new["totalBins"] = hd["totalBins"] + 1
                     /\ Written(Only, put).hash \in [0..MaxHash-1 -> Nat]
                     /\ \A path \in Path :
                            HashSlot(disk, path) # 0 =>
                                HashSlot(Written(Only, put), path) = HashSlot(disk, path)
<1> DEFINE hd  == hdr[Only]
           new == Remembered(Only, put)
           v   == View(Only)
<1>1. /\ v \in Image /\ v.hdr = hd /\ v.hash = disk.hash /\ hd \in Header
      /\ disk \in Image /\ disk.hash \in [0..MaxHash-1 -> Nat]
  BY ViewType, ImageFields DEF OneHandle, HandlesTypeOK
<1>2. {"nextBin", "binsRemain", "fileSize", "totalBins"} \subseteq HeaderWord
  BY DEF HeaderWord
<1>3. ASSUME put.do = "pointer"
      PROVE  /\ new \in Header
             /\ new["nextBin"] = hd["fileSize"]
             /\ new["binsRemain"] = BinsPerBlock
             /\ new["fileSize"] = hd["fileSize"] + BlockSize
             /\ new["totalBins"] = hd["totalBins"]
  <2>1. new = AllocateNewBinBlock(v).hdr
    BY <1>3 DEF Remembered
  <2> HIDE DEF new, v, hd
  <2>2. new \in Header
    BY <1>1, <2>1, AllocateType, ImageFields
  <2>3. \A w \in HeaderWord : new[w] =
           IF w = "nextBin" THEN v.hdr.fileSize
           ELSE IF w = "binsRemain" THEN BinsPerBlock
           ELSE IF w = "fileSize" THEN v.hdr.fileSize + BlockSize
           ELSE IF w = "binsOverflow" THEN v.hdr.binsOverflow + 1
           ELSE v.hdr[w]
    BY <1>1, <2>1, AllocateWords
  <2> QED
    BY <1>1, <1>2, <2>2, <2>3
<1>4. ASSUME put.do = "hash", hd["binsRemain"] > 0, put.entry \in Cell,
             put.entry.tag = "entry"
      PROVE  /\ new \in Header
             /\ new["nextBin"] = hd["nextBin"] + BinSize
             /\ new["binsRemain"] = hd["binsRemain"] - 1
             /\ new["fileSize"] = hd["fileSize"]
             /\ new["totalBins"] = hd["totalBins"] + 1
             /\ Written(Only, put).hash \in [0..MaxHash-1 -> Nat]
             /\ \A path \in Path :
                    HashSlot(disk, path) # 0 =>
                        HashSlot(Written(Only, put), path) = HashSlot(disk, path)
  <2> DEFINE g == Written(Only, put)
  <2>1. new = TakeSlot(v, put.entry).hdr
    BY <1>4 DEF Remembered
  <2>2. g.hash = TakeSlot(v, put.entry).hash
    BY <1>4, WrittenParts
  <2>3. put.entry.path \in Path
    BY <1>4 DEF Cell, Zero, EofFlag
  <2> HIDE DEF new, v, hd, g
  <2>4. TakeSlot(v, put.entry) \in Image
    BY <1>1, <1>4, <2>3, TakeSlotType
  <2>5. new \in Header /\ g.hash \in [0..MaxHash-1 -> Nat]
    BY <2>1, <2>2, <2>4, ImageFields
  <2>6. \A w \in HeaderWord : new[w] =
             IF w = "nextBin" THEN v.hdr.nextBin + BinSize
             ELSE IF w = "totalBins" THEN v.hdr.totalBins + 1
             ELSE IF w = "binsRemain" THEN v.hdr.binsRemain - 1
             ELSE IF w = "hashsUsed" /\ v.hash[TableHash[put.entry.path]] = 0
                  THEN v.hdr.hashsUsed + 1
             ELSE v.hdr[w]
    BY <1>1, <2>1, TakeSlotWords
  <2>7. \A path \in Path : HashSlot(disk, path) # 0 => HashSlot(g, path) = HashSlot(disk, path)
    <3> DEFINE slot == TableHash[put.entry.path]
    <3>1. g.hash = [disk.hash EXCEPT ![slot] = IF disk.hash[slot] = 0
                                               THEN hd["nextBin"] ELSE @]
      BY <1>1, <2>2 DEF TakeSlot
    <3>2. \A i \in 0..MaxHash-1 : disk.hash[i] # 0 => g.hash[i] = disk.hash[i]
      BY <1>1, <3>1
    <3>3. \A path \in Path : TableHash[path] \in 0..MaxHash-1
      BY ImageAssumption
    <3> QED
      BY <3>2, <3>3 DEF HashSlot
  <2> QED
    BY <1>1, <1>2, <2>5, <2>6, <2>7 DEF g
<1> QED
  BY <1>3, <1>4

(* The header that closes an operation counts it and leaves the free slots
   alone. *)
LEMMA ClosedWords ==
    ASSUME OneHandle, HandlesTypeOK, NEW put, put.size \in Nat, put.count \in Counter
    PROVE  LET new == Closed(Only, put)
           IN  /\ new \in Header
               /\ new["nextBin"] = hdr[Only]["nextBin"]
               /\ new["binsRemain"] = hdr[Only]["binsRemain"]
               /\ new["totalBins"] = hdr[Only]["totalBins"]
               /\ new["fileSize"] = IF put.size = 0 THEN hdr[Only]["fileSize"]
                                    ELSE put.size
<1> DEFINE hd == hdr[Only]
           new == Closed(Only, put)
           size == IF put.size = 0 THEN hd["fileSize"] ELSE put.size
           more == [hd EXCEPT ![put.count] = @ + 1]
<1>1. hd \in [HeaderWord -> Nat]
  BY DEF OneHandle, HandlesTypeOK, Header
<1>2. /\ put.count \in HeaderWord \ {"nextBin", "binsRemain", "totalBins", "fileSize"}
      /\ {"nextBin", "binsRemain", "totalBins", "fileSize"} \subseteq HeaderWord
  BY DEF Counter, HeaderWord
<1>3. more["fileSize"] = hd["fileSize"]
  BY <1>1, <1>2
<1>4. new = [more EXCEPT !["fileSize"] = IF put.size = 0 THEN @ ELSE put.size]
  BY DEF Closed
<1>5. new = [more EXCEPT !["fileSize"] = size]
  BY <1>3, <1>4
<1> HIDE DEF new, hd
<1>6. size \in Nat
  BY <1>1, <1>2
<1> HIDE DEF size
<1>7. /\ more \in [HeaderWord -> Nat]
      /\ more["nextBin"] = hd["nextBin"] /\ more["binsRemain"] = hd["binsRemain"]
      /\ more["totalBins"] = hd["totalBins"]
  BY <1>1, <1>2
<1> HIDE DEF more
<1>8. /\ new \in [HeaderWord -> Nat] /\ new["fileSize"] = size
      /\ new["nextBin"] = more["nextBin"] /\ new["binsRemain"] = more["binsRemain"]
      /\ new["totalBins"] = more["totalBins"]
  BY <1>2, <1>5, <1>6, <1>7
<1> QED
  BY <1>7, <1>8 DEF Header, new, hd, size

\* The first of the writes is done, and the handle and what is kept go with it.
After(f, hd, q, k, g, new, more) ==
    /\ g \in Image /\ new \in Header /\ g.spilled = f.spilled
    /\ QueueOK(g, new, Tail(q))
    /\ Sound(f, hd, q, k) => Sound(g, new, Tail(q), more)

(* Every write but that of the header. *)
LEMMA WriteIsSound ==
    ASSUME OneHandle, HandlesTypeOK, job[Only] # << >>,
           QueueOK(disk, hdr[Only], job[Only]),
           Head(job[Only]).do # "header"
    PROVE  LET put == Head(job[Only])
           IN  After(disk, hdr[Only], job[Only], kept,
                     Written(Only, put), Remembered(Only, put), kept)
<1> DEFINE f   == disk
           hd  == hdr[Only]
           q   == job[Only]
           put == Head(q)
           g   == Written(Only, put)
           new == Remembered(Only, put)
           base == hd["fileSize"]
           next == hd["nextBin"]
<1>1. /\ f \in Image /\ hd \in Header /\ q \in Seq(Put) /\ q # << >>
      /\ QueueOK(f, hd, q)
  BY DEF OneHandle, HandlesTypeOK
<1>2. /\ put \in Put /\ put.do \in Kind
      /\ put.do = "cell" => put.at \in Nat /\ put.cell \in Cell
      /\ put.do \in {"entry", "hash"} => put.entry \in Cell
      /\ put.do = "status" => put.slot \in Nat /\ put.status \in Status
  BY <1>1, QueueTail, PutTypes
<1>3. /\ base \in Nat /\ next \in Nat /\ hd["binsRemain"] \in Nat
      /\ f.hash \in [0..MaxHash-1 -> Nat] /\ f.cells \in Seq(Cell)
      /\ f.spilled \in BOOLEAN /\ f.hdr \in Header
  BY <1>1, SlotPlaces, ImageFields
<1>4. new = IF put.do = "pointer" THEN AllocateNewBinBlock(View(Only)).hdr
            ELSE IF put.do = "hash" THEN TakeSlot(View(Only), put.entry).hdr
            ELSE hd
  BY DEF Remembered
<1>5. CASE put.do = "cell"
  <2>1. g = [hdr |-> f.hdr, hash |-> f.hash,
             cells |-> Overwritten(f.cells, put.at, put.cell), spilled |-> f.spilled]
    BY <1>5, WrittenParts
  <2> HIDE DEF put, g, new, f, hd, q
  <2>2. Overwritten(f.cells, put.at, put.cell) \in Seq(Cell)
    BY <1>2, <1>3, <1>5, OverwrittenCells
  <2>3. g \in Image
    BY <1>3, <2>1, <2>2 DEF Image
  <2>4. new = hd
    BY <1>4, <1>5
  <2>5. /\ g.hdr = f.hdr /\ g.hash = f.hash /\ g.spilled = f.spilled
        /\ g.cells = Overwritten(f.cells, put.at, put.cell)
    BY <2>1
  <2>6. QueueOK(g, hd, Tail(q))
    BY <1>1, <1>5, QueueStays DEF put
  <2>7. Sound(f, hd, q, kept) => Sound(g, hd, Tail(q), kept)
    BY <1>1, <1>5, <2>3, <2>5, CellWritten DEF put
  <2> QED
    BY <1>1, <2>3, <2>4, <2>5, <2>6, <2>7 DEF After, f, hd, q, put, g, new
<1>6. CASE put.do = "block"
  <2> DEFINE c == Zeroed(base, base + BlockSize)
  <2>1. g = [hdr |-> f.hdr, hash |-> f.hash, cells |-> c, spilled |-> f.spilled]
    BY <1>6, WrittenParts
  <2>3. c \in Seq(Cell) /\ \A i \in Nat : i < base => CellAt(c, i) = CellAt(f.cells, i)
    BY <1>3, ZeroedCells
  <2> HIDE DEF put, g, new, f, hd, q, base, c
  <2>4. g \in Image
    BY <1>3, <2>1, <2>3 DEF Image
  <2>5. new = hd
    BY <1>4, <1>6
  <2>6. /\ g.hdr = f.hdr /\ g.hash = f.hash /\ g.spilled = f.spilled
        /\ \A i \in Nat : i < hd["fileSize"] =>
              CellAt(g.cells, i) = CellAt(f.cells, i)
    BY <2>1, <2>3 DEF base
  <2>7. QueueOK(g, hd, Tail(q))
    BY <1>1, <1>6, QueueStays DEF put
  <2>8. Sound(f, hd, q, kept) => Sound(g, hd, Tail(q), kept)
    BY <1>1, <1>6, <2>4, <2>6, BlockWritten DEF put
  <2> QED
    BY <1>1, <2>4, <2>5, <2>6, <2>7, <2>8 DEF After, f, hd, q, put, g, new
<1>7. CASE put.do = "pointer"
  <2>1. g = [hdr |-> f.hdr, hash |-> f.hash,
             cells |-> Overwritten(f.cells, next, Ptr(base)), spilled |-> f.spilled]
    BY <1>7, WrittenParts
  <2>2. /\ new \in Header
        /\ new["nextBin"] = base /\ new["binsRemain"] = BinsPerBlock
        /\ new["fileSize"] = base + BlockSize
    BY <1>7, RememberedWords
  <2> HIDE DEF put, g, new, f, hd, q, base, next
  <2>3. Ptr(base) \in Cell
    BY <1>3 DEF Ptr, Cell, Address
  <2>4. Overwritten(f.cells, next, Ptr(base)) \in Seq(Cell)
    BY <1>3, <2>3, OverwrittenCells
  <2>5. g \in Image
    BY <1>3, <2>1, <2>4 DEF Image
  <2>6. /\ g.hdr = f.hdr /\ g.hash = f.hash /\ g.spilled = f.spilled
         /\ g.cells = Overwritten(f.cells, next, Ptr(base))
    BY <2>1
  <2>7. QueueOK(g, new, Tail(q))
    BY <1>1, <1>7, <2>2, ImageAssumption, QueueStays DEF put
  <2>8. Sound(f, hd, q, kept) => Sound(g, new, Tail(q), kept)
    BY <1>1, <1>7, <2>2, <2>5, <2>6, PointerWritten DEF put, base, next
  <2> QED
    BY <2>2, <2>5, <2>6, <2>7, <2>8 DEF After, f, hd, q, put, g, new
<1>8. CASE put.do = "entry"
  <2>1. g = [hdr |-> f.hdr, hash |-> f.hash,
             cells |-> Overwritten(f.cells, next, put.entry), spilled |-> f.spilled]
    BY <1>8, WrittenParts
  <2> HIDE DEF put, g, new, f, hd, q, next
  <2>2. Overwritten(f.cells, next, put.entry) \in Seq(Cell)
    BY <1>2, <1>3, <1>8, OverwrittenCells
  <2>3. g \in Image
    BY <1>3, <2>1, <2>2 DEF Image
  <2>4. new = hd
    BY <1>4, <1>8
  <2>5. /\ g.hdr = f.hdr /\ g.hash = f.hash /\ g.spilled = f.spilled
        /\ g.cells = Overwritten(f.cells, next, put.entry)
    BY <2>1
  <2>6. QueueOK(g, hd, Tail(q))
    BY <1>1, <1>8, QueueStays DEF put
  <2>7. Sound(f, hd, q, kept) => Sound(g, hd, Tail(q), kept)
    BY <1>1, <1>8, <2>3, <2>5, EntryWritten DEF put, next
  <2> QED
    BY <1>1, <2>3, <2>4, <2>5, <2>6, <2>7 DEF After, f, hd, q, put, g, new
<1>9. CASE put.do = "hash"
  <2>1. g = [hdr |-> f.hdr, hash |-> TakeSlot(View(Only), put.entry).hash,
             cells |-> f.cells, spilled |-> f.spilled]
    BY <1>9, WrittenParts
  <2>2. /\ Waiting(q, "hash") /\ SlotIsFree(q, hd) /\ InOrder(q)
        /\ Waiting(q, "pointer") => Waiting(Tail(q), "pointer")
        /\ Waiting(Tail(q), "pointer") => Rank["hash"] < Rank["pointer"]
    BY <1>1, <1>9, WaitingTail DEF QueueOK
  <2>3. hd["binsRemain"] > 0
    BY <2>2, RankValues DEF SlotIsFree
  <2>4. put.entry \in Cell /\ put.entry.tag = "entry"
    BY <1>1, <1>2, <1>9, <2>2, QueueTail DEF SlotIsFree
  <2>5. /\ new \in Header
        /\ new["nextBin"] = hd["nextBin"] + BinSize
        /\ new["binsRemain"] = hd["binsRemain"] - 1
        /\ new["fileSize"] = hd["fileSize"]
        /\ g.hash \in [0..MaxHash-1 -> Nat]
        /\ \A path \in Path :
               HashSlot(f, path) # 0 => HashSlot(g, path) = HashSlot(f, path)
    BY <1>9, <2>3, <2>4, RememberedWords
  <2>6. /\ g.hdr = f.hdr /\ g.cells = f.cells /\ g.spilled = f.spilled
        /\ g = [hdr |-> g.hdr, hash |-> g.hash, cells |-> g.cells, spilled |-> g.spilled]
    BY <2>1
  <2> HIDE DEF put, g, new, f, hd, q, next, base
  <2>7. g \in Image
    BY <1>3, <2>5, <2>6 DEF Image
  <2>8. QueueOK(g, new, Tail(q))
    BY <1>1, <1>9, <2>5, QueueStays DEF put
  <2>9. Sound(f, hd, q, kept) => Sound(g, new, Tail(q), kept)
    BY <1>1, <1>9, <2>3, <2>5, <2>6, <2>7, HashWritten DEF put
  <2> QED
    BY <2>5, <2>6, <2>7, <2>8, <2>9 DEF After, f, hd, q, put, g, new
<1>10. CASE put.do = "status"
  <2>1. g = SetStatus(f, put.slot, put.status)
    BY <1>10, WrittenParts
  <2>2. HasTag(f, put.slot, "entry")
    BY <1>1, <1>10, QueueTail DEF QueueOK, StatusOfEntry
  <2> HIDE DEF put, g, new, f, hd, q
  <2>3. g \in Image
    BY <1>1, <1>2, <1>10, <2>1, <2>2, SetStatusType DEF HasTag
  <2>4. new = hd
    BY <1>4, <1>10
  <2>5. g.spilled = f.spilled
    BY <2>1 DEF SetStatus
  <2>6. QueueOK(g, hd, Tail(q))
    BY <1>1, <1>10, QueueStays DEF put
  <2>7. Sound(f, hd, q, kept) => Sound(g, hd, Tail(q), kept)
    BY <1>1, <1>10, <2>1, StatusWritten DEF put
  <2> QED
    BY <1>1, <2>3, <2>4, <2>5, <2>6, <2>7 DEF After, f, hd, q, put, g, new
<1> QED
  BY <1>2, <1>5, <1>6, <1>7, <1>8, <1>9, <1>10 DEF Kind

(* The write of the header; more is what is kept from then on. *)
LEMMA HeaderIsSound ==
    ASSUME OneHandle, HandlesTypeOK, job[Only] # << >>,
           QueueOK(disk, hdr[Only], job[Only]),
           NEW put, put = Head(job[Only]), put.do = "header", NEW more,
           \A path \in Path :
               more[path] =
                   IF /\ put.path = path
                      /\ FindRecord(Written(Only, put), path) # 0
                      /\ FindRecord(Written(Only, put), path)
                           = hdr[Only]["nextBin"] - BinSize
                   THEN ReadRecord(Written(Only, put), path) ELSE kept[path]
    PROVE  After(disk, hdr[Only], job[Only], kept,
                 Written(Only, put), Remembered(Only, put), more)
<1> DEFINE f   == disk
           hd  == hdr[Only]
           q   == job[Only]
           g   == Written(Only, put)
           new == Remembered(Only, put)
<1>1. /\ f \in Image /\ hd \in Header /\ q \in Seq(Put) /\ q # << >>
      /\ QueueOK(f, hd, q)
  BY DEF OneHandle, HandlesTypeOK
<1>2. /\ put.size \in Nat /\ put.count \in Counter
  <2>1. put \in Put /\ put = q[1] /\ 1 \in 1..Len(q)
    BY <1>1, QueueTail
  <2> QED
    BY <1>1, <2>1, PutTypes DEF QueueOK, HeaderCounts
<1>3. /\ g = [hdr |-> Closed(Only, put), hash |-> f.hash, cells |-> f.cells,
              spilled |-> f.spilled]
      /\ new = Closed(Only, put)
  BY WrittenParts DEF Remembered
<1>4. /\ new \in Header
      /\ new["nextBin"] = hd["nextBin"] /\ new["binsRemain"] = hd["binsRemain"]
      /\ new["fileSize"] = IF put.size = 0 THEN hd["fileSize"] ELSE put.size
  BY <1>2, <1>3, ClosedWords
<1>5. \A path \in Path :
         more[path] = IF /\ put.path = path
                         /\ FindRecord(g, path) # 0
                         /\ FindRecord(g, path) = hd["nextBin"] - BinSize
                      THEN ReadRecord(g, path) ELSE kept[path]
  OBVIOUS
<1> HIDE DEF f, hd, q, g, new
<1>6. /\ g.hdr = new /\ g.hash = f.hash /\ g.cells = f.cells /\ g.spilled = f.spilled
  BY <1>3
<1>7. g \in Image
  BY <1>1, <1>3, <1>4, ImageFields DEF Image
<1>8. QueueOK(g, new, Tail(q))
  BY <1>1, <1>4, QueueStays DEF q
<1>9. Sound(f, hd, q, kept) => Sound(g, new, Tail(q), more)
  <2>1. put = Head(q) /\ put.do = "header"
    BY DEF q
  <2> QED
    BY <1>1, <1>4, <1>5, <1>6, <1>7, <2>1, HeaderWritten
<1> QED
  BY <1>4, <1>6, <1>7, <1>8, <1>9 DEF After, f, hd, q, g, new

(* A write keeps the invariant. *)
LEMMA WriteKeepsInv ==
    ASSUME OneHandle, HandlesInv, Write(Only)
    PROVE  HandlesInv'
<1> DEFINE put == Head(job[Only])
<1>1. /\ HandlesTypeOK /\ QueueOK(disk, hdr[Only], job[Only])
      /\ ~ disk.spilled => Sound(disk, hdr[Only], job[Only], kept)
      /\ Only \in Handle
  BY DEF HandlesInv, OneHandle
<1>2. /\ disk' = Written(Only, put)
      /\ hdr' = [hdr EXCEPT ![Only] = Remembered(Only, put)]
      /\ job' = [job EXCEPT ![Only] = Tail(@)]
      /\ Complete(Only, put) /\ faults' = faults /\ job[Only] # << >>
  BY DEF Write, Idle
<1>3. /\ disk \in Image /\ settled \in Image /\ hdr \in [Handle -> Header]
      /\ job \in [Handle -> Seq(Put)] /\ faults \in 0..MaxFaults
      /\ kept \in [Path -> Record \cup {NoRecord}]
  BY <1>1 DEF HandlesTypeOK
<1>4. hdr'[Only] = Remembered(Only, put) /\ job'[Only] = Tail(job[Only])
  BY <1>1, <1>2, <1>3
<1>5. job[Only] \in Seq(Put) /\ InOrder(job[Only])
  BY <1>1, <1>3 DEF QueueOK
<1>6. After(disk, hdr[Only], job[Only], kept, disk', hdr'[Only], kept')
  <2>1. CASE put.do # "header"
    <3>1. kept' = kept
      <4>1. CASE Len(job[Only]) > 1
        BY <1>2, <4>1 DEF Complete, ghosts
      <4>2. CASE ~ Len(job[Only]) > 1
        <5>1. kept' = [path \in Path |-> kept[path]]
          BY <1>2, <2>1, <4>2 DEF Complete
        <5> QED
          BY <1>3, <5>1
      <4> QED
        BY <4>1, <4>2
    <3> QED
      BY <1>1, <1>2, <1>4, <2>1, <3>1, WriteIsSound
  <2>2. CASE put.do = "header"
    <3>1. Len(job[Only]) = 1
      BY <1>2, <1>5, <2>2, HeaderIsLast
    <3>2. kept' = [path \in Path |->
                      IF /\ put.do = "header" /\ put.path = path
                         /\ FindRecord(disk', path) # 0
                         /\ FindRecord(disk', path) = hdr[Only]["nextBin"] - BinSize
                      THEN ReadRecord(disk', path) ELSE kept[path]]
      BY <1>2, <3>1 DEF Complete
    <3>3. \A path \in Path :
             kept'[path] =
                 IF /\ put.path = path
                    /\ FindRecord(Written(Only, put), path) # 0
                    /\ FindRecord(Written(Only, put), path)
                         = hdr[Only]["nextBin"] - BinSize
                 THEN ReadRecord(Written(Only, put), path) ELSE kept[path]
      BY <1>2, <2>2, <3>2
    <3> DEFINE more == kept'
    <3> HIDE DEF put, more
    <3>4. After(disk, hdr[Only], job[Only], kept,
                Written(Only, put), Remembered(Only, put), more)
      BY <1>1, <1>2, <2>2, <3>3, HeaderIsSound DEF put, more
    <3> QED
      BY <1>2, <1>4, <3>4 DEF more
  <2> QED
    BY <2>1, <2>2
<1>7. /\ disk' \in Image /\ hdr'[Only] \in Header
      /\ QueueOK(disk', hdr'[Only], job'[Only])
      /\ ~ disk'.spilled => Sound(disk', hdr'[Only], job'[Only], kept')
  BY <1>1, <1>4, <1>6 DEF After
<1>8. settled' \in Image /\ kept' \in [Path -> Record \cup {NoRecord}]
  <2>1. CASE Len(job[Only]) > 1
    BY <1>2, <1>3, <2>1 DEF Complete, ghosts
  <2>2. CASE ~ Len(job[Only]) > 1
    <3>1. settled' = IF faults = 0 THEN disk' ELSE NewFile
      BY <1>2, <2>2 DEF Complete
    <3>2. kept' = [path \in Path |->
                      IF /\ put.do = "header" /\ put.path = path
                         /\ FindRecord(disk', path) # 0
                         /\ FindRecord(disk', path) = hdr[Only]["nextBin"] - BinSize
                      THEN ReadRecord(disk', path) ELSE kept[path]]
      BY <1>2, <2>2 DEF Complete
    <3>3. \A path \in Path : ReadRecord(disk', path) \in Record \cup {NoRecord}
      BY <1>7, ReadRecordType
    <3> QED
      BY <1>3, <1>7, <3>1, <3>2, <3>3, NewFileType
  <2> QED
    BY <2>1, <2>2
<1>9. job' \in [Handle -> Seq(Put)] /\ hdr' \in [Handle -> Header]
  <2>1. Tail(job[Only]) \in Seq(Put)
    BY <1>2, <1>5, QueueTail
  <2> QED
    BY <1>2, <1>3, <1>4, <1>7, <2>1
<1>10. HandlesTypeOK'
  BY <1>2, <1>3, <1>7, <1>8, <1>9 DEF HandlesTypeOK
<1> QED
  BY <1>7, <1>10 DEF HandlesInv

\* An operation begins: its writes are queued.
Begins(writes) ==
    Begin(Only, writes) /\ Begun(disk, kept, disk', hdr[Only], writes)

(* That keeps the invariant. *)
LEMMA BeginKeeps ==
    ASSUME OneHandle, HandlesInv, NEW writes, Begins(writes)
    PROVE  HandlesInv'
<1>1. /\ job[Only] = << >> /\ job' = [job EXCEPT ![Only] = writes]
      /\ hdr' = hdr /\ faults' = faults /\ kept' = kept /\ settled' = settled
  BY DEF Begins, Begin, Idle, ghosts
<1>2. /\ Only \in Handle /\ HandlesTypeOK
      /\ ~ disk.spilled => Sound(disk, hdr[Only], << >>, kept)
  BY <1>1 DEF HandlesInv, OneHandle
<1>3. /\ disk' \in Image /\ writes \in Seq(Put) /\ QueueOK(disk', hdr[Only], writes)
      /\ ~ disk'.spilled => ~ disk.spilled
  BY DEF Begins, Begun
<1>4. /\ disk \in Image /\ job \in [Handle -> Seq(Put)]
  BY <1>2 DEF HandlesTypeOK
<1>5. job' \in [Handle -> Seq(Put)] /\ job'[Only] = writes
  BY <1>1, <1>2, <1>3, <1>4
<1>6. HandlesTypeOK'
  BY <1>1, <1>2, <1>3, <1>5 DEF HandlesTypeOK
<1>7. ~ disk'.spilled => Sound(disk', hdr[Only], writes, kept)
  BY <1>2, <1>3, <1>4, BegunIsSound DEF Begins
<1> QED
  BY <1>1, <1>3, <1>5, <1>6, <1>7 DEF HandlesInv

(* A store begins with its writes. *)
LEMMA StoreIsBegun ==
    ASSUME OneHandle, HandlesInv, Store(Only)
    PROVE  \E writes : Begins(writes)
<1>1. PICK path \in Path, rec \in Storable : BeginStore(Only, path, rec)
  BY DEF Store
<1>2. /\ Begin(Only, StoreWrites(Only, path, rec))
      /\ disk' = [disk EXCEPT !.spilled = @ \/ hdr[Only]["binsRemain"] <= 0]
  BY <1>1 DEF BeginStore
<1>3. HandlesTypeOK /\ disk \in Image
  BY DEF HandlesInv, HandlesTypeOK
<1>4. disk' = [hdr |-> disk.hdr, hash |-> disk.hash, cells |-> disk.cells,
               spilled |-> disk.spilled \/ hdr[Only]["binsRemain"] <= 0]
  BY <1>2, <1>3, OtherParts
<1>5. /\ disk.hdr \in Header /\ disk.hash \in [0..MaxHash-1 -> Nat]
      /\ disk.cells \in Seq(Cell)
      /\ (disk.spilled \/ hdr[Only]["binsRemain"] <= 0) \in BOOLEAN
  BY <1>3, ImageFields
<1>6. /\ disk'.hdr = disk.hdr /\ disk'.cells = disk.cells /\ disk'.hash = disk.hash
      /\ disk'.spilled = (disk.spilled \/ hdr[Only]["binsRemain"] <= 0)
      /\ disk' \in Image
  BY <1>4, <1>5 DEF Image
<1>7. Begun(disk, kept, disk', hdr[Only], StoreWrites(Only, path, rec))
  BY <1>3, <1>6, StoreBegins
<1> QED
  BY <1>2, <1>7 DEF Begins

(* So does an alias_add. *)
LEMMA AliasIsBegun ==
    ASSUME OneHandle, HandlesInv, Alias(Only)
    PROVE  \E writes : Begins(writes)
<1>1. PICK primary \in Path, alias \in Path : BeginAlias(Only, primary, alias)
  BY DEF Alias
<1> DEFINE found == disk.cells[FindRecord(disk, primary)]
           writes == EntryWrites(Only, Entry(alias, "ALIAS", found.info, found.type))
                     \o <<PutHeader("numberAliases", 0, Empty)>>
<1>2. FindRecord(disk, primary) # 0 /\ Begin(Only, writes) /\ disk' = disk
  BY <1>1 DEF BeginAlias
<1>3. HandlesTypeOK
  BY DEF HandlesInv
<1>4. Begun(disk, kept, disk, hdr[Only], writes)
  BY <1>2, <1>3, AliasBegins
<1> HIDE DEF writes
<1> QED
  BY <1>2, <1>4 DEF Begins

(* So do a delete, an alias_remove and an undelete. *)
LEMMA MarkIsBegun ==
    ASSUME OneHandle, HandlesInv, Mark(Only)
    PROVE  \E writes : Begins(writes)
<1>1. PICK path \in Path : \/ BeginDelete(Only, path) \/ BeginUndelete(Only, path)
                           \/ BeginAliasRemove(Only, path)
  BY DEF Mark
<1>2. HandlesTypeOK /\ disk \in Image
  BY DEF HandlesInv, HandlesTypeOK
<1>3. {"numberDeletes", "numberAliasDeletes"} \subseteq Counter
      /\ {"DELETED", "PRIMARY", "ALIAS_DELETED"} \subseteq Status
  BY DEF Counter, Status
<1>4. \A status : SlotWith(path, status) # 0
                    => HasTag(disk, SlotWith(path, status), "entry")
  BY DEF SlotWith
<1>5. CASE BeginDelete(Only, path)
  <2> DEFINE slot == FindRecord(disk, path)
             writes == <<PutStatus(slot, "DELETED"), PutHeader("numberDeletes", 0, Empty)>>
  <2>1. slot # 0 /\ Begin(Only, writes) /\ disk' = disk
    BY <1>5 DEF BeginDelete
  <2>2. HasTag(disk, slot, "entry")
    BY <1>2, <2>1, FoundRecord
  <2>3. Begun(disk, kept, disk, hdr[Only], writes)
    BY <1>2, <1>3, <2>2, MarkBegins
  <2> HIDE DEF writes
  <2> QED
    BY <2>1, <2>3 DEF Begins
<1>6. CASE BeginUndelete(Only, path)
  <2> DEFINE slot == SlotWith(path, "DELETED")
             writes == <<PutStatus(slot, "PRIMARY")>>
  <2>1. slot # 0 /\ Begin(Only, writes) /\ disk' = disk
    BY <1>6 DEF BeginUndelete
  <2>2. HasTag(disk, slot, "entry")
    BY <1>4, <2>1
  <2>3. Begun(disk, kept, disk, hdr[Only], writes)
    BY <1>2, <1>3, <2>2, MarkBegins
  <2> HIDE DEF writes
  <2> QED
    BY <2>1, <2>3 DEF Begins
<1>7. CASE BeginAliasRemove(Only, path)
  <2> DEFINE slot == SlotWith(path, "ALIAS")
             writes == <<PutStatus(slot, "ALIAS_DELETED"),
                         PutHeader("numberAliasDeletes", 0, Empty)>>
  <2>1. slot # 0 /\ Begin(Only, writes) /\ disk' = disk
    BY <1>7 DEF BeginAliasRemove
  <2>2. HasTag(disk, slot, "entry")
    BY <1>4, <2>1
  <2>3. Begun(disk, kept, disk, hdr[Only], writes)
    BY <1>2, <1>3, <2>2, MarkBegins
  <2> HIDE DEF writes
  <2> QED
    BY <2>1, <2>3 DEF Begins
<1> QED
  BY <1>1, <1>5, <1>6, <1>7

(* Nothing waits in an empty queue. *)
LEMMA EmptyQueue ==
    ASSUME NEW f, NEW hd
    PROVE  QueueOK(f, hd, << >>) /\ WritesAreSafe(f, hd, << >>)
  BY DEF QueueOK, InOrder, SlotIsFree, StatusOfEntry, HeaderCounts, Waiting,
         WritesAreSafe

(* A header torn anywhere but between BINS_REMAIN and ADD_NEXT_EMPTY_BIN has
   both old or both new, and both new only with the new FILE_SIZE. *)
LEMMA TornWords ==
    ASSUME OneHandle, HandlesTypeOK, NEW put, put.size \in Nat, put.count \in Counter,
           NEW n \in TornAt, n # 7
    PROVE  LET closed == Closed(Only, put)
               torn   == Torn(Only, put, n)
           IN  /\ torn \in Header
               /\ torn["fileSize"] \in {disk.hdr["fileSize"], closed["fileSize"]}
               /\ \/ /\ torn["nextBin"] = disk.hdr["nextBin"]
                     /\ torn["binsRemain"] = disk.hdr["binsRemain"]
                     /\ torn["totalBins"] = disk.hdr["totalBins"]
                  \/ /\ torn["nextBin"] = closed["nextBin"]
                     /\ torn["binsRemain"] = closed["binsRemain"]
                     /\ torn["fileSize"] = closed["fileSize"]
                     /\ torn["totalBins"] \in {disk.hdr["totalBins"], closed["totalBins"]}
<1> DEFINE closed == Closed(Only, put)
           torn   == Torn(Only, put, n)
           old    == disk.hdr
           Done(w) == \E i \in 1..n : HeaderOrder[i] = w
<1>1. closed \in [HeaderWord -> Nat] /\ old \in [HeaderWord -> Nat]
  BY ClosedWords, ImageFields DEF HandlesTypeOK, Header
<1>2. n \in 0..10 /\ n # 7
  BY HandleAssumption
<1>3. torn = [w \in HeaderWord |-> IF Done(w) THEN closed[w] ELSE old[w]]
  BY DEF Torn
<1>4. /\ Done("binsRemain") <=> n >= 7
      /\ Done("nextBin") <=> n >= 8
      /\ Done("fileSize") <=> n >= 3
      /\ Done("totalBins") <=> n >= 9
  <2>1. /\ HeaderOrder[1] = "numberRecords" /\ HeaderOrder[2] = "numberAliases"
        /\ HeaderOrder[3] = "fileSize" /\ HeaderOrder[4] = "numberDeletes"
        /\ HeaderOrder[5] = "numberAliasDeletes" /\ HeaderOrder[6] = "hashsUsed"
        /\ HeaderOrder[7] = "binsRemain" /\ HeaderOrder[8] = "nextBin"
        /\ HeaderOrder[9] = "totalBins" /\ HeaderOrder[10] = "binsOverflow"
    BY DEF HeaderOrder
  <2>2. \A i \in 1..n : i \in {1, 2, 3, 4, 5, 6, 7, 8, 9, 10}
    BY <1>2
  <2>3. \A i \in 1..n : /\ HeaderOrder[i] = "binsRemain" => i = 7
                        /\ HeaderOrder[i] = "nextBin" => i = 8
                        /\ HeaderOrder[i] = "fileSize" => i = 3
                        /\ HeaderOrder[i] = "totalBins" => i = 9
    BY <2>1, <2>2
  <2>4. /\ n >= 7 => 7 \in 1..n
        /\ n >= 8 => 8 \in 1..n
        /\ n >= 3 => 3 \in 1..n
        /\ n >= 9 => 9 \in 1..n
        /\ 9 \in 1..n => n >= 9
        /\ 7 \in 1..n => n >= 7
        /\ 8 \in 1..n => n >= 8
        /\ 3 \in 1..n => n >= 3
    BY <1>2
  <2> QED
    BY <2>1, <2>3, <2>4
<1> HIDE DEF closed, torn, old, Done
<1>5. torn \in [HeaderWord -> Nat]
  BY <1>1, <1>3
<1>6. \A w \in {"binsRemain", "nextBin", "fileSize", "totalBins"} :
         torn[w] = IF Done(w) THEN closed[w] ELSE old[w]
  BY <1>3 DEF HeaderWord
<1> QED
  BY <1>2, <1>4, <1>5, <1>6 DEF closed, torn, old, Header

\* The operation has ended at one of its writes, or the file is opened again.
BrokeOff ==
    /\ \E closed, torn : Broken(disk, hdr[Only], closed, torn, disk', hdr'[Only])
    /\ hdr' = [hdr EXCEPT ![Only] = hdr'[Only]]
    /\ job'[Only] = << >> /\ job' \in [Handle -> Seq(Put)]
    /\ kept' = kept /\ settled' \in Image /\ faults' \in 0..MaxFaults

(* What an error or a crash in an operation leaves. *)
LEMMA BreakOffLeaves ==
    ASSUME OneHandle, 7 \notin TornAt, HandlesInv, BreakOff(Only),
           hdr' = [hdr EXCEPT ![Only] = hdr'[Only]],
           \/ /\ Head(job[Only]).do = "header"
              /\ hdr'[Only] = Closed(Only, Head(job[Only]))
           \/ /\ Head(job[Only]).do # "header" /\ hdr'[Only] = hdr[Only]
           \/ hdr'[Only] = disk'.hdr
    PROVE  BrokeOff
<1> DEFINE put == Head(job[Only])
           q == job[Only]
           hd == hdr[Only]
           new == hdr'[Only]
<1>1. /\ Only \in Handle /\ HandlesTypeOK /\ QueueOK(disk, hd, q)
      /\ ~ disk.spilled => Sound(disk, hd, q, kept)
  BY DEF HandlesInv, OneHandle
<1>2. /\ disk \in Image /\ disk.hdr \in Header /\ hdr \in [Handle -> Header]
      /\ job \in [Handle -> Seq(Put)] /\ faults \in 0..MaxFaults
      /\ disk.hash \in [0..MaxHash-1 -> Nat] /\ disk.cells \in Seq(Cell)
      /\ disk.spilled \in BOOLEAN
  BY <1>1, ImageFields DEF HandlesTypeOK
<1>3. /\ q # << >> /\ faults < MaxFaults /\ faults' = faults + 1
      /\ job' = [job EXCEPT ![Only] = << >>]
      /\ settled' = NewFile /\ kept' = kept
  BY DEF BreakOff, Idle
<1>4. /\ q \in Seq(Put) /\ hd \in Header
      /\ put \in Put /\ put = q[1] /\ 1 \in 1..Len(q)
  BY <1>1, <1>2, <1>3, QueueTail
<1>5. \E closed, torn : Broken(disk, hd, closed, torn, disk', new)
  <2>1. disk = [hdr |-> disk.hdr, hash |-> disk.hash, cells |-> disk.cells,
                spilled |-> disk.spilled]
    BY <1>2 DEF Image
  <2>2. \A h \in Header : h["fileSize"] \in Nat
    BY DEF Header, HeaderWord
  <2>3. CASE put.do = "header"
    <3>1. put.size \in Nat /\ put.count \in Counter
      BY <1>1, <1>4, <2>3, PutTypes DEF QueueOK, HeaderCounts
    <3> DEFINE closed == Closed(Only, put)
    <3>2. /\ closed \in Header
          /\ closed["nextBin"] = hd["nextBin"]
          /\ closed["binsRemain"] = hd["binsRemain"]
          /\ closed["totalBins"] = hd["totalBins"]
          /\ closed["fileSize"] = IF put.size = 0 THEN hd["fileSize"] ELSE put.size
      BY <1>1, <3>1, ClosedWords
    <3>3. ~ disk.spilled => closed["fileSize"] >= hd["fileSize"]
      <4>1. CASE put.path \in Path
        <5>1. ~ disk.spilled => put.size > hd["fileSize"]
          BY <1>1, <1>4, <2>3, <4>1 DEF Sound, WritesAreSafe, Storing
        <5> QED
          BY <1>4, <2>2, <3>1, <3>2, <5>1
      <4>2. CASE put.path \notin Path
        <5>1. put.size = 0
          BY <1>1, <1>4, <2>3, <4>2 DEF QueueOK, HeaderCounts
        <5> QED
          BY <1>4, <2>2, <3>2, <5>1
      <4> QED
        BY <4>1, <4>2
    <3>4. CASE disk' = disk
      <4>1. new \in {closed, disk.hdr}
        BY <2>3, <3>4
      <4> HIDE DEF closed, new, hd, q
      <4>2. disk' = [hdr |-> disk.hdr, hash |-> disk.hash, cells |-> disk.cells,
                     spilled |-> disk.spilled]
        BY <2>1, <3>4
      <4>3. Broken(disk, hd, closed, disk.hdr, disk', new)
        BY <1>2, <3>2, <3>3, <4>1, <4>2 DEF Broken
      <4> QED
        BY <4>3
    <3>5. CASE \E n \in TornAt : disk' = [disk EXCEPT !.hdr = Torn(Only, put, n)]
      <4>1. PICK n \in TornAt : disk' = [disk EXCEPT !.hdr = Torn(Only, put, n)]
        BY <3>5
      <4> DEFINE torn == Torn(Only, put, n)
      <4>2. disk' = [hdr |-> torn, hash |-> disk.hash, cells |-> disk.cells,
                     spilled |-> disk.spilled]
        BY <1>2, <4>1, OtherParts
      <4>3. disk'.hdr = torn
        BY <4>2
      <4>4. new \in {closed, torn}
        BY <2>3, <4>3
      <4>5. /\ torn \in Header
            /\ torn["fileSize"] \in {disk.hdr["fileSize"], closed["fileSize"]}
            /\ \/ /\ torn["nextBin"] = disk.hdr["nextBin"]
                  /\ torn["binsRemain"] = disk.hdr["binsRemain"]
                  /\ torn["totalBins"] = disk.hdr["totalBins"]
               \/ /\ torn["nextBin"] = closed["nextBin"]
                  /\ torn["binsRemain"] = closed["binsRemain"]
                  /\ torn["fileSize"] = closed["fileSize"]
                  /\ torn["totalBins"] \in {disk.hdr["totalBins"], closed["totalBins"]}
        BY <1>1, <3>1, TornWords
      <4> HIDE DEF closed, torn, new, hd, q
      <4>6. Broken(disk, hd, closed, torn, disk', new)
        BY <3>2, <3>3, <4>2, <4>4, <4>5 DEF Broken
      <4> QED
        BY <4>6
    <3> QED
      BY <3>4, <3>5 DEF BreakOff
  <2>4. CASE put.do # "header"
    <3>1. disk' = disk
      BY <2>4 DEF BreakOff
    <3>2. new \in {hd, disk.hdr}
      BY <2>4, <3>1
    <3>3. hd["fileSize"] >= hd["fileSize"]
      BY <1>4, <2>2
    <3>4. hd \in Header /\ disk.hdr \in Header
      BY <1>2, <1>4
    <3> HIDE DEF new, hd, q
    <3>5. disk' = [hdr |-> disk.hdr, hash |-> disk.hash, cells |-> disk.cells,
                   spilled |-> disk.spilled]
      BY <2>1, <3>1
    <3>6. Broken(disk, hd, hd, disk.hdr, disk', new)
      BY <3>2, <3>3, <3>4, <3>5 DEF Broken
    <3> QED
      BY <3>6
  <2> QED
    BY <2>3, <2>4
<1>6. job'[Only] = << >> /\ job' \in [Handle -> Seq(Put)]
  <2>1. << >> \in Seq(Put)
    OBVIOUS
  <2> QED
    BY <1>1, <1>2, <1>3, <2>1
<1>7. hdr' = [hdr EXCEPT ![Only] = hdr'[Only]] /\ settled' \in Image /\ faults' \in 0..MaxFaults
  <2>1. MaxFaults \in Nat
    BY HandleAssumption
  <2> QED
    BY <1>2, <1>3, <2>1, NewFileType
<1> QED
  BY <1>3, <1>5, <1>6, <1>7 DEF BrokeOff

(* It is in order again. *)
LEMMA BrokeOffKeeps ==
    ASSUME OneHandle, HandlesInv, BrokeOff
    PROVE  HandlesInv'
<1> DEFINE q == job[Only]
           hd == hdr[Only]
           new == hdr'[Only]
<1>1. /\ Only \in Handle /\ HandlesTypeOK
      /\ ~ disk.spilled => Sound(disk, hd, q, kept)
  BY DEF HandlesInv, OneHandle
<1>2. /\ disk \in Image /\ disk.hdr \in Header /\ hdr \in [Handle -> Header]
      /\ hd \in Header /\ disk.hash \in [0..MaxHash-1 -> Nat]
      /\ disk.cells \in Seq(Cell) /\ disk.spilled \in BOOLEAN
  BY <1>1, ImageFields DEF HandlesTypeOK
<1>3. /\ hdr' = [hdr EXCEPT ![Only] = new]
      /\ job'[Only] = << >> /\ job' \in [Handle -> Seq(Put)]
      /\ kept' = kept /\ settled' \in Image /\ faults' \in 0..MaxFaults
  BY DEF BrokeOff
<1> HIDE DEF q, hd, new
<1>4. PICK closed, torn : Broken(disk, hd, closed, torn, disk', new)
  BY DEF BrokeOff, hd, new
<1>5. disk' \in Image /\ disk'.spilled = disk.spilled
  BY <1>2, <1>4 DEF Image, Broken
<1>6. ~ disk'.spilled => Sound(disk', new, << >>, kept)
  BY <1>1, <1>2, <1>4, <1>5, BrokenOff
<1>7. new \in Header /\ hdr' \in [Handle -> Header]
  <2>1. new \in Header
    BY <1>4 DEF Broken
  <2> QED
    BY <1>1, <1>2, <1>3, <2>1
<1>8. HandlesTypeOK'
  BY <1>1, <1>3, <1>5, <1>7 DEF HandlesTypeOK
<1>9. QueueOK(disk', new, << >>)
  BY EmptyQueue
<1> QED
  BY <1>3, <1>6, <1>8, <1>9 DEF HandlesInv, new

(* A write fails. *)
LEMMA FailBreaksOff ==
    ASSUME OneHandle, 7 \notin TornAt, HandlesInv, Fail(Only)
    PROVE  BrokeOff
<1> DEFINE put == Head(job[Only])
           new == IF put.do = "header" THEN Closed(Only, put) ELSE hdr[Only]
<1>1. Only \in Handle /\ hdr \in [Handle -> Header]
  BY DEF HandlesInv, HandlesTypeOK, OneHandle
<1>2. BreakOff(Only) /\ hdr' = [hdr EXCEPT ![Only] = new]
  BY DEF Fail
<1>3. hdr'[Only] = new
  BY <1>1, <1>2
<1>4. \/ put.do = "header" /\ hdr'[Only] = Closed(Only, put)
      \/ put.do # "header" /\ hdr'[Only] = hdr[Only]
  BY <1>3
<1>5. hdr' = [hdr EXCEPT ![Only] = hdr'[Only]]
  BY <1>2, <1>3
<1> QED
  BY <1>2, <1>4, <1>5, BreakOffLeaves

(* The process dies. *)
LEMMA CrashBreaksOff ==
    ASSUME OneHandle, 7 \notin TornAt, HandlesInv, Crash(Only)
    PROVE  BrokeOff
<1>1. Only \in Handle /\ hdr \in [Handle -> Header]
  BY DEF HandlesInv, HandlesTypeOK, OneHandle
<1>2. BreakOff(Only) /\ hdr' = [hdr EXCEPT ![Only] = disk'.hdr]
  BY DEF Crash
<1>3. hdr'[Only] = disk'.hdr
  BY <1>1, <1>2
<1>4. hdr' = [hdr EXCEPT ![Only] = hdr'[Only]]
  BY <1>2, <1>3
<1> QED
  BY <1>2, <1>3, <1>4, BreakOffLeaves

(* The file is opened again between two operations. *)
LEMMA ReopenBreaksOff ==
    ASSUME OneHandle, HandlesInv, Reopen(Only)
    PROVE  BrokeOff
<1> DEFINE hd == hdr[Only]
<1>1. /\ Only \in Handle /\ HandlesTypeOK /\ disk \in Image /\ hdr \in [Handle -> Header]
      /\ ~ disk.spilled => Sound(disk, hd, job[Only], kept)
  BY DEF HandlesInv, HandlesTypeOK, OneHandle
<1>2. /\ job[Only] = << >> /\ hdr' = [hdr EXCEPT ![Only] = disk.hdr]
      /\ disk' = disk /\ job' = job /\ faults' = faults
      /\ kept' = kept /\ settled' = settled
  BY DEF Reopen, Idle, ghosts
<1>3. /\ disk.hdr \in Header /\ hd \in Header /\ hd["fileSize"] \in Nat
      /\ disk = [hdr |-> disk.hdr, hash |-> disk.hash, cells |-> disk.cells,
                 spilled |-> disk.spilled]
  BY <1>1 DEF Image, Header, HeaderWord
<1>4. hdr'[Only] = disk.hdr /\ hdr' \in [Handle -> Header]
  BY <1>1, <1>2, <1>3
<1>5. Broken(disk, hd, hd, disk.hdr, disk, disk.hdr)
  BY <1>3 DEF Broken
<1>6. /\ job' \in [Handle -> Seq(Put)] /\ settled' \in Image
      /\ faults' \in 0..MaxFaults
  BY <1>1, <1>2 DEF HandlesTypeOK
<1> QED
  BY <1>2, <1>4, <1>5, <1>6 DEF BrokeOff

(* A new file and a handle on it. *)
LEMMA InitHolds ==
    ASSUME OneHandle, Init
    PROVE  HandlesInv
<1>1. Only \in Handle /\ NewFile \in Image
  BY NewFileType DEF OneHandle
<1>2. /\ disk = NewFile /\ hdr = [h \in Handle |-> NewFile.hdr]
      /\ job = [h \in Handle |-> << >>] /\ faults = 0
      /\ kept = [path \in Path |-> NoRecord] /\ settled = NewFile
  BY DEF Init
<1>3. NewFile.hdr \in Header
  BY <1>1, ImageFields
<1>4. hdr[Only] = NewFile.hdr /\ job[Only] = << >>
  BY <1>1, <1>2
<1>5. << >> \in Seq(Put)
  OBVIOUS
<1>6. 0 \in 0..MaxFaults
  BY HandleAssumption
<1>7. HandlesTypeOK
  BY <1>1, <1>2, <1>3, <1>5, <1>6 DEF HandlesTypeOK
<1>8. Apart(NewFile.hdr)
  <2>1. /\ NewFile.hdr["nextBin"] = 1 /\ NewFile.hdr["binsRemain"] = BinsPerBlock
        /\ NewFile.hdr["fileSize"] = 1 + BlockSize
    BY DEF NewFile, HeaderWord, FirstBin
  <2>2. BinsPerBlock * BinSize \in Nat /\ BlockSize = BinsPerBlock * BinSize + 1
    BY ImageAssumption DEF BlockSize
  <2> QED
    BY <2>1, <2>2 DEF Apart, LastFree
<1>9. \A path \in Path : kept[path] = NoRecord
  BY <1>2
<1>10. Sound(disk, hdr[Only], job[Only], kept)
  <2>1. NewFile.hdr["fileSize"] <= NewFile.hdr["fileSize"]
    BY <1>3 DEF Header, HeaderWord
  <2>2. KeptIn(disk, kept, NewFile.hdr) /\ Durable(disk, kept)
    BY <1>9 DEF KeptIn, Durable
  <2>3. WritesAreSafe(disk, hdr[Only], job[Only])
    BY <1>4, EmptyQueue
  <2> QED
    BY <1>2, <1>4, <1>8, <2>1, <2>2, <2>3 DEF Sound
<1>11. QueueOK(disk, hdr[Only], job[Only])
  BY <1>4, EmptyQueue
<1> QED
  BY <1>7, <1>10, <1>11 DEF HandlesInv

(* The invariant is inductive. *)
LEMMA HandlesInvHolds ==
    ASSUME OneHandle, 7 \notin TornAt
    PROVE  Spec => []HandlesInv
<1>1. Init => HandlesInv
  BY InitHolds
<1>2. HandlesInv /\ [Next]_vars => HandlesInv'
  <2> SUFFICES ASSUME HandlesInv, [Next]_vars PROVE HandlesInv'
    OBVIOUS
  <2>1. CASE UNCHANGED vars
    BY <2>1 DEF vars, ghosts, HandlesInv, HandlesTypeOK
  <2>2. CASE Next
    <3>1. PICK h \in Handle :
             Store(h) \/ Alias(h) \/ Mark(h) \/ Write(h) \/ Fail(h) \/ Crash(h) \/ Reopen(h)
      BY <2>2 DEF Next
    <3>2. h = Only
      BY DEF OneHandle
    <3>3. CASE Store(h)
      BY <3>2, <3>3, StoreIsBegun, BeginKeeps
    <3>4. CASE Alias(h)
      BY <3>2, <3>4, AliasIsBegun, BeginKeeps
    <3>5. CASE Mark(h)
      BY <3>2, <3>5, MarkIsBegun, BeginKeeps
    <3>6. CASE Write(h)
      BY <3>2, <3>6, WriteKeepsInv
    <3>7. CASE Fail(h)
      BY <3>2, <3>7, FailBreaksOff, BrokeOffKeeps
    <3>8. CASE Crash(h)
      BY <3>2, <3>8, CrashBreaksOff, BrokeOffKeeps
    <3>9. CASE Reopen(h)
      BY <3>2, <3>9, ReopenBreaksOff, BrokeOffKeeps
    <3> QED
      BY <3>1, <3>3, <3>4, <3>5, <3>6, <3>7, <3>8, <3>9
  <2> QED
    BY <2>1, <2>2
<1> QED
  BY <1>1, <1>2, PTL DEF Spec

(* The variables have their types: whatever is written, whatever fails, a    *)
(* handle never takes a slot from a block that has none left.                *)
THEOREM HandlesTypeCorrect ==
    ASSUME OneHandle, 7 \notin TornAt
    PROVE  Spec => []HandlesTypeOK
<1>1. HandlesInv => HandlesTypeOK
  BY DEF HandlesInv
<1> QED
  BY <1>1, HandlesInvHolds, PTL

(* A name that is found through the entry of a completed store reads that    *)
(* record ever after, for the process that stored it and for the one that    *)
(* opens the file next, whatever failed or died between two writes.          *)
THEOREM StoresStayDurable ==
    ASSUME OneHandle, 7 \notin TornAt
    PROVE  Spec => []StoresAreDurable
<1>1. HandlesInv => StoresAreDurable
  BY DEF HandlesInv, Sound, Durable, StoresAreDurable
<1> QED
  BY <1>1, HandlesInvHolds, PTL

-----------------------------------------------------------------------------
(* Without faults the writes of one handle add up to the operations of     *)
(* NativeDss.                                                              *)

\* The records that the write functions make of what callers give them.
Writable ==
    UNION {
        {TextRecord(v), TextRecord(Empty), TsRecord(v, "units"),
         TsIrregularRecord(v), PdRecord("ordinates", v, "units", "labels"),
         PdRecord("ordinates", v, "units", Empty), LocationRecord(v, "supplemental"),
         LocationRecord(v, Empty), GridRecord(v)}
          \cup {ArrayRecord(present, v) :
                    present \in (SUBSET {"v1", "v2", "v3"}) \ {{}}} : v \in Value}

\* The entry of a name that has a status, as alias_remove and undelete find it.
StatusSlot(f, path, status) ==
    LET slot == HashSlot(f, path)
    IN  IF /\ HasTag(f, slot, "entry")
           /\ PathHash[f.cells[slot].path] = PathHash[path]
           /\ f.cells[slot].status = status
        THEN slot ELSE 0

\* The operations on a file, each as one change.
DoesStore(f, g, path, rec) ==
    f.hdr["totalBins"] < MaxBins /\ g = StoreRecord(f, path, rec)

DoesAlias(f, g, primary, alias) ==
    LET slot  == FindRecord(f, primary)
        found == f.cells[slot]
    IN  /\ f.hdr["totalBins"] < MaxBins /\ slot # 0
        /\ g = Count(EnterBin(f, Entry(alias, "ALIAS", found.info, found.type)),
                     "numberAliases")

DoesMark(f, g, path) ==
    LET found   == FindRecord(f, path)
        alias   == StatusSlot(f, path, "ALIAS")
        deleted == StatusSlot(f, path, "DELETED")
    IN  \/ /\ found # 0 /\ f.hdr["numberDeletes"] < MaxDeletes
           /\ g = Count(SetStatus(f, found, "DELETED"), "numberDeletes")
        \/ /\ alias # 0 /\ f.hdr["numberAliasDeletes"] < MaxDeletes
           /\ g = Count(SetStatus(f, alias, "ALIAS_DELETED"), "numberAliasDeletes")
        \/ deleted # 0 /\ g = SetStatus(f, deleted, "PRIMARY")

Does(f, g) ==
    \/ \E path \in Path, rec \in Storable : DoesStore(f, g, path, rec)
    \/ \E primary, alias \in Path : DoesAlias(f, g, primary, alias)
    \/ \E path \in Path : DoesMark(f, g, path)

(* A mark is a change of the status of an entry. *)
LEMMA MarkIsMarked ==
    ASSUME NEW f \in Image, NEW g, NEW path \in Path, DoesMark(f, g, path)
    PROVE  Marked(f, g)
<1>1. {"DELETED", "ALIAS_DELETED", "PRIMARY"} \subseteq Status
  BY DEF Status
<1>2. \A status : StatusSlot(f, path, status) # 0
                    => HasTag(f, StatusSlot(f, path, status), "entry")
  BY DEF StatusSlot
<1>3. FindRecord(f, path) # 0 => HasTag(f, FindRecord(f, path), "entry")
  BY FoundRecord
<1>4. \A slot : HasTag(f, slot, "entry") => slot \in DOMAIN f.cells
  BY DEF HasTag
<1> QED
  BY <1>1, <1>2, <1>3, <1>4 DEF DoesMark, Marked

(* They are changes as DssImageProofs knows them. *)
LEMMA DoesIsChange ==
    ASSUME NEW f \in Image, NEW g, Does(f, g)
    PROVE  Change(f, g)
<1>1. ASSUME NEW path \in Path, NEW rec \in Storable, DoesStore(f, g, path, rec)
      PROVE  Change(f, g)
  BY <1>1, HandleAssumption DEF DoesStore, Change, Stored
<1>2. ASSUME NEW primary \in Path, NEW alias \in Path, DoesAlias(f, g, primary, alias)
      PROVE  Change(f, g)
  <2> DEFINE slot == FindRecord(f, primary)
  <2>1. slot \in DOMAIN f.cells /\ HasTag(f, slot, "entry")
    BY <1>2, FoundRecord DEF DoesAlias, HasTag
  <2> HIDE DEF slot
  <2>2. g = Count(EnterBin(f, Entry(alias, "ALIAS", f.cells[slot].info,
                                    f.cells[slot].type)), "numberAliases")
    BY <1>2 DEF DoesAlias, slot
  <2> QED
    BY <2>1, <2>2 DEF Change, Aliased
<1>3. ASSUME NEW path \in Path, DoesMark(f, g, path)
      PROVE  Change(f, g)
  BY <1>3, MarkIsMarked DEF Change
<1> QED
  BY <1>1, <1>2, <1>3 DEF Does

(* NativeDss means by a cell, a record and a place what DssImage means. *)
LEMMA SameNotions ==
    /\ Atomic!Area = Area /\ Atomic!Empty = Empty
    /\ Atomic!Zero = Zero /\ Atomic!EofFlag = EofFlag
    /\ Atomic!BlockSize = BlockSize /\ Atomic!FirstBin = FirstBin
    /\ \A c, base : Atomic!Layout(base, c) = Layout(base, c) /\ Atomic!Size(c) = Size(c)
    /\ \A p, t, a : Atomic!Info(p, t, a) = Info(p, t, a)
    /\ \A p, s, a, t : Atomic!Entry(p, s, a, t) = Entry(p, s, a, t)
    /\ \A a : Atomic!Ptr(a) = Ptr(a) /\ Atomic!Data(a) = Data(a)
    /\ \A c, e : Atomic!Extent(c, e) = Extent(c, e)
    /\ \A c, i : Atomic!CellAt(c, i) = CellAt(c, i)
    /\ \A f, a, t : Atomic!HasTag(f, a, t) = HasTag(f, a, t)
<1>1. /\ Atomic!Area = Area /\ Atomic!Empty = Empty
      /\ Atomic!Zero = Zero /\ Atomic!EofFlag = EofFlag
      /\ Atomic!BlockSize = BlockSize /\ Atomic!FirstBin = FirstBin
  BY DEF Atomic!Area, Area, Atomic!Empty, Empty, Atomic!Zero, Zero, Atomic!EofFlag,
     EofFlag, Atomic!BlockSize, BlockSize, Atomic!FirstBin, FirstBin
<1>2. \A c, a : Atomic!Present(c, a) = Present(c, a)
  BY <1>1 DEF Atomic!Present, Present
<1>3. \A c, a : Atomic!Offset(c, a) = Offset(c, a)
  BY <1>2 DEF Atomic!Offset, Offset
<1>4. \A c, base : Atomic!Layout(base, c) = Layout(base, c) /\ Atomic!Size(c) = Size(c)
  BY <1>1, <1>2, <1>3 DEF Atomic!Layout, Layout, Atomic!Size, Size
<1>5. /\ \A p, t, a : Atomic!Info(p, t, a) = Info(p, t, a)
      /\ \A p, s, a, t : Atomic!Entry(p, s, a, t) = Entry(p, s, a, t)
      /\ \A a : Atomic!Ptr(a) = Ptr(a) /\ Atomic!Data(a) = Data(a)
  BY DEF Atomic!Info, Info, Atomic!Entry, Entry, Atomic!Ptr, Ptr, Atomic!Data, Data
<1>6. /\ \A c, e : Atomic!Extent(c, e) = Extent(c, e)
      /\ \A c, i : Atomic!CellAt(c, i) = CellAt(c, i)
  BY <1>1 DEF Atomic!Extent, Extent, Atomic!CellAt, CellAt
<1>7. \A f, a, t : Atomic!HasTag(f, a, t) = HasTag(f, a, t)
  BY DEF Atomic!HasTag, HasTag
<1> QED
  BY <1>1, <1>4, <1>5, <1>6, <1>7

(* ... and by its operations. *)
LEMMA SameOperations ==
    /\ Atomic!NewFile = NewFile
    /\ \A f, p, r : Atomic!StoreRecord(f, p, r) = StoreRecord(f, p, r)
    /\ \A f, e : Atomic!EnterBin(f, e) = EnterBin(f, e)
    /\ \A f, w : Atomic!Count(f, w) = Count(f, w)
    /\ \A f, s, t : Atomic!SetStatus(f, s, t) = SetStatus(f, s, t)
    /\ \A f, p : /\ Atomic!HashSlot(f, p) = HashSlot(f, p)
                 /\ Atomic!FindRecord(f, p) = FindRecord(f, p)
    /\ \A p, t : Atomic!SlotWith(p, t) = StatusSlot(settled, p, t)
<1>1. Atomic!NewFile = NewFile
  BY SameNotions DEF Atomic!NewFile, NewFile, Atomic!HeaderWord, HeaderWord
<1>2. \A c, base, p, r : Atomic!WriteRecord(c, base, p, r) = WriteRecord(c, base, p, r)
  BY DEF Atomic!WriteRecord, WriteRecord, Atomic!Layout, Layout, Atomic!Size, Size,
     Atomic!Offset, Offset, Atomic!Present, Present, Atomic!Empty, Empty,
     Atomic!Area, Area, Atomic!Info, Info, Atomic!Data, Data, Atomic!EofFlag, EofFlag,
     Atomic!Extent, Extent, Atomic!CellAt, CellAt, Atomic!Zero, Zero
<1>3. \A f : Atomic!AllocateNewBinBlock(f) = AllocateNewBinBlock(f)
  BY SameNotions DEF Atomic!AllocateNewBinBlock, AllocateNewBinBlock
<1>4. \A f, e : Atomic!TakeSlot(f, e) = TakeSlot(f, e)
  BY DEF Atomic!TakeSlot, TakeSlot
<1>5. \A f, e : Atomic!EnterBin(f, e) = EnterBin(f, e)
  BY <1>3, <1>4 DEF Atomic!EnterBin, EnterBin
<1>6. \A f, p, r : Atomic!StoreRecord(f, p, r) = StoreRecord(f, p, r)
  BY SameNotions, <1>2, <1>5
  DEF Atomic!StoreRecord, StoreRecord, Atomic!WriteBinEntry, WriteBinEntry
<1>7. \A f, w : Atomic!Count(f, w) = Count(f, w)
  BY DEF Atomic!Count, Count
<1>8. \A f, s, t : Atomic!SetStatus(f, s, t) = SetStatus(f, s, t)
  BY SameNotions DEF Atomic!SetStatus, SetStatus
<1>9. \A f, p : /\ Atomic!HashSlot(f, p) = HashSlot(f, p)
                /\ Atomic!FindRecord(f, p) = FindRecord(f, p)
  BY SameNotions DEF Atomic!HashSlot, HashSlot, Atomic!FindRecord, FindRecord
<1>10. \A p, t : Atomic!SlotWith(p, t) = StatusSlot(settled, p, t)
  BY SameNotions, <1>9 DEF Atomic!SlotWith, StatusSlot
<1> QED
  BY <1>1, <1>5, <1>6, <1>7, <1>8, <1>9, <1>10

(* ... and by the records that the write functions store. *)
LEMMA SameRecords ==
    /\ \A v : /\ Atomic!TextRecord(v) = TextRecord(v)
              /\ Atomic!TsIrregularRecord(v) = TsIrregularRecord(v)
              /\ Atomic!GridRecord(v) = GridRecord(v)
    /\ \A v, w : /\ Atomic!TsRecord(v, w) = TsRecord(v, w)
                 /\ Atomic!ArrayRecord(w, v) = ArrayRecord(w, v)
                 /\ Atomic!LocationRecord(v, w) = LocationRecord(v, w)
    /\ \A o, v, u, l : Atomic!PdRecord(o, v, u, l) = PdRecord(o, v, u, l)
<1>1. Atomic!NoArea = NoArea
  BY SameNotions DEF Atomic!NoArea, NoArea
<1> QED
  BY SameNotions, <1>1
  DEF Atomic!TextRecord, TextRecord, Atomic!TsRecord, TsRecord, Atomic!TsIrregularRecord,
      TsIrregularRecord, Atomic!PdRecord, PdRecord, Atomic!ArrayRecord, ArrayRecord,
      Atomic!LocationRecord, LocationRecord, Atomic!GridRecord, GridRecord,
      Atomic!TEXT, TEXT, Atomic!RTD, RTD, Atomic!ITD, ITD, Atomic!PDD, PDD,
      Atomic!ARRAY, ARRAY, Atomic!LOCATION, LOCATION, Atomic!GRID, GRID

(* NativeDss stores what its write functions make. *)
LEMMA WritableIsWritten ==
    ASSUME NEW path \in Path, NEW rec \in Writable, DoesStore(settled, settled', path, rec)
    PROVE  Atomic!Write
<1>1. PICK v \in Value :
         \/ \E text \in {v, Empty} : rec = TextRecord(text)
         \/ rec = TsRecord(v, "units")
         \/ rec = TsIrregularRecord(v)
         \/ \E labels \in {"labels", Empty} : rec = PdRecord("ordinates", v, "units", labels)
         \/ \E present \in SUBSET {"v1", "v2", "v3"} :
                present # {} /\ rec = ArrayRecord(present, v)
         \/ \E supplemental \in {"supplemental", Empty} : rec = LocationRecord(v, supplemental)
         \/ rec = GridRecord(v)
  BY DEF Writable
<1>2. Atomic!Store(path, rec)
  BY SameOperations DEF DoesStore, Atomic!Store, Atomic!Room
<1>3. \/ \E text \in {v, Empty} : Atomic!WriteText(path, text)
      \/ Atomic!WriteTs(path, v)
      \/ Atomic!WriteTsIrregular(path, v)
      \/ \E labels \in {"labels", Empty} : Atomic!WritePd(path, v, labels)
      \/ \E present \in SUBSET {"v1", "v2", "v3"} : Atomic!WriteArray(path, present, v)
      \/ \E supplemental \in {"supplemental", Empty} :
             Atomic!WriteLocation(path, v, supplemental)
      \/ Atomic!WriteGrid(path, v)
  BY <1>1, <1>2, SameRecords
  DEF Atomic!WriteText, Atomic!WriteTs, Atomic!WriteTsIrregular, Atomic!WritePd,
      Atomic!WriteArray, Atomic!WriteLocation, Atomic!WriteGrid
<1> QED
  BY <1>3, SameNotions DEF Atomic!Write

(* Each of the operations is one of NativeDss. *)
LEMMA DoesIsAtomic ==
    ASSUME Storable \subseteq Writable, Does(settled, settled')
    PROVE  Atomic!Next
<1>1. ASSUME NEW path \in Path, NEW rec \in Storable, DoesStore(settled, settled', path, rec)
      PROVE  Atomic!Next
  BY <1>1, WritableIsWritten DEF Atomic!Next
<1>2. ASSUME NEW primary \in Path, NEW alias \in Path,
             DoesAlias(settled, settled', primary, alias)
      PROVE  Atomic!Next
  <2>1. Atomic!AliasAdd(primary, alias)
    BY <1>2, SameNotions, SameOperations DEF DoesAlias, Atomic!AliasAdd, Atomic!Room
  <2> QED
    BY <2>1 DEF Atomic!Alias, Atomic!Next
<1>3. ASSUME NEW path \in Path, DoesMark(settled, settled', path)
      PROVE  Atomic!Next
  <2>1. Atomic!Delete(path) \/ Atomic!AliasRemove(path) \/ Atomic!Undelete(path)
    BY <1>3, SameOperations
    DEF DoesMark, Atomic!Delete, Atomic!AliasRemove, Atomic!Undelete
  <2> QED
    BY <2>1 DEF Atomic!Mark, Atomic!Next
<1> QED
  BY <1>1, <1>2, <1>3 DEF Does

\* The free slots, the word behind them and FILE_SIZE lie within the file.
Roomy(f) ==
    /\ f \in Image
    /\ f.hdr["nextBin"] > 0 /\ LastFree(f.hdr) <= Len(f.cells)
    /\ f.hdr["fileSize"] > 0 /\ f.hdr["fileSize"] <= Len(f.cells) + 1

(* They do in a file that got a new block of free slots, *)
LEMMA AllocateRoomy ==
    ASSUME NEW f, Roomy(f)
    PROVE  LET g == AllocateNewBinBlock(f)
           IN  Roomy(g) /\ Len(g.cells) >= Len(f.cells) /\ g.hdr["binsRemain"] > 0
<1> DEFINE g == AllocateNewBinBlock(f)
           start == f.hdr["fileSize"]
           end == start + BlockSize
           n == Extent(f.cells, end)
<1>1. /\ f \in Image /\ start \in Nat /\ start > 0 /\ f.cells \in Seq(Cell)
      /\ BlockSize \in Nat /\ BlockSize = BinsPerBlock * BinSize + 1
      /\ BinsPerBlock \in Nat \ {0} /\ BinsPerBlock * BinSize \in Nat
  BY ImageFields, BlockSizeType, ImageAssumption DEF Roomy, HeaderWord
<1>2. /\ g \in Image /\ g.hdr["nextBin"] = start /\ g.hdr["binsRemain"] = BinsPerBlock
      /\ g.hdr["fileSize"] = end
  BY <1>1, AllocateType, AllocateWords DEF HeaderWord
<1>3. n \in Nat /\ n >= Len(f.cells) /\ n >= end - 1
  BY <1>1 DEF Extent
<1>4. DOMAIN g.cells = 1..n
  BY DEF AllocateNewBinBlock
<1>5. g.cells \in Seq(Cell)
  BY <1>2, ImageFields
<1> HIDE DEF g, n
<1>6. Len(g.cells) = n
  BY <1>3, <1>4, <1>5, LenProperties
<1>7. LastFree(g.hdr) = start + BinsPerBlock * BinSize
  BY <1>2 DEF LastFree
<1> QED
  BY <1>1, <1>2, <1>3, <1>6, <1>7 DEF Roomy, g

(* Within the file an entry and a pointer are written in place. *)
LEMMA TakeRoomy ==
    ASSUME NEW f, Roomy(f), f.hdr["binsRemain"] > 0,
           NEW entry \in Cell, entry.tag = "entry"
    PROVE  LET g == TakeSlot(f, entry)
           IN  Roomy(g) /\ Len(g.cells) = Len(f.cells)
<1> DEFINE g == TakeSlot(f, entry)
           hd == f.hdr
<1>1. /\ f \in Image /\ hd \in Header /\ f.cells \in Seq(Cell)
      /\ hd["nextBin"] \in Nat /\ hd["binsRemain"] \in Nat /\ hd["fileSize"] \in Nat
  BY ImageFields, SlotPlaces DEF Roomy
<1>2. entry.path \in Path
  BY DEF Cell, Zero, EofFlag
<1>3. g \in Image
  BY <1>1, <1>2, TakeSlotType
<1>4. /\ g.hdr["nextBin"] = hd["nextBin"] + BinSize
      /\ g.hdr["binsRemain"] = hd["binsRemain"] - 1
      /\ g.hdr["fileSize"] = hd["fileSize"]
  BY <1>1, TakeSlotWords DEF HeaderWord
<1>5. g.cells = [f.cells EXCEPT ![hd["nextBin"]] = entry]
  BY DEF TakeSlot
<1> HIDE DEF g
<1>6. Len(g.cells) = Len(f.cells)
  BY <1>1, <1>5, SeqExcept
<1>7. LastFree(g.hdr) = LastFree(hd)
  <2>1. \A n \in Nat : (n - 1) * BinSize = n * BinSize - BinSize /\ n * BinSize \in Nat
    BY ImageAssumption
  <2>2. BinSize \in Nat
    BY ImageAssumption
  <2>3. LastFree(g.hdr) = (hd["nextBin"] + BinSize) + (hd["binsRemain"] * BinSize - BinSize)
    BY <1>1, <1>4, <2>1, <2>2 DEF LastFree
  <2>4. hd["binsRemain"] * BinSize \in Nat
    BY <1>1, <2>1
  <2> QED
    BY <1>1, <2>2, <2>3, <2>4 DEF LastFree
<1> QED
  BY <1>1, <1>3, <1>4, <1>6, <1>7, ImageAssumption DEF Roomy, g

(* and in one where a name was entered, a block for it included. *)
LEMMA EnterRoomy ==
    ASSUME NEW f, Roomy(f), NEW entry \in Cell, entry.tag = "entry"
    PROVE  LET g == EnterBin(f, entry)
           IN  Roomy(g) /\ Len(g.cells) >= Len(f.cells)
<1>1. f.hdr["binsRemain"] \in Nat /\ Len(f.cells) \in Nat
  BY ImageFields, SlotPlaces DEF Roomy
<1>2. CASE f.hdr["binsRemain"] <= 0
  <2> DEFINE a == AllocateNewBinBlock(f)
  <2>1. Roomy(a) /\ Len(a.cells) >= Len(f.cells) /\ a.hdr["binsRemain"] > 0
    BY AllocateRoomy
  <2>2. EnterBin(f, entry) = TakeSlot(a, entry)
    BY <1>2 DEF EnterBin
  <2> HIDE DEF a
  <2> QED
    BY <2>1, <2>2, TakeRoomy
<1>3. CASE ~ f.hdr["binsRemain"] <= 0
  <2>1. EnterBin(f, entry) = TakeSlot(f, entry)
    BY <1>3 DEF EnterBin
  <2> QED
    BY <1>1, <1>3, <2>1, TakeRoomy
<1> QED
  BY <1>2, <1>3

\* The file with a header written at the end of an operation.
Ended(f, put) ==
    [hdr |-> [f.hdr EXCEPT ![put.count] = @ + 1,
                           !["fileSize"] = IF put.size = 0 THEN @ ELSE put.size],
     hash |-> f.hash, cells |-> f.cells, spilled |-> f.spilled]

(* That counts an alias or a mark ... *)
LEMMA EndedCounts ==
    ASSUME NEW f \in Image, NEW put, put.size = 0, put.count \in Counter
    PROVE  Ended(f, put) = Count(f, put.count)
<1> DEFINE h == f.hdr
           m == [h EXCEPT ![put.count] = @ + 1]
<1>1. h \in [HeaderWord -> Nat]
  BY ImageFields DEF Header
<1> HIDE DEF h
<1>2. m \in [HeaderWord -> Nat]
  BY <1>1 DEF Counter, HeaderWord
<1> HIDE DEF m
<1>3. [m EXCEPT !["fileSize"] = m["fileSize"]] = m
  BY <1>2
<1>4. m["fileSize"] = h["fileSize"]
  BY <1>1 DEF m, Counter, HeaderWord
<1>5. [h EXCEPT ![put.count] = @ + 1, !["fileSize"] = IF put.size = 0 THEN @ ELSE put.size]
        = [m EXCEPT !["fileSize"] = IF put.size = 0 THEN @ ELSE put.size]
  BY <1>4 DEF m
<1>6. [m EXCEPT !["fileSize"] = IF put.size = 0 THEN @ ELSE put.size]
        = [m EXCEPT !["fileSize"] = m["fileSize"]]
  BY Zenon
<1>7. Ended(f, put).hdr = m
  BY <1>3, <1>5, <1>6 DEF Ended, h
<1> QED
  BY <1>7 DEF Ended, Count, h, m

\* The file when the cells of a record are written, but no entry for it.
Laden(f, path, rec) ==
    [hdr |-> f.hdr, hash |-> f.hash,
     cells |-> WriteRecord(f.cells, f.hdr["fileSize"], path, rec),
     spilled |-> f.spilled \/ f.hdr["binsRemain"] <= 0]

RecordEntry(f, path, rec) == Entry(path, "PRIMARY", f.hdr["fileSize"], rec.type)
RecordHeader(f, path, rec) ==
    PutHeader("numberRecords", f.hdr["fileSize"] + Size(rec.content), path)

(* ... and a store. *)
LEMMA EndedStores ==
    ASSUME NEW f \in Image, NEW path \in Path, NEW rec \in Record
    PROVE  StoreRecord(f, path, rec) =
             Ended(EnterBin(Laden(f, path, rec), RecordEntry(f, path, rec)),
                   RecordHeader(f, path, rec))
<1> DEFINE base == f.hdr["fileSize"]
           size == base + Size(rec.content)
           e == EnterBin(Laden(f, path, rec), RecordEntry(f, path, rec))
           last == RecordHeader(f, path, rec)
<1>1. size # 0
  <2>1. Size(rec.content) \in 1..7 /\ base \in Nat
    BY OffsetType, ImageFields DEF Record, HeaderWord
  <2> QED
    BY <2>1
<1>2. last.count = "numberRecords" /\ last.size = size
  BY DEF RecordHeader, PutHeader
<1>3. StoreRecord(f, path, rec) =
        [hdr |-> [e.hdr EXCEPT !["numberRecords"] = @ + 1, !["fileSize"] = size],
         hash |-> e.hash, cells |-> e.cells, spilled |-> e.spilled]
  BY DEF StoreRecord, WriteBinEntry, Laden, RecordEntry
<1> HIDE DEF size, e, last
<1>4. Ended(e, last) =
        [hdr |-> [e.hdr EXCEPT !["numberRecords"] = @ + 1, !["fileSize"] = size],
         hash |-> e.hash, cells |-> e.cells, spilled |-> e.spilled]
  BY <1>1, <1>2 DEF Ended
<1> QED
  BY <1>3, <1>4 DEF e, last

(* A record is laid behind FILE_SIZE. *)
LEMMA LadenRoomy ==
    ASSUME NEW f, Roomy(f), NEW path \in Path, NEW rec \in Record
    PROVE  LET g == Laden(f, path, rec)
               size == f.hdr["fileSize"] + Size(rec.content)
           IN  /\ Roomy(g) /\ size \in Nat /\ size > 0 /\ size <= Len(g.cells)
               /\ RecordEntry(f, path, rec) \in Cell
               /\ RecordEntry(f, path, rec).tag = "entry"
<1> DEFINE g == Laden(f, path, rec)
           base == f.hdr["fileSize"]
           size == base + Size(rec.content)
           n == Extent(f.cells, size + 1)
<1>1. /\ f \in Image /\ f.hdr \in Header /\ f.cells \in Seq(Cell) /\ base \in Nat
      /\ f.hash \in [0..MaxHash-1 -> Nat] /\ f.spilled \in BOOLEAN
      /\ LastFree(f.hdr) \in Nat /\ base > 0
  BY ImageFields, SlotPlaces DEF Roomy
<1>2. Size(rec.content) \in 1..7 /\ rec.type \in RecordType
  BY OffsetType DEF Record
<1>3. size \in Nat /\ size > base /\ n \in Nat /\ n >= Len(f.cells) /\ n >= size
  <2>1. base \in Nat
    BY <1>1
  <2> HIDE DEF base
  <2>2. size \in Nat /\ size > base
    BY <1>2, <2>1
  <2> HIDE DEF size
  <2> QED
    BY <1>1, <2>1, <2>2 DEF Extent
<1>4. g.cells \in Seq(Cell) /\ g.hdr = f.hdr /\ g \in Image
  BY <1>1, WriteRecordType DEF Image, Laden
<1>5. DOMAIN g.cells = 1..n
  BY DEF Laden, WriteRecord
<1> HIDE DEF g, n
<1>6. Len(g.cells) = n
  BY <1>3, <1>4, <1>5, LenProperties
<1>7. Roomy(g)
  BY <1>1, <1>3, <1>4, <1>6 DEF Roomy
<1>8. RecordEntry(f, path, rec) \in Cell /\ RecordEntry(f, path, rec).tag = "entry"
  BY <1>1, <1>2 DEF RecordEntry, Entry, Cell, Status, Address
<1> QED
  BY <1>1, <1>3, <1>6, <1>7, <1>8 DEF g

(* Every operation leaves the free slots within the file. *)
LEMMA DoesRoomy ==
    ASSUME NEW f, Roomy(f), NEW g, Does(f, g)
    PROVE  Roomy(g)
<1>1. f \in Image /\ g \in Image
  BY DoesIsChange, ChangeType DEF Roomy
<1>2. ASSUME NEW path \in Path, NEW rec \in Storable, DoesStore(f, g, path, rec)
      PROVE  Roomy(g)
  <2> DEFINE size == f.hdr["fileSize"] + Size(rec.content)
             w == Laden(f, path, rec)
             entry == RecordEntry(f, path, rec)
             e == EnterBin(w, entry)
             last == RecordHeader(f, path, rec)
  <2>0. rec \in Record
    BY HandleAssumption
  <2>1. /\ Roomy(w) /\ size \in Nat /\ size > 0 /\ size <= Len(w.cells)
        /\ entry \in Cell /\ entry.tag = "entry"
    BY <2>0, LadenRoomy
  <2>2. g = Ended(e, last)
    BY <1>1, <1>2, <2>0, EndedStores DEF DoesStore
  <2>3. last.count = "numberRecords" /\ last.size = size
    BY DEF RecordHeader, PutHeader
  <2> HIDE DEF w, entry, size, last
  <2>4. Roomy(e) /\ Len(e.cells) >= Len(w.cells)
    BY <2>1, EnterRoomy
  <2> HIDE DEF e
  <2>5. /\ e.hdr \in [HeaderWord -> Nat] /\ e.cells \in Seq(Cell)
        /\ w.cells \in Seq(Cell) /\ e \in Image
    BY <2>1, <2>4, ImageFields DEF Roomy, Header
  <2>6. /\ g.hdr["nextBin"] = e.hdr["nextBin"]
        /\ g.hdr["binsRemain"] = e.hdr["binsRemain"]
        /\ g.hdr["fileSize"] = size /\ g.cells = e.cells
    BY <2>1, <2>2, <2>3, <2>5 DEF Ended, HeaderWord
  <2>7. LastFree(g.hdr) = LastFree(e.hdr)
    BY <2>6 DEF LastFree
  <2> QED
    BY <1>1, <2>1, <2>4, <2>5, <2>6, <2>7 DEF Roomy
<1>3. ASSUME NEW h, Roomy(h), NEW word \in Counter, g = Count(h, word)
      PROVE  Roomy(g)
  <2>1. h.hdr \in [HeaderWord -> Nat]
    BY <1>3, ImageFields DEF Roomy, Header
  <2>2. g.hdr = [h.hdr EXCEPT ![word] = @ + 1] /\ g.cells = h.cells
    BY <1>3 DEF Count
  <2>3. /\ g.hdr["nextBin"] = h.hdr["nextBin"] /\ g.hdr["fileSize"] = h.hdr["fileSize"]
        /\ g.hdr["binsRemain"] = h.hdr["binsRemain"]
    BY <2>1, <2>2 DEF Counter, HeaderWord
  <2>4. LastFree(g.hdr) = LastFree(h.hdr)
    BY <2>3 DEF LastFree
  <2> QED
    BY <1>1, <1>3, <2>2, <2>3, <2>4 DEF Roomy
<1>4. ASSUME NEW primary \in Path, NEW alias \in Path, DoesAlias(f, g, primary, alias)
      PROVE  Roomy(g)
  <2> DEFINE found == f.cells[FindRecord(f, primary)]
             entry == Entry(alias, "ALIAS", found.info, found.type)
  <2>1. entry \in Cell /\ entry.tag = "entry"
    BY <1>1, <1>4, FoundRecord, FoundEntry DEF DoesAlias, Entry, Cell, Status, Address
  <2>2. g = Count(EnterBin(f, entry), "numberAliases")
    BY <1>4 DEF DoesAlias
  <2> HIDE DEF entry
  <2> QED
    BY <1>3, <2>1, <2>2, EnterRoomy DEF Counter
<1>5. ASSUME NEW slot \in DOMAIN f.cells, HasTag(f, slot, "entry"), NEW status \in Status
      PROVE  Roomy(SetStatus(f, slot, status))
  <2> DEFINE h == SetStatus(f, slot, status)
  <2>1. h \in Image
    BY <1>1, <1>5, SetStatusType
  <2>2. /\ h.hdr = f.hdr
        /\ h.cells = [f.cells EXCEPT ![slot] = Entry(f.cells[slot].path, status,
                                             f.cells[slot].info, f.cells[slot].type)]
    BY DEF SetStatus
  <2> HIDE DEF h
  <2>3. h.cells \in Seq(Cell) /\ f.cells \in Seq(Cell)
    BY <1>1, <2>1, ImageFields
  <2>4. DOMAIN h.cells = DOMAIN f.cells
    BY <2>2
  <2>5. Len(h.cells) = Len(f.cells)
    BY <2>3, <2>4
  <2> QED
    BY <2>1, <2>2, <2>5 DEF Roomy, h
<1>6. ASSUME NEW path \in Path, DoesMark(f, g, path)
      PROVE  Roomy(g)
  <2>1. {"DELETED", "ALIAS_DELETED", "PRIMARY"} \subseteq Status
        /\ {"numberDeletes", "numberAliasDeletes"} \subseteq Counter
    BY DEF Status, Counter
  <2>2. \A status : StatusSlot(f, path, status) # 0
                      => HasTag(f, StatusSlot(f, path, status), "entry")
    BY DEF StatusSlot
  <2>3. FindRecord(f, path) # 0 => HasTag(f, FindRecord(f, path), "entry")
    BY <1>1, FoundRecord
  <2>4. \A slot : HasTag(f, slot, "entry") => slot \in DOMAIN f.cells
    BY DEF HasTag
  <2>5. PICK slot \in DOMAIN f.cells, status \in Status :
           /\ HasTag(f, slot, "entry")
           /\ \/ g = SetStatus(f, slot, status)
              \/ g = Count(SetStatus(f, slot, status), "numberDeletes")
              \/ g = Count(SetStatus(f, slot, status), "numberAliasDeletes")
    BY <1>6, <2>1, <2>2, <2>3, <2>4 DEF DoesMark
  <2> QED
    BY <1>3, <1>5, <2>1, <2>5
<1> QED
  BY <1>2, <1>4, <1>6 DEF Does

(* A new file has its first block of free slots and nothing behind it. *)
LEMMA NewFileRoomy == Roomy(NewFile)
<1>1. /\ NewFile.hdr["nextBin"] = 1 /\ NewFile.hdr["binsRemain"] = BinsPerBlock
      /\ NewFile.hdr["fileSize"] = 1 + BlockSize
  BY DEF NewFile, HeaderWord, FirstBin
<1>2. /\ NewFile \in Image /\ NewFile.cells \in Seq(Cell)
      /\ BlockSize \in Nat /\ BlockSize = BinsPerBlock * BinSize + 1
      /\ BinsPerBlock * BinSize \in Nat
  BY NewFileType, ImageFields, BlockSizeType, ImageAssumption
<1>3. DOMAIN NewFile.cells = 1..(BlockSize + 1)
  BY DEF NewFile
<1>4. Len(NewFile.cells) = BlockSize + 1
  BY <1>2, <1>3, LenProperties
<1>5. LastFree(NewFile.hdr) = 1 + BinsPerBlock * BinSize
  BY <1>1 DEF LastFree
<1> QED
  BY <1>1, <1>2, <1>4, <1>5 DEF Roomy

-----------------------------------------------------------------------------
(* A queue of writes as a handle sees the file.                            *)

\* The file after a block of zeros.
Cleared(c, start, end) ==
    [i \in 1..Extent(c, end) |->
        IF i \in start..(end - 1) THEN Zero ELSE CellAt(c, i)]

\* The file that a handle sees behind one write, f being the file it sees.
Effect(f, put) ==
    LET start == f.hdr["fileSize"]
        next  == f.hdr["nextBin"]
        With(h, t, c) == [hdr |-> h, hash |-> t, cells |-> c, spilled |-> f.spilled]
    IN  CASE put.do = "cell" ->
                 With(f.hdr, f.hash, Overwritten(f.cells, put.at, put.cell))
          [] put.do = "block" ->
                 With(f.hdr, f.hash, Cleared(f.cells, start, start + BlockSize))
          [] put.do = "pointer" ->
                 With(AllocateNewBinBlock(f).hdr, f.hash,
                      Overwritten(f.cells, next, Ptr(start)))
          [] put.do = "entry" ->
                 With(f.hdr, f.hash, Overwritten(f.cells, next, put.entry))
          [] put.do = "hash" ->
                 With(TakeSlot(f, put.entry).hdr, TakeSlot(f, put.entry).hash, f.cells)
          [] put.do = "status" -> SetStatus(f, put.slot, put.status)
          [] put.do = "header" -> Ended(f, put)

\* The writes q lead from the file f to the file g.
RunsTo(f, q, g) ==
    \E run \in [0..Len(q) -> Image] :
        /\ run[0] = f /\ run[Len(q)] = g
        /\ \A i \in 1..Len(q) : run[i] = Effect(run[i - 1], q[i])

(* One write is its effect. *)
LEMMA RunOnce ==
    ASSUME NEW f \in Image, NEW put, Effect(f, put) \in Image
    PROVE  RunsTo(f, <<put>>, Effect(f, put))
<1> DEFINE g == Effect(f, put)
           run == [i \in 0..1 |-> IF i = 0 THEN f ELSE g]
<1> HIDE DEF g
<1>1. run \in [0..1 -> Image] /\ run[0] = f /\ run[1] = g
  BY DEF g
<1>2. Len(<<put>>) = 1 /\ <<put>>[1] = put
  OBVIOUS
<1>3. run[1] = Effect(run[1 - 1], <<put>>[1])
  BY <1>1, <1>2 DEF g
<1> HIDE DEF run
<1> QED
  BY <1>1, <1>2, <1>3 DEF RunsTo, g

(* Writes that follow one another. *)
LEMMA RunOn ==
    ASSUME NEW f, NEW p \in Seq(Put), NEW g, RunsTo(f, p, g),
           NEW q \in Seq(Put), NEW h, RunsTo(g, q, h)
    PROVE  RunsTo(f, p \o q, h)
<1>1. PICK r \in [0..Len(p) -> Image] :
         /\ r[0] = f /\ r[Len(p)] = g
         /\ \A i \in 1..Len(p) : r[i] = Effect(r[i - 1], p[i])
  BY DEF RunsTo
<1>2. PICK s \in [0..Len(q) -> Image] :
         /\ s[0] = g /\ s[Len(q)] = h
         /\ \A i \in 1..Len(q) : s[i] = Effect(s[i - 1], q[i])
  BY DEF RunsTo
<1> DEFINE m == Len(p)
           n == Len(q)
           t == p \o q
           run == [i \in 0..(m + n) |-> IF i <= m THEN r[i] ELSE s[i - m]]
<1>3. /\ m \in Nat /\ n \in Nat /\ Len(t) = m + n
      /\ \A i \in 1..(m + n) : t[i] = IF i <= m THEN p[i] ELSE q[i - m]
  OBVIOUS
<1> HIDE DEF m, n, t
<1>4. run \in [0..(m + n) -> Image]
  BY <1>1, <1>2, <1>3 DEF m, n
<1>5. run[0] = f /\ run[m + n] = h
  BY <1>1, <1>2, <1>3 DEF m, n
<1>6. ASSUME NEW i \in 1..(m + n)
      PROVE  run[i] = Effect(run[i - 1], t[i])
  <2>1. CASE i <= m
    <3>1. /\ i \in 1..m /\ i \in 0..(m + n) /\ i - 1 \in 0..(m + n) /\ i - 1 <= m
      BY <1>3, <2>1
    <3>2. run[i] = r[i] /\ run[i - 1] = r[i - 1] /\ t[i] = p[i]
      BY <1>3, <2>1, <3>1
    <3> QED
      BY <1>1, <3>1, <3>2 DEF m
  <2>2. CASE ~ i <= m
    <3>1. /\ i - m \in 1..n /\ i \in 0..(m + n) /\ i - 1 \in 0..(m + n)
          /\ (i - 1 <= m => i - 1 = m) /\ (i - m) - 1 = (i - 1) - m
      BY <1>3, <2>2
    <3>2. run[i] = s[i - m] /\ t[i] = q[i - m]
      BY <1>3, <2>2, <3>1
    <3>3. run[i - 1] = s[(i - m) - 1]
      <4>1. CASE i - 1 <= m
        <5>1. i - 1 = m /\ (i - m) - 1 = 0
          BY <1>3, <3>1, <4>1
        <5>2. run[i - 1] = r[m]
          BY <3>1, <4>1, <5>1
        <5> QED
          BY <1>1, <1>2, <5>1, <5>2 DEF m
      <4>2. CASE ~ i - 1 <= m
        BY <3>1, <4>2
      <4> QED
        BY <4>1, <4>2
    <3> QED
      BY <1>2, <3>1, <3>2, <3>3 DEF n
  <2> QED
    BY <2>1, <2>2
<1> HIDE DEF run
<1> QED
  BY <1>3, <1>4, <1>5, <1>6 DEF RunsTo, t

(* The first write done, the others lead on. *)
LEMMA RunFurther ==
    ASSUME NEW f, NEW q \in Seq(Put), q # << >>, NEW g, RunsTo(f, q, g)
    PROVE  /\ f \in Image /\ Effect(f, Head(q)) \in Image
           /\ RunsTo(Effect(f, Head(q)), Tail(q), g)
           /\ Len(q) = 1 => g = Effect(f, Head(q))
<1>1. PICK r \in [0..Len(q) -> Image] :
         /\ r[0] = f /\ r[Len(q)] = g
         /\ \A i \in 1..Len(q) : r[i] = Effect(r[i - 1], q[i])
  BY DEF RunsTo
<1> DEFINE n == Len(q)
           t == Tail(q)
           run == [i \in 0..(n - 1) |-> r[i + 1]]
<1>2. /\ n \in Nat /\ n > 0 /\ Head(q) = q[1] /\ Len(t) = n - 1
      /\ \A i \in 1..(n - 1) : t[i] = q[i + 1]
  BY QueueTail
<1> HIDE DEF n, t
<1>3. r[1] = Effect(f, Head(q)) /\ f \in Image /\ r[1] \in Image
  <2>1. 1 \in 1..n /\ 1 - 1 = 0 /\ 0 \in 0..n /\ 1 \in 0..n
    BY <1>2
  <2> QED
    BY <1>1, <1>2, <2>1 DEF n
<1>4. run \in [0..(n - 1) -> Image] /\ run[0] = r[1] /\ run[n - 1] = g
  <2>1. \A i \in 0..(n - 1) : i + 1 \in 0..n
    BY <1>2
  <2>2. 0 \in 0..(n - 1) /\ n - 1 \in 0..(n - 1) /\ (n - 1) + 1 = n /\ 0 + 1 = 1
    BY <1>2
  <2> QED
    BY <1>1, <2>1, <2>2 DEF n
<1>5. ASSUME NEW i \in 1..(n - 1)
      PROVE  run[i] = Effect(run[i - 1], t[i])
  <2>1. /\ i \in 0..(n - 1) /\ i - 1 \in 0..(n - 1) /\ i + 1 \in 1..n
        /\ (i - 1) + 1 = i /\ (i + 1) - 1 = i
    BY <1>2
  <2>2. run[i] = r[i + 1] /\ run[i - 1] = r[i]
    BY <2>1
  <2>3. r[i + 1] = Effect(r[(i + 1) - 1], q[i + 1])
    BY <1>1, <2>1 DEF n
  <2> QED
    BY <1>2, <2>1, <2>2, <2>3
<1>6. n = 1 => g = r[1]
  BY <1>1 DEF n
<1> HIDE DEF run
<1>7. RunsTo(r[1], t, g)
  BY <1>2, <1>4, <1>5 DEF RunsTo
<1> QED
  BY <1>3, <1>6, <1>7 DEF n, t

(* Queues of one and of two writes. *)
LEMMA TwoPuts ==
    ASSUME NEW p \in Put, NEW q \in Put
    PROVE  /\ <<p>> \in Seq(Put) /\ <<q>> \in Seq(Put) /\ <<p, q>> \in Seq(Put)
           /\ <<p>> \o <<q>> = <<p, q>> /\ << >> \o <<p, q>> = <<p, q>>
<1>1. <<p>> \in Seq(Put) /\ <<q>> \in Seq(Put)
  OBVIOUS
<1>2. <<p, q>> \in Seq(Put)
  OBVIOUS
<1>3. <<p>> \o <<q>> = <<p, q>>
  <2> DEFINE s == <<p>> \o <<q>>
             t == <<p, q>>
  <2>1. s \in Seq(Put) /\ Len(s) = 2 /\ s[1] = p /\ s[2] = q
    BY <1>1
  <2>2. t \in Seq(Put) /\ Len(t) = 2 /\ t[1] = p /\ t[2] = q
    BY <1>2
  <2> HIDE DEF s, t
  <2>3. \A i \in 1..Len(s) : s[i] = t[i]
    BY <2>1, <2>2
  <2>4. s = t
    BY <2>1, <2>2, <2>3
  <2> QED
    BY <2>4 DEF s, t
<1>4. << >> \o <<p, q>> = <<p, q>>
  BY <1>2
<1> QED
  BY <1>1, <1>2, <1>3, <1>4

(* A block of zeros and the pointer to it are a new block. *)
LEMMA BlockAddsUp ==
    ASSUME NEW f, Roomy(f)
    PROVE  RunsTo(f, <<PutBlock, PutPointer>>, AllocateNewBinBlock(f))
<1> DEFINE c == f.cells
           start == f.hdr["fileSize"]
           next == f.hdr["nextBin"]
           end == start + BlockSize
           n == Extent(c, end)
           d == Cleared(c, start, end)
           mid == Effect(f, PutBlock)
           g == AllocateNewBinBlock(f)
<1>1. /\ f \in Image /\ f.hdr \in Header /\ c \in Seq(Cell)
      /\ f.hash \in [0..MaxHash-1 -> Nat] /\ f.spilled \in BOOLEAN
      /\ start \in Nat /\ next \in Nat /\ next > 0 /\ next <= Len(c)
      /\ BlockSize \in Nat
  BY ImageFields, SlotPlaces, BlockType DEF Roomy
<1>2. g \in Image /\ g.cells \in Seq(Cell)
  BY <1>1, AllocateType, ImageFields
<1>3. n \in Nat /\ n >= Len(c) /\ n >= next
  BY <1>1 DEF Extent
<1>4. /\ DOMAIN d = 1..n
      /\ \A i \in 1..n : d[i] = IF i \in start..(end - 1) THEN Zero ELSE CellAt(c, i)
  BY DEF Cleared
<1>5. d \in Seq(Cell) /\ Len(d) = n
  <2>1. Zero \in Cell
    BY DEF Cell
  <2> HIDE DEF c, n, end
  <2>2. d \in [1..n -> Cell]
    BY <1>1, <2>1, CellAtType DEF Cleared, n
  <2> HIDE DEF d
  <2> QED
    BY <1>3, <2>2, FunctionIsSeq
<1>6. PutBlock.do = "block" /\ PutPointer.do = "pointer"
  BY PutKinds
<1>7. mid = [hdr |-> f.hdr, hash |-> f.hash, cells |-> d, spilled |-> f.spilled]
  BY <1>6 DEF Effect
<1> HIDE DEF d, mid
<1>8. mid \in Image
  BY <1>1, <1>5, <1>7, ImageParts
<1>9. Effect(mid, PutPointer) =
        [hdr |-> AllocateNewBinBlock(mid).hdr, hash |-> f.hash,
         cells |-> Overwritten(d, next, Ptr(start)), spilled |-> f.spilled]
  BY <1>6, <1>7 DEF Effect
<1>10. AllocateNewBinBlock(mid).hdr = g.hdr
  BY <1>7 DEF AllocateNewBinBlock
<1>11. Overwritten(d, next, Ptr(start)) = g.cells
  <2>1. Extent(d, next + 1) = n
    BY <1>1, <1>3, <1>5 DEF Extent
  <2>2. Overwritten(d, next, Ptr(start)) =
          [i \in 1..n |-> IF i = next THEN Ptr(start) ELSE CellAt(d, i)]
    BY <2>1 DEF Overwritten
  <2>3. \A i \in 1..n : CellAt(d, i) = IF i \in start..(end - 1) THEN Zero
                                       ELSE CellAt(c, i)
    <3> TAKE i \in 1..n
    <3>1. CellAt(d, i) = d[i]
      BY <1>4 DEF CellAt
    <3> QED
      BY <1>4, <3>1
  <2>4. g.cells = [i \in 1..n |-> IF i = next THEN Ptr(start)
                                  ELSE IF i \in start..(end - 1) THEN Zero
                                  ELSE CellAt(c, i)]
    BY DEF AllocateNewBinBlock
  <2> HIDE DEF n, c, g
  <2> QED
    BY <2>2, <2>3, <2>4
<1>12. g = [hdr |-> g.hdr, hash |-> f.hash, cells |-> g.cells, spilled |-> f.spilled]
  BY DEF AllocateNewBinBlock
<1>13. Effect(mid, PutPointer) = g
  BY <1>9, <1>10, <1>11, <1>12
<1>14. RunsTo(f, <<PutBlock>>, mid)
  BY <1>1, <1>8, RunOnce DEF mid
<1> HIDE DEF g
<1>15. RunsTo(mid, <<PutPointer>>, g)
  BY <1>2, <1>8, <1>13, RunOnce
<1>16. /\ <<PutBlock>> \in Seq(Put) /\ <<PutPointer>> \in Seq(Put)
       /\ <<PutBlock>> \o <<PutPointer>> = <<PutBlock, PutPointer>>
  BY PutKinds, TwoPuts
<1>17. RunsTo(f, <<PutBlock>> \o <<PutPointer>>, g)
  BY <1>14, <1>15, <1>16, RunOn
<1> QED
  BY <1>16, <1>17 DEF g

(* An entry and its slot of the hash table are a slot taken. *)
LEMMA EntryAddsUp ==
    ASSUME NEW f, Roomy(f), f.hdr["binsRemain"] > 0,
           NEW entry \in Cell, entry.tag = "entry"
    PROVE  RunsTo(f, <<PutEntry(entry), PutHash(entry)>>, TakeSlot(f, entry))
<1> DEFINE c == f.cells
           next == f.hdr["nextBin"]
           d == Overwritten(c, next, entry)
           p == PutEntry(entry)
           q == PutHash(entry)
           mid == Effect(f, p)
           g == TakeSlot(f, entry)
<1>1. /\ f \in Image /\ f.hdr \in Header /\ c \in Seq(Cell)
      /\ f.hash \in [0..MaxHash-1 -> Nat] /\ f.spilled \in BOOLEAN
      /\ next \in Nat /\ next > 0 /\ next <= Len(c)
  BY ImageFields, SlotPlaces DEF Roomy
<1>2. g \in Image
  BY TakeRoomy DEF Roomy
<1>3. d \in Seq(Cell)
  BY <1>1, OverwrittenCells
<1>4. d = [c EXCEPT ![next] = entry]
  <2>1. Extent(c, next + 1) = Len(c)
    BY <1>1 DEF Extent
  <2>2. d = [i \in 1..Len(c) |-> IF i = next THEN entry ELSE CellAt(c, i)]
    BY <2>1 DEF Overwritten
  <2>3. \A i \in 1..Len(c) : CellAt(c, i) = c[i]
    BY <1>1 DEF CellAt
  <2> HIDE DEF c, d
  <2> QED
    BY <1>1, <2>2, <2>3
<1>5. /\ p.do = "entry" /\ p.entry = entry /\ q.do = "hash" /\ q.entry = entry
      /\ p \in Put /\ q \in Put
  BY PutKinds DEF PutEntry, PutHash
<1> HIDE DEF p, q
<1>6. mid = [hdr |-> f.hdr, hash |-> f.hash, cells |-> d, spilled |-> f.spilled]
  BY <1>5 DEF Effect
<1> HIDE DEF d, mid
<1>7. mid \in Image
  BY <1>1, <1>3, <1>6, ImageParts
<1>8. Effect(mid, q) =
        [hdr |-> TakeSlot(mid, entry).hdr, hash |-> TakeSlot(mid, entry).hash,
         cells |-> d, spilled |-> f.spilled]
  BY <1>5, <1>6 DEF Effect
<1>9. TakeSlot(mid, entry).hdr = g.hdr /\ TakeSlot(mid, entry).hash = g.hash
  BY <1>6 DEF TakeSlot
<1>10. g = [hdr |-> g.hdr, hash |-> g.hash, cells |-> d, spilled |-> f.spilled]
  BY <1>4 DEF TakeSlot
<1>11. Effect(mid, q) = g
  BY <1>8, <1>9, <1>10
<1> HIDE DEF g
<1>12. RunsTo(f, <<p>>, mid) /\ RunsTo(mid, <<q>>, g)
  <2>1. RunsTo(f, <<p>>, mid)
    BY <1>1, <1>7, RunOnce DEF mid
  <2> QED
    BY <1>2, <1>7, <1>11, <2>1, RunOnce
<1>13. <<p>> \in Seq(Put) /\ <<q>> \in Seq(Put) /\ <<p>> \o <<q>> = <<p, q>>
  BY <1>5, TwoPuts
<1>14. RunsTo(f, <<p>> \o <<q>>, g)
  BY <1>12, <1>13, RunOn
<1> QED
  BY <1>13, <1>14 DEF p, q, g

(* The writes of a name entered in the bins, a block for it included. *)
LEMMA EnteringAddsUp ==
    ASSUME OneHandle, NEW f, Roomy(f),
           hdr[Only]["binsRemain"] = f.hdr["binsRemain"],
           NEW entry \in Cell, entry.tag = "entry"
    PROVE  /\ RunsTo(f, EntryWrites(Only, entry), EnterBin(f, entry))
           /\ EntryWrites(Only, entry) \in Seq(Put)
<1> DEFINE a == AllocateNewBinBlock(f)
           p == PutEntry(entry)
           q == PutHash(entry)
<1>1. p \in Put /\ q \in Put /\ PutBlock \in Put /\ PutPointer \in Put
  BY PutKinds
<1>2. f.hdr["binsRemain"] \in Nat
  BY ImageFields, SlotPlaces DEF Roomy
<1>3. CASE f.hdr["binsRemain"] <= 0
  <2>1. EntryWrites(Only, entry) = <<PutBlock, PutPointer>> \o <<p, q>>
    BY <1>3 DEF EntryWrites
  <2>2. EnterBin(f, entry) = TakeSlot(a, entry)
    BY <1>3 DEF EnterBin
  <2>3. Roomy(a) /\ a.hdr["binsRemain"] > 0
    BY AllocateRoomy
  <2>4. RunsTo(f, <<PutBlock, PutPointer>>, a)
    BY BlockAddsUp
  <2> HIDE DEF a
  <2>5. RunsTo(a, <<p, q>>, TakeSlot(a, entry))
    BY <2>3, EntryAddsUp
  <2> HIDE DEF p, q
  <2>6. <<PutBlock, PutPointer>> \in Seq(Put) /\ <<p, q>> \in Seq(Put)
    BY <1>1, TwoPuts
  <2>7. RunsTo(f, <<PutBlock, PutPointer>> \o <<p, q>>, TakeSlot(a, entry))
    BY <2>4, <2>5, <2>6, RunOn
  <2>8. EntryWrites(Only, entry) \in Seq(Put)
    BY <2>1, <2>6
  <2> QED
    BY <2>1, <2>2, <2>7, <2>8
<1>4. CASE ~ f.hdr["binsRemain"] <= 0
  <2>1. EntryWrites(Only, entry) = << >> \o <<p, q>>
    BY <1>4 DEF EntryWrites
  <2>2. EnterBin(f, entry) = TakeSlot(f, entry)
    BY <1>4 DEF EnterBin
  <2>3. RunsTo(f, <<p, q>>, TakeSlot(f, entry))
    BY <1>2, <1>4, EntryAddsUp
  <2> HIDE DEF p, q
  <2>4. << >> \o <<p, q>> = <<p, q>> /\ <<p, q>> \in Seq(Put)
    BY <1>1, TwoPuts
  <2> QED
    BY <2>1, <2>2, <2>3, <2>4
<1> QED
  BY <1>3, <1>4

\* The cell of a record at an address from base on.
RecordCell(base, path, rec, addr) ==
    LET at == Layout(base, rec.content)
    IN  IF addr = base THEN Info(path, rec.type, at)
        ELSE IF addr = base + Size(rec.content) THEN EofFlag
        ELSE Data(rec.content[CHOOSE a \in Area : at[a] = addr])

(* A record is its cells, one behind the other. *)
LEMMA RecordCells ==
    ASSUME NEW c \in Seq(Cell), NEW base \in Nat, base > 0, NEW path \in Path,
           NEW rec \in Record
    PROVE  LET size == base + Size(rec.content)
               q == RecordWrites(base, path, rec)
           IN  /\ WriteRecord(c, base, path, rec) =
                    [i \in 1..Extent(c, size + 1) |->
                        IF i \in base..size THEN RecordCell(base, path, rec, i)
                        ELSE CellAt(c, i)]
               /\ \A i \in 1..Len(q) :
                      /\ q[i].do = "cell" /\ q[i].at = base + i - 1
                      /\ q[i].cell = RecordCell(base, path, rec, base + i - 1)
                      /\ q[i].cell \in Cell
<1> DEFINE w == rec.content
           at == Layout(base, w)
           size == base + Size(w)
           n == Extent(c, size + 1)
           C(i) == RecordCell(base, path, rec, i)
           q == RecordWrites(base, path, rec)
<1>1. w \in Content /\ Size(w) \in 1..7
  BY OffsetType DEF Record
<1>2. size \in Nat /\ size > base /\ size - base + 1 = Size(w) + 1
  <2> HIDE DEF w
  <2> QED
    BY <1>1
<1>3. \A a \in Area : /\ at[a] # 0 => at[a] \in (base + 1)..(size - 1)
                      /\ w[a] # Empty => at[a] = base + Offset(w, a)
  <2>1. \A a \in Area : /\ Offset(w, a) \in 1..6
                        /\ w[a] # Empty => Offset(w, a) < Size(w)
    BY <1>1, OffsetType
  <2>2. \A a \in Area : at[a] = IF w[a] = Empty THEN 0 ELSE base + Offset(w, a)
    BY DEF Layout
  <2> HIDE DEF at, w
  <2> QED
    BY <1>1, <2>1, <2>2
<1>4. \A i \in (base + 1)..(size - 1) : \E a \in Area : at[a] = i
  <2> TAKE i \in (base + 1)..(size - 1)
  <2>1. i - base \in 1..(Size(w) - 1) /\ base + (i - base) = i
    <3> HIDE DEF w
    <3> QED
      BY <1>1
  <2>2. PICK a \in Area : w[a] # Empty /\ Offset(w, a) = i - base
    BY <1>1, <2>1, AreasFill
  <2> QED
    BY <1>3, <2>1, <2>2
<1>5. /\ C(base) = Info(path, rec.type, at)
      /\ C(size) = EofFlag
      /\ \A i \in (base + 1)..(size - 1) :
             C(i) = Data(w[CHOOSE a \in Area : at[a] = i])
  <2> DEFINE D(i) == Data(w[CHOOSE a \in Area : at[a] = i])
             info == Info(path, rec.type, at)
  <2>1. \A i : C(i) = IF i = base THEN info ELSE IF i = size THEN EofFlag ELSE D(i)
    BY DEF RecordCell
  <2> HIDE DEF C, D, info, size
  <2> QED
    BY <1>2, <2>1 DEF D, info
<1>6. WriteRecord(c, base, path, rec) =
        [i \in 1..n |-> IF i \in base..size THEN C(i) ELSE CellAt(c, i)]
  <2> DEFINE D(i) == Data(w[CHOOSE a \in Area : at[a] = i])
             info == Info(path, rec.type, at)
             Lies(i) == \E a \in Area : at[a] = i
  <2>1. WriteRecord(c, base, path, rec) =
          [i \in 1..n |-> IF i = base THEN info ELSE IF i = size THEN EofFlag
                          ELSE IF Lies(i) THEN D(i) ELSE CellAt(c, i)]
    BY DEF WriteRecord
  <2>2. n \in Nat
    BY <1>2 DEF Extent
  <2>3. \A i \in 1..n : Lies(i) <=> i \in (base + 1)..(size - 1)
    BY <1>3, <1>4
  <2>4. /\ C(base) = info /\ C(size) = EofFlag
        /\ \A i \in (base + 1)..(size - 1) : C(i) = D(i)
    BY <1>5
  <2> HIDE DEF C, D, info, size, n, Lies
  <2>5. \A i \in 1..n : (IF i = base THEN info ELSE IF i = size THEN EofFlag
                         ELSE IF Lies(i) THEN D(i) ELSE CellAt(c, i))
                        = IF i \in base..size THEN C(i) ELSE CellAt(c, i)
    BY <1>2, <2>2, <2>3, <2>4
  <2> QED
    BY <2>1, <2>5
<1>7. q = [i \in 1..(size - base + 1) |-> PutCell(base + i - 1, C(base + i - 1))]
  BY DEF RecordWrites, RecordCell
<1>8. q \in Seq(Put) /\ Len(q) = Size(w) + 1
  BY RecordQueue
<1> HIDE DEF C, q, size, w
<1>9. \A i \in 1..Len(q) :
          /\ q[i].do = "cell" /\ q[i].at = base + i - 1
          /\ q[i].cell = C(base + i - 1)
  <2>1. \A i \in 1..Len(q) : q[i] = PutCell(base + i - 1, C(base + i - 1))
    BY <1>2, <1>7, <1>8
  <2> TAKE i \in 1..Len(q)
  <2> DEFINE addr == base + i - 1
             cell == C(addr)
  <2>2. q[i] = PutCell(addr, cell)
    BY <2>1
  <2> HIDE DEF addr, cell
  <2>3. q[i].do = "cell" /\ q[i].at = addr /\ q[i].cell = cell
    BY <2>2 DEF PutCell
  <2> QED
    BY <2>3 DEF addr, cell
<1>10. \A i \in 1..Len(q) : q[i].cell \in Cell
  BY <1>8, <1>9, PutTypes
<1> QED
  BY <1>6, <1>9, <1>10 DEF C, q, size, n, w

(* The writes of its cells lay a record. *)
LEMMA RecordAddsUp ==
    ASSUME NEW f, Roomy(f), NEW path \in Path, NEW rec \in Record
    PROVE  LET base == f.hdr["fileSize"]
           IN  RunsTo(f, RecordWrites(base, path, rec),
                     [hdr |-> f.hdr, hash |-> f.hash,
                      cells |-> WriteRecord(f.cells, base, path, rec),
                      spilled |-> f.spilled])
<1> DEFINE c == f.cells
           base == f.hdr["fileSize"]
           size == base + Size(rec.content)
           q == RecordWrites(base, path, rec)
           k == Len(q)
           C(i) == RecordCell(base, path, rec, i)
           Part(n) == [i \in 1..Extent(c, base + n) |->
                          IF i \in base..(base + n - 1) THEN C(i) ELSE CellAt(c, i)]
           File(d) == [hdr |-> f.hdr, hash |-> f.hash, cells |-> d,
                       spilled |-> f.spilled]
           run == [n \in 0..k |-> File(Part(n))]
<1>1. /\ f \in Image /\ f.hdr \in Header /\ c \in Seq(Cell)
      /\ f.hash \in [0..MaxHash-1 -> Nat] /\ f.spilled \in BOOLEAN
      /\ base \in Nat /\ base > 0 /\ base <= Len(c) + 1
  BY ImageFields, SlotPlaces DEF Roomy
<1>2. /\ q \in Seq(Put) /\ k = Size(rec.content) + 1 /\ Size(rec.content) \in 1..7
  BY <1>1, RecordQueue, OffsetType DEF Record
<1>3. /\ k \in Nat /\ base + k = size + 1 /\ base + k - 1 = size
  <2>1. k \in Nat
    BY <1>2
  <2> HIDE DEF base, k
  <2> QED
    BY <1>1, <1>2, <2>1
<1>4. /\ WriteRecord(c, base, path, rec) =
           [i \in 1..Extent(c, size + 1) |->
               IF i \in base..size THEN C(i) ELSE CellAt(c, i)]
      /\ \A i \in 1..k : /\ q[i].do = "cell" /\ q[i].at = base + i - 1
                         /\ q[i].cell = C(base + i - 1) /\ q[i].cell \in Cell
  BY <1>1, RecordCells
<1>5. f = File(c)
  BY <1>1 DEF Image
<1>6. WriteRecord(c, base, path, rec) = Part(k)
  BY <1>3, <1>4
<1> HIDE DEF c, base, C, q, k, size
<1>7. Part(0) = c
  <2>1. Extent(c, base + 0) = Len(c)
    BY <1>1 DEF Extent
  <2>2. \A i \in 1..Len(c) : i \notin base..(base + 0 - 1) /\ CellAt(c, i) = c[i]
    BY <1>1 DEF CellAt
  <2>3. Part(0) = [i \in 1..Len(c) |-> c[i]]
    BY <2>1, <2>2
  <2>4. c = [i \in 1..Len(c) |-> c[i]]
    BY <1>1
  <2> HIDE DEF Part
  <2> QED
    BY <2>3, <2>4
<1>8. ASSUME NEW n \in 1..k
      PROVE  Part(n) = Overwritten(Part(n - 1), base + n - 1, C(base + n - 1))
  <2> DEFINE d == Part(n - 1)
             m == Extent(c, base + n)
             l == Extent(c, base + (n - 1))
             at == base + n - 1
  <2>1. /\ m \in Nat /\ l \in Nat /\ l <= m /\ m >= at /\ at \in Nat
        /\ (l < m => m = at) /\ l >= at - 1 /\ at + 1 - 1 = at /\ base + (n - 1) - 1 = at - 1
    BY <1>1, <1>3 DEF Extent
  <2>2. /\ DOMAIN d = 1..l
        /\ \A i \in 1..l : d[i] = IF i \in base..(at - 1) THEN C(i) ELSE CellAt(c, i)
    BY <2>1
  <2>3. Len(d) = l
    BY <2>1, <2>2
  <2>4. Extent(d, at + 1) = m
    <3> HIDE DEF d, m, l, at
    <3> QED
      BY <2>1, <2>3 DEF Extent
  <2>5. Overwritten(d, at, C(at)) =
          [i \in 1..m |-> IF i = at THEN C(at) ELSE CellAt(d, i)]
    BY <2>4 DEF Overwritten
  <2>6. \A i \in 1..m : (IF i = at THEN C(at) ELSE CellAt(d, i))
                        = IF i \in base..at THEN C(i) ELSE CellAt(c, i)
    <3> HIDE DEF d, m, l, at
    <3> TAKE i \in 1..m
    <3>1. CASE i = at
      <4>1. at >= base
        BY <1>1, <1>3 DEF at
      <4> QED
        BY <1>1, <2>1, <3>1, <4>1
    <3>2. CASE i # at
      <4>1. i \in 1..l
        BY <2>1, <3>2
      <4>2. CellAt(d, i) = d[i]
        BY <2>2, <4>1 DEF CellAt
      <4>3. i \in base..(at - 1) <=> i \in base..at
        BY <1>1, <2>1, <3>2
      <4> QED
        BY <2>2, <3>2, <4>1, <4>2, <4>3
    <3> QED
      BY <3>1, <3>2
  <2>7. Part(n) = [i \in 1..m |-> IF i \in base..at THEN C(i) ELSE CellAt(c, i)]
    OBVIOUS
  <2> HIDE DEF d, m, Part
  <2> QED
    BY <2>5, <2>6, <2>7 DEF d
<1>9. \A n \in 0..k : Part(n) \in Seq(Cell)
  <2> TAKE n \in 0..k
  <2>1. \A i \in base..(base + n - 1) : C(i) \in Cell
    <3> TAKE i \in base..(base + n - 1)
    <3>1. i - base + 1 \in 1..k /\ base + (i - base + 1) - 1 = i
      BY <1>1, <1>3
    <3> QED
      BY <1>4, <3>1
  <2>2. \A i : CellAt(c, i) \in Cell
    BY <1>1, CellAtType
  <2>3. Extent(c, base + n) \in Nat
    BY <1>1, <1>3 DEF Extent
  <2>4. Part(n) \in [1..Extent(c, base + n) -> Cell]
    BY <2>1, <2>2
  <2> HIDE DEF Part
  <2> QED
    BY <2>3, <2>4, FunctionIsSeq
<1> HIDE DEF Part
<1>10. run \in [0..k -> Image]
  <2>1. \A n \in 0..k : File(Part(n)) \in Image
    BY <1>1, <1>9, ImageParts DEF c
  <2> QED
    BY <2>1
<1>11. run[0] = f /\ run[k] = File(Part(k))
  BY <1>3, <1>5, <1>7
<1>12. ASSUME NEW i \in 1..k
       PROVE  run[i] = Effect(run[i - 1], q[i])
  <2> DEFINE d == Part(i - 1)
  <2>1. /\ i \in 0..k /\ i - 1 \in 0..k
    BY <1>3
  <2>2. run[i] = File(Part(i)) /\ run[i - 1] = File(d)
    BY <2>1
  <2>3. Effect(File(d), q[i]) = File(Overwritten(d, base + i - 1, C(base + i - 1)))
    BY <1>4 DEF Effect
  <2> QED
    BY <1>8, <2>2, <2>3
<1> HIDE DEF run
<1>13. RunsTo(f, q, File(Part(k)))
  BY <1>10, <1>11, <1>12 DEF RunsTo, k
<1> QED
  BY <1>6, <1>13 DEF q, c, base

-----------------------------------------------------------------------------
(* The header of an alias or a mark counts it. *)
LEMMA CountAddsUp ==
    ASSUME NEW f \in Image, NEW word \in Counter
    PROVE  LET last == PutHeader(word, 0, Empty)
           IN  RunsTo(f, <<last>>, Count(f, word)) /\ last \in Put
<1> DEFINE last == PutHeader(word, 0, Empty)
           g == Count(f, word)
<1>1. word \in HeaderWord
  BY DEF Counter, HeaderWord
<1>2. /\ last \in Put /\ last.do = "header" /\ last.count = word /\ last.size = 0
  BY <1>1, PutKinds
<1> HIDE DEF last
<1>3. Effect(f, last) = Ended(f, last)
  BY <1>2 DEF Effect
<1>4. Ended(f, last) = g
  BY <1>2, EndedCounts
<1>5. g \in Image
  BY <1>1, CountType
<1> HIDE DEF g
<1>6. RunsTo(f, <<last>>, g)
  BY <1>3, <1>4, <1>5, RunOnce
<1> QED
  BY <1>2, <1>6 DEF last, g

(* The writes of a store, from the file that its beginning leaves. *)
LEMMA StoreAddsUp ==
    ASSUME OneHandle, NEW f, Roomy(f), hdr[Only] = f.hdr,
           NEW path \in Path, NEW rec \in Record
    PROVE  RunsTo([hdr |-> f.hdr, hash |-> f.hash, cells |-> f.cells,
                  spilled |-> f.spilled \/ f.hdr["binsRemain"] <= 0],
                 StoreWrites(Only, path, rec), StoreRecord(f, path, rec))
<1> DEFINE base == f.hdr["fileSize"]
           spill == f.spilled \/ f.hdr["binsRemain"] <= 0
           u == [hdr |-> f.hdr, hash |-> f.hash, cells |-> f.cells, spilled |-> spill]
           w == Laden(f, path, rec)
           entry == RecordEntry(f, path, rec)
           e == EnterBin(w, entry)
           last == RecordHeader(f, path, rec)
           g == StoreRecord(f, path, rec)
           p == RecordWrites(base, path, rec)
           q == EntryWrites(Only, entry)
<1>1. /\ f \in Image /\ f.hdr \in Header /\ f.cells \in Seq(Cell)
      /\ f.hash \in [0..MaxHash-1 -> Nat] /\ f.spilled \in BOOLEAN /\ base \in Nat
  BY ImageFields, SlotPlaces DEF Roomy
<1>2. Roomy(u)
  <2>1. spill \in BOOLEAN
    BY <1>1
  <2> HIDE DEF spill
  <2> QED
    BY <1>1, <2>1, ImageParts DEF Roomy
<1>3. RunsTo(u, p, w)
  <2>1. /\ u.hdr = f.hdr /\ u.hash = f.hash /\ u.cells = f.cells /\ u.spilled = spill
    OBVIOUS
  <2> HIDE DEF u
  <2>2. RunsTo(u, RecordWrites(u.hdr["fileSize"], path, rec),
              [hdr |-> u.hdr, hash |-> u.hash,
               cells |-> WriteRecord(u.cells, u.hdr["fileSize"], path, rec),
               spilled |-> u.spilled])
    BY <1>2, RecordAddsUp
  <2>3. w = [hdr |-> u.hdr, hash |-> u.hash,
             cells |-> WriteRecord(u.cells, u.hdr["fileSize"], path, rec),
             spilled |-> u.spilled]
    BY <2>1 DEF Laden
  <2> HIDE DEF w
  <2> QED
    BY <2>1, <2>2, <2>3
<1>4. /\ Roomy(w) /\ entry \in Cell /\ entry.tag = "entry"
      /\ w.hdr = f.hdr
      /\ base + Size(rec.content) \in Nat
  BY LadenRoomy DEF Laden
<1>5. last \in Put /\ last.do = "header"
  BY <1>4, PutKinds DEF RecordHeader, HeaderWord
<1>6. g = Ended(e, last) /\ g \in Image
  BY <1>1, EndedStores, StoreRecordType
<1>7. StoreWrites(Only, path, rec) = p \o q \o <<last>>
  BY DEF StoreWrites, RecordEntry, RecordHeader
<1>8. p \in Seq(Put)
  BY <1>1, RecordQueue
<1> HIDE DEF u, w, entry, last, g, p, base
<1>9. RunsTo(w, q, e) /\ q \in Seq(Put)
  BY <1>4, EnteringAddsUp
<1>10. Roomy(e)
  BY <1>4, EnterRoomy
<1> HIDE DEF q, e
<1>11. Effect(e, last) = g
  BY <1>5, <1>6 DEF Effect
<1>12. RunsTo(e, <<last>>, g) /\ <<last>> \in Seq(Put)
  BY <1>5, <1>6, <1>10, <1>11, RunOnce, TwoPuts DEF Roomy
<1>13. RunsTo(u, p \o q, e) /\ p \o q \in Seq(Put)
  BY <1>3, <1>8, <1>9, RunOn
<1> DEFINE t == p \o q
<1> HIDE DEF t
<1>14. RunsTo(u, t \o <<last>>, g)
  BY <1>12, <1>13, RunOn DEF t
<1> QED
  BY <1>7, <1>14 DEF t, u, g

(* Those of an alias. *)
LEMMA AliasAddsUp ==
    ASSUME OneHandle, NEW f, Roomy(f), hdr[Only] = f.hdr,
           NEW entry \in Cell, entry.tag = "entry"
    PROVE  RunsTo(f, EntryWrites(Only, entry) \o <<PutHeader("numberAliases", 0, Empty)>>,
                 Count(EnterBin(f, entry), "numberAliases"))
<1> DEFINE e == EnterBin(f, entry)
           q == EntryWrites(Only, entry)
           last == PutHeader("numberAliases", 0, Empty)
<1>1. RunsTo(f, q, e) /\ q \in Seq(Put)
  BY EnteringAddsUp
<1>2. e \in Image
  BY EnterRoomy DEF Roomy
<1> HIDE DEF e, q
<1>3. RunsTo(e, <<last>>, Count(e, "numberAliases")) /\ last \in Put
  BY <1>2, CountAddsUp DEF Counter
<1> HIDE DEF last
<1>4. <<last>> \in Seq(Put)
  BY <1>3, TwoPuts
<1>5. RunsTo(f, q \o <<last>>, Count(e, "numberAliases"))
  BY <1>1, <1>3, <1>4, RunOn
<1> QED
  BY <1>5 DEF e, q, last

(* Those of a mark, with a header and without. *)
LEMMA MarkAddsUp ==
    ASSUME NEW f \in Image, NEW slot \in DOMAIN f.cells, HasTag(f, slot, "entry"),
           NEW status \in Status
    PROVE  LET put == PutStatus(slot, status)
               g == SetStatus(f, slot, status)
           IN  /\ RunsTo(f, <<put>>, g)
               /\ \A word \in Counter :
                      RunsTo(f, <<put, PutHeader(word, 0, Empty)>>, Count(g, word))
<1> DEFINE put == PutStatus(slot, status)
           g == SetStatus(f, slot, status)
<1>1. g \in Image
  BY SetStatusType
<1>2. put.do = "status" /\ put.slot = slot /\ put.status = status /\ put \in Put
  <2>1. slot \in Nat
    BY ImageFields
  <2> QED
    BY <2>1 DEF PutStatus, Put
<1> HIDE DEF put
<1>3. Effect(f, put) = g
  BY <1>2 DEF Effect
<1> HIDE DEF g
<1>4. RunsTo(f, <<put>>, g)
  BY <1>1, <1>3, RunOnce
<1>5. ASSUME NEW word \in Counter
      PROVE  RunsTo(f, <<put, PutHeader(word, 0, Empty)>>, Count(g, word))
  <2> DEFINE last == PutHeader(word, 0, Empty)
  <2>1. RunsTo(g, <<last>>, Count(g, word)) /\ last \in Put
    BY <1>1, CountAddsUp
  <2> HIDE DEF last
  <2>2. <<put>> \in Seq(Put) /\ <<last>> \in Seq(Put) /\ <<put>> \o <<last>> = <<put, last>>
    BY <1>2, <2>1, TwoPuts
  <2>3. RunsTo(f, <<put>> \o <<last>>, Count(g, word))
    BY <1>4, <2>1, <2>2, RunOn
  <2> QED
    BY <2>2, <2>3 DEF last
<1> QED
  BY <1>4, <1>5 DEF put, g

\* The file as the handle sees it, and how a queue of writes ends: with the
\* header, or with a status that needs none.
Seen == [hdr |-> hdr[Only], hash |-> disk.hash, cells |-> disk.cells,
         spilled |-> disk.spilled]

Closes(q) ==
    \/ q[Len(q)].do = "header"
    \/ Len(q) = 1 /\ q[1].do = "status" /\ hdr[Only] = disk.hdr

\* Without faults the writes still to come make one operation on the file as
\* it was when the last one completed.
AddsUp ==
    faults = 0 =>
        /\ Roomy(settled) /\ disk.hdr = settled.hdr
        /\ IF job[Only] = << >> THEN Seen = settled
           ELSE /\ \E g : RunsTo(Seen, job[Only], g) /\ Does(settled, g)
                /\ Closes(job[Only])

(* Between operations the file is what the handle sees of it. *)
LEMMA AtRest ==
    ASSUME HandlesTypeOK, AddsUp, faults = 0, job[Only] = << >>
    PROVE  disk = settled /\ hdr[Only] = settled.hdr
<1>1. Seen = settled /\ disk.hdr = settled.hdr /\ disk \in Image
  BY DEF AddsUp, HandlesTypeOK
<1>2. Seen.hdr = hdr[Only]
  BY DEF Seen
<1>3. disk = [hdr |-> disk.hdr, hash |-> disk.hash, cells |-> disk.cells,
              spilled |-> disk.spilled]
  BY <1>1 DEF Image
<1> QED
  BY <1>1, <1>2, <1>3 DEF Seen

(* Queues that end with a header. *)
LEMMA HeaderCloses ==
    ASSUME NEW s \in Seq(Put), NEW last \in Put, last.do = "header"
    PROVE  LET q == s \o <<last>>
           IN  q # << >> /\ q[Len(q)].do = "header"
<1> DEFINE q == s \o <<last>>
<1>1. Len(q) = Len(s) + 1 /\ q[Len(s) + 1] = last /\ Len(s) \in Nat
  OBVIOUS
<1>2. Len(q) # 0
  BY <1>1
<1>3. Len(<< >>) = 0
  OBVIOUS
<1> HIDE DEF q
<1>4. q # << >>
  BY <1>2, <1>3
<1> QED
  BY <1>1, <1>4 DEF q

(* An operation begins: its writes add up to it. *)
LEMMA BegunAddsUp ==
    ASSUME OneHandle, HandlesTypeOK, AddsUp, NEW q,
           job[Only] = << >>, job' = [job EXCEPT ![Only] = q],
           UNCHANGED <<hdr, faults, ghosts>>, disk'.hdr = disk.hdr,
           faults = 0 => /\ q # << >>
                         /\ \E g : RunsTo(Seen', q, g) /\ Does(settled, g)
                         /\ q[Len(q)].do = "header" \/ (Len(q) = 1 /\ q[1].do = "status")
    PROVE  AddsUp'
<1> SUFFICES ASSUME faults' = 0
             PROVE  /\ Roomy(settled') /\ disk'.hdr = settled'.hdr
                    /\ job'[Only] # << >>
                    /\ \E g : RunsTo(Seen', job'[Only], g) /\ Does(settled', g)
                    /\ Closes(job[Only])'
  BY DEF AddsUp
<1>1. faults = 0 /\ settled' = settled /\ hdr' = hdr
  BY DEF ghosts
<1>2. job'[Only] = q
  BY DEF OneHandle, HandlesTypeOK
<1>3. Roomy(settled) /\ disk'.hdr = settled.hdr
  BY <1>1 DEF AddsUp
<1>4. hdr[Only] = disk.hdr
  BY <1>1, AtRest
<1> QED
  BY <1>1, <1>2, <1>3, <1>4 DEF Closes

(* ... as a store does from its first write on, *)
LEMMA StoreIsBegunWhole ==
    ASSUME OneHandle, HandlesTypeOK, AddsUp, Store(Only)
    PROVE  AddsUp'
<1>1. PICK path \in Path, rec \in Storable : BeginStore(Only, path, rec)
  BY DEF Store
<1> DEFINE q == StoreWrites(Only, path, rec)
<1>2. /\ job[Only] = << >> /\ job' = [job EXCEPT ![Only] = q]
      /\ UNCHANGED <<hdr, faults, ghosts>>
      /\ hdr[Only]["totalBins"] < MaxBins
      /\ disk' = [disk EXCEPT !.spilled = @ \/ hdr[Only]["binsRemain"] <= 0]
  BY <1>1 DEF BeginStore, Begin, Idle, Room
<1>3. /\ disk'.hdr = disk.hdr /\ disk'.hash = disk.hash /\ disk'.cells = disk.cells
      /\ disk'.spilled = (disk.spilled \/ hdr[Only]["binsRemain"] <= 0)
      /\ rec \in Record
  BY <1>2, HandleAssumption DEF HandlesTypeOK, Image
<1>4. ASSUME faults = 0
      PROVE  /\ q # << >>
             /\ \E g : RunsTo(Seen', q, g) /\ Does(settled, g)
             /\ q[Len(q)].do = "header"
  <2>1. disk = settled /\ hdr[Only] = settled.hdr /\ Roomy(settled)
    BY <1>2, <1>4, AtRest DEF AddsUp
  <2>2. RunsTo([hdr |-> settled.hdr, hash |-> settled.hash, cells |-> settled.cells,
               spilled |-> settled.spilled \/ settled.hdr["binsRemain"] <= 0],
              q, StoreRecord(settled, path, rec))
    BY <1>3, <2>1, StoreAddsUp
  <2>3. Seen' = [hdr |-> settled.hdr, hash |-> settled.hash, cells |-> settled.cells,
                 spilled |-> settled.spilled \/ settled.hdr["binsRemain"] <= 0]
    BY <1>2, <1>3, <2>1 DEF Seen
  <2>4. Does(settled, StoreRecord(settled, path, rec))
    BY <1>2, <2>1 DEF Does, DoesStore
  <2>5. q # << >> /\ q[Len(q)].do = "header"
    <3> DEFINE base == settled.hdr["fileSize"]
               entry == RecordEntry(settled, path, rec)
               last == RecordHeader(settled, path, rec)
               s == RecordWrites(base, path, rec)
               e == EntryWrites(Only, entry)
    <3>1. q = (s \o e) \o <<last>>
      BY <2>1 DEF StoreWrites, RecordEntry, RecordHeader
    <3>2. /\ entry \in Cell /\ entry.tag = "entry" /\ base \in Nat
          /\ base + Size(rec.content) \in Nat
      BY <1>3, <2>1, LadenRoomy, ImageFields, SlotPlaces DEF Roomy
    <3>3. s \in Seq(Put)
      BY <1>3, <3>2, RecordQueue
    <3>4. last \in Put /\ last.do = "header"
      BY <3>2, PutKinds DEF RecordHeader, HeaderWord
    <3>5. e \in Seq(Put)
      BY <2>1, <3>2, EnteringAddsUp
    <3> HIDE DEF q, s, e, last
    <3>6. s \o e \in Seq(Put)
      BY <3>3, <3>5
    <3> QED
      BY <3>1, <3>4, <3>6, HeaderCloses
  <2> QED
    BY <2>2, <2>3, <2>4, <2>5
<1> HIDE DEF q
<1> QED
  BY <1>2, <1>3, <1>4, BegunAddsUp

(* ... and an alias, *)
LEMMA AliasIsBegunWhole ==
    ASSUME OneHandle, HandlesTypeOK, AddsUp, Alias(Only)
    PROVE  AddsUp'
<1>1. PICK primary \in Path, alias \in Path : BeginAlias(Only, primary, alias)
  BY DEF Alias
<1> DEFINE slot == FindRecord(disk, primary)
           found == disk.cells[slot]
           entry == Entry(alias, "ALIAS", found.info, found.type)
           e == EntryWrites(Only, entry)
           last == PutHeader("numberAliases", 0, Empty)
           q == e \o <<last>>
<1>2. /\ job[Only] = << >> /\ job' = [job EXCEPT ![Only] = q]
      /\ UNCHANGED <<hdr, faults, ghosts>> /\ disk' = disk
      /\ hdr[Only]["totalBins"] < MaxBins /\ slot # 0
  BY <1>1 DEF BeginAlias, Begin, Idle, Room
<1>3. ASSUME faults = 0
      PROVE  /\ q # << >>
             /\ \E g : RunsTo(Seen', q, g) /\ Does(settled, g)
             /\ q[Len(q)].do = "header"
  <2>1. disk = settled /\ hdr[Only] = settled.hdr /\ Roomy(settled) /\ disk \in Image
    BY <1>2, <1>3, AtRest DEF AddsUp, HandlesTypeOK
  <2>2. entry \in Cell /\ entry.tag = "entry"
    BY <1>2, <2>1, FoundRecord, FoundEntry DEF Entry, Cell, Status, Address
  <2>3. Seen' = settled
    <3>1. Seen = settled
      BY <1>2, <1>3 DEF AddsUp
    <3> QED
      BY <1>2, <3>1 DEF Seen
  <2> DEFINE g == Count(EnterBin(settled, entry), "numberAliases")
  <2>4. Does(settled, g)
    BY <1>2, <2>1 DEF Does, DoesAlias
  <2> HIDE DEF entry
  <2>5. RunsTo(settled, q, g)
    BY <2>1, <2>2, AliasAddsUp
  <2>6. e \in Seq(Put)
    BY <2>1, <2>2, EnteringAddsUp
  <2>7. last \in Put /\ last.do = "header"
    BY PutKinds DEF HeaderWord
  <2>8. q # << >> /\ q[Len(q)].do = "header"
    BY <2>6, <2>7, HeaderCloses
  <2> QED
    BY <2>3, <2>4, <2>5, <2>8
<1> HIDE DEF q
<1> QED
  BY <1>2, <1>3, BegunAddsUp

(* ... and a delete, an undelete and the removal of an alias. *)
LEMMA MarkIsBegunWhole ==
    ASSUME OneHandle, HandlesTypeOK, AddsUp, Mark(Only)
    PROVE  AddsUp'
<1>1. PICK path \in Path :
         BeginDelete(Only, path) \/ BeginUndelete(Only, path) \/ BeginAliasRemove(Only, path)
  BY DEF Mark
<1>2. ASSUME NEW slot, NEW status \in Status, NEW q,
             job[Only] = << >>, job' = [job EXCEPT ![Only] = q],
             UNCHANGED <<hdr, faults, ghosts>>, disk' = disk,
             HasTag(disk, slot, "entry"),
             \/ /\ q = <<PutStatus(slot, status)>>
                /\ faults = 0 => Does(settled, SetStatus(settled, slot, status))
             \/ \E word \in Counter :
                    /\ q = <<PutStatus(slot, status), PutHeader(word, 0, Empty)>>
                    /\ faults = 0 =>
                           Does(settled, Count(SetStatus(settled, slot, status), word))
      PROVE  AddsUp'
  <2>1. ASSUME faults = 0
        PROVE  /\ q # << >>
               /\ \E g : RunsTo(Seen', q, g) /\ Does(settled, g)
               /\ q[Len(q)].do = "header" \/ (Len(q) = 1 /\ q[1].do = "status")
    <3>1. disk = settled /\ settled \in Image
      BY <1>2, <2>1, AtRest DEF HandlesTypeOK
    <3>2. Seen' = settled
      <4>1. Seen = settled
        BY <1>2, <2>1 DEF AddsUp
      <4> QED
        BY <1>2, <4>1 DEF Seen
    <3>3. slot \in DOMAIN settled.cells /\ HasTag(settled, slot, "entry")
      BY <1>2, <3>1 DEF HasTag
    <3>4. /\ RunsTo(settled, <<PutStatus(slot, status)>>, SetStatus(settled, slot, status))
          /\ \A word \in Counter :
                 RunsTo(settled, <<PutStatus(slot, status), PutHeader(word, 0, Empty)>>,
                       Count(SetStatus(settled, slot, status), word))
      BY <3>1, <3>3, MarkAddsUp
    <3>5. \E g : RunsTo(settled, q, g) /\ Does(settled, g)
      BY <1>2, <2>1, <3>4
    <3>6. CASE q = <<PutStatus(slot, status)>>
      <4>1. Len(q) = 1 /\ q[1].do = "status" /\ q # << >>
        BY <3>6 DEF PutStatus
      <4> QED
        BY <3>2, <3>5, <4>1
    <3>7. ASSUME NEW word \in Counter,
                 q = <<PutStatus(slot, status), PutHeader(word, 0, Empty)>>
          PROVE  q # << >> /\ q[Len(q)].do = "header"
      BY <3>7 DEF PutHeader
    <3> QED
      BY <1>2, <3>2, <3>5, <3>6, <3>7
  <2> QED
    BY <1>2, <2>1, BegunAddsUp
<1>3. /\ {"DELETED", "ALIAS_DELETED", "PRIMARY"} \subseteq Status
      /\ {"numberDeletes", "numberAliasDeletes"} \subseteq Counter
      /\ disk \in Image
  BY DEF Status, Counter, HandlesTypeOK
<1>4. job[Only] = << >> /\ faults = 0 => disk = settled /\ hdr[Only] = settled.hdr
  BY AtRest
<1>5. \A status : /\ SlotWith(path, status) = StatusSlot(disk, path, status)
                  /\ SlotWith(path, status) # 0
                       => HasTag(disk, SlotWith(path, status), "entry")
  BY DEF SlotWith, StatusSlot
<1>6. CASE BeginDelete(Only, path)
  <2> DEFINE slot == FindRecord(disk, path)
  <2>1. /\ job[Only] = << >>
        /\ job' = [job EXCEPT ![Only] = <<PutStatus(slot, "DELETED"),
                                          PutHeader("numberDeletes", 0, Empty)>>]
        /\ UNCHANGED <<hdr, faults, ghosts>> /\ disk' = disk
        /\ slot # 0 /\ hdr[Only]["numberDeletes"] < MaxDeletes
    BY <1>6 DEF BeginDelete, Begin, Idle
  <2>2. HasTag(disk, slot, "entry")
    BY <1>3, <2>1, FoundRecord
  <2>3. faults = 0 => Does(settled, Count(SetStatus(settled, slot, "DELETED"),
                                          "numberDeletes"))
    BY <1>4, <2>1 DEF Does, DoesMark
  <2> HIDE DEF slot
  <2> QED
    BY <1>2, <1>3, <2>1, <2>2, <2>3
<1>7. CASE BeginAliasRemove(Only, path)
  <2> DEFINE slot == SlotWith(path, "ALIAS")
  <2>1. /\ job[Only] = << >>
        /\ job' = [job EXCEPT ![Only] = <<PutStatus(slot, "ALIAS_DELETED"),
                                          PutHeader("numberAliasDeletes", 0, Empty)>>]
        /\ UNCHANGED <<hdr, faults, ghosts>> /\ disk' = disk
        /\ slot # 0 /\ hdr[Only]["numberAliasDeletes"] < MaxDeletes
    BY <1>7 DEF BeginAliasRemove, Begin, Idle
  <2>2. HasTag(disk, slot, "entry") /\ slot = StatusSlot(disk, path, "ALIAS")
    BY <1>5, <2>1
  <2> HIDE DEF slot
  <2>3. faults = 0 => Does(settled, Count(SetStatus(settled, slot, "ALIAS_DELETED"),
                                          "numberAliasDeletes"))
    BY <1>4, <2>1, <2>2 DEF Does, DoesMark
  <2> QED
    BY <1>2, <1>3, <2>1, <2>2, <2>3
<1>8. CASE BeginUndelete(Only, path)
  <2> DEFINE slot == SlotWith(path, "DELETED")
  <2>1. /\ job[Only] = << >>
        /\ job' = [job EXCEPT ![Only] = <<PutStatus(slot, "PRIMARY")>>]
        /\ UNCHANGED <<hdr, faults, ghosts>> /\ disk' = disk
        /\ slot # 0
    BY <1>8 DEF BeginUndelete, Begin, Idle
  <2>2. HasTag(disk, slot, "entry") /\ slot = StatusSlot(disk, path, "DELETED")
    BY <1>5, <2>1
  <2> HIDE DEF slot
  <2>3. faults = 0 => Does(settled, SetStatus(settled, slot, "PRIMARY"))
    BY <1>4, <2>1, <2>2 DEF Does, DoesMark
  <2> QED
    BY <1>2, <1>3, <2>1, <2>2, <2>3
<1> QED
  BY <1>1, <1>6, <1>7, <1>8

(* A write, as the handle sees the file behind it. *)
LEMMA SeenBehind ==
    ASSUME OneHandle, HandlesTypeOK, NEW put \in Put,
           disk' = Written(Only, put),
           hdr' = [hdr EXCEPT ![Only] = Remembered(Only, put)]
    PROVE  /\ Seen' = Effect(Seen, put)
           /\ put.do # "header" => disk'.hdr = disk.hdr
           /\ put.do = "header" => disk'.hdr = hdr'[Only]
           /\ put.do = "status" => hdr'[Only] = hdr[Only]
<1> DEFINE new == Remembered(Only, put)
           g == Written(Only, put)
           start == hdr[Only]["fileSize"]
           next == hdr[Only]["nextBin"]
           With(h, t, c) == [hdr |-> h, hash |-> t, cells |-> c,
                             spilled |-> disk.spilled]
<1>1. hdr'[Only] = new /\ disk' = g
  BY DEF OneHandle, HandlesTypeOK
<1>2. Seen' = [hdr |-> new, hash |-> g.hash, cells |-> g.cells, spilled |-> g.spilled]
  BY <1>1 DEF Seen
<1>3. View(Only) = Seen
  <2>1. View(Only) \in Image
    BY ViewType
  <2>2. View(Only) = [hdr |-> View(Only).hdr, hash |-> View(Only).hash,
                      cells |-> View(Only).cells, spilled |-> View(Only).spilled]
    BY <2>1 DEF Image
  <2> QED
    BY <2>2, ViewType DEF Seen
<1>4. /\ Seen.hdr = hdr[Only] /\ Seen.hash = disk.hash /\ Seen.cells = disk.cells
      /\ Seen.spilled = disk.spilled
  BY DEF Seen
<1>5. put.do \in Kind
  BY PutTypes
<1>6. CASE put.do = "cell"
  <2>1. g = With(disk.hdr, disk.hash, Overwritten(disk.cells, put.at, put.cell))
    BY <1>6, WrittenParts
  <2>2. new = hdr[Only]
    BY <1>6 DEF Remembered
  <2>3. Effect(Seen, put) = With(hdr[Only], disk.hash,
                                 Overwritten(disk.cells, put.at, put.cell))
    BY <1>4, <1>6 DEF Effect
  <2> HIDE DEF g, new
  <2> QED
    BY <1>1, <1>2, <1>6, <2>1, <2>2, <2>3
<1>7. CASE put.do = "block"
  <2>1. g = With(disk.hdr, disk.hash, Zeroed(start, start + BlockSize))
    BY <1>7, WrittenParts
  <2>2. new = hdr[Only]
    BY <1>7 DEF Remembered
  <2>3. Effect(Seen, put) = With(hdr[Only], disk.hash,
                                 Cleared(disk.cells, start, start + BlockSize))
    BY <1>4, <1>7 DEF Effect
  <2>4. Cleared(disk.cells, start, start + BlockSize) = Zeroed(start, start + BlockSize)
    BY DEF Cleared, Zeroed
  <2> HIDE DEF g, new
  <2> QED
    BY <1>1, <1>2, <1>7, <2>1, <2>2, <2>3, <2>4
<1>8. CASE put.do = "pointer"
  <2>1. g = With(disk.hdr, disk.hash, Overwritten(disk.cells, next, Ptr(start)))
    BY <1>8, WrittenParts
  <2>2. new = AllocateNewBinBlock(Seen).hdr
    BY <1>3, <1>8 DEF Remembered
  <2>3. Effect(Seen, put) = With(AllocateNewBinBlock(Seen).hdr, disk.hash,
                                 Overwritten(disk.cells, next, Ptr(start)))
    BY <1>4, <1>8 DEF Effect
  <2> HIDE DEF g, new
  <2> QED
    BY <1>1, <1>2, <1>8, <2>1, <2>2, <2>3
<1>9. CASE put.do = "entry"
  <2>1. g = With(disk.hdr, disk.hash, Overwritten(disk.cells, next, put.entry))
    BY <1>9, WrittenParts
  <2>2. new = hdr[Only]
    BY <1>9 DEF Remembered
  <2>3. Effect(Seen, put) = With(hdr[Only], disk.hash,
                                 Overwritten(disk.cells, next, put.entry))
    BY <1>4, <1>9 DEF Effect
  <2> HIDE DEF g, new
  <2> QED
    BY <1>1, <1>2, <1>9, <2>1, <2>2, <2>3
<1>10. CASE put.do = "hash"
  <2>1. g = With(disk.hdr, TakeSlot(Seen, put.entry).hash, disk.cells)
    BY <1>3, <1>10, WrittenParts
  <2>2. new = TakeSlot(Seen, put.entry).hdr
    BY <1>3, <1>10 DEF Remembered
  <2>3. Effect(Seen, put) = With(TakeSlot(Seen, put.entry).hdr,
                                 TakeSlot(Seen, put.entry).hash, disk.cells)
    BY <1>4, <1>10 DEF Effect
  <2> HIDE DEF g, new
  <2> QED
    BY <1>1, <1>2, <1>10, <2>1, <2>2, <2>3
<1>11. CASE put.do = "status"
  <2>1. g = SetStatus(disk, put.slot, put.status)
    BY <1>11, WrittenParts
  <2>2. new = hdr[Only]
    BY <1>11 DEF Remembered
  <2>3. Effect(Seen, put) = SetStatus(Seen, put.slot, put.status)
    BY <1>11 DEF Effect
  <2>4. /\ g.hdr = disk.hdr /\ g.hash = disk.hash /\ g.spilled = disk.spilled
        /\ SetStatus(Seen, put.slot, put.status) = With(hdr[Only], disk.hash, g.cells)
    BY <1>4, <2>1 DEF SetStatus
  <2> HIDE DEF g, new
  <2> QED
    BY <1>1, <1>2, <1>11, <2>2, <2>3, <2>4
<1>12. CASE put.do = "header"
  <2>1. g = With(Closed(Only, put), disk.hash, disk.cells)
    BY <1>12, WrittenParts
  <2>2. new = Closed(Only, put)
    BY <1>12 DEF Remembered
  <2>3. Effect(Seen, put) = Ended(Seen, put)
    BY <1>12 DEF Effect
  <2>4. Ended(Seen, put) = With(Closed(Only, put), disk.hash, disk.cells)
    BY <1>4 DEF Ended, Closed
  <2> HIDE DEF g, new
  <2> QED
    BY <1>1, <1>2, <1>12, <2>1, <2>2, <2>3, <2>4
<1> QED
  BY <1>5, <1>6, <1>7, <1>8, <1>9, <1>10, <1>11, <1>12 DEF Kind

(* A write leads on; the last one completes the operation. *)
LEMMA WriteAddsUp ==
    ASSUME OneHandle, HandlesInv, HandlesTypeOK', AddsUp, Write(Only)
    PROVE  /\ AddsUp'
           /\ faults' = 0 => settled' = settled \/ Does(settled, settled')
<1> DEFINE q == job[Only]
           put == Head(q)
<1>1. /\ q # << >> /\ disk' = Written(Only, put)
      /\ hdr' = [hdr EXCEPT ![Only] = Remembered(Only, put)]
      /\ Complete(Only, put) /\ job' = [job EXCEPT ![Only] = Tail(@)]
      /\ faults' = faults
  BY DEF Write, Idle
<1>2. HandlesTypeOK /\ q \in Seq(Put) /\ InOrder(q)
  BY DEF HandlesInv, HandlesTypeOK, QueueOK, OneHandle
<1>3. job'[Only] = Tail(q)
  BY <1>1, <1>2 DEF HandlesTypeOK, OneHandle
<1> SUFFICES ASSUME faults = 0
             PROVE  /\ AddsUp'
                    /\ settled' = settled \/ Does(settled, settled')
  BY <1>1 DEF AddsUp
<1>4. /\ put \in Put /\ Len(q) \in Nat \ {0} /\ Len(Tail(q)) = Len(q) - 1
      /\ Tail(q) \in Seq(Put) /\ put = q[1]
      /\ \A i \in 1..Len(Tail(q)) : Tail(q)[i] = q[i + 1]
  BY <1>1, <1>2, QueueTail
<1>5. PICK g : RunsTo(Seen, q, g) /\ Does(settled, g)
  BY <1>1 DEF AddsUp
<1>6. Closes(q) /\ Roomy(settled) /\ disk.hdr = settled.hdr
  BY <1>1 DEF AddsUp
<1>7. /\ Seen' = Effect(Seen, put)
      /\ put.do # "header" => disk'.hdr = disk.hdr
      /\ put.do = "header" => disk'.hdr = hdr'[Only]
      /\ put.do = "status" => hdr'[Only] = hdr[Only]
  BY <1>1, <1>2, <1>4, SeenBehind
<1>8. RunsTo(Seen', Tail(q), g) /\ (Len(q) = 1 => g = Seen')
  BY <1>1, <1>2, <1>5, <1>7, RunFurther
<1>9. CASE Len(q) > 1
  <2>1. settled' = settled
    BY <1>1, <1>9 DEF Complete, ghosts
  <2>2. put.do # "header"
    BY <1>1, <1>2, <1>9, HeaderIsLast
  <2>3. Tail(q) # << >>
    <3>1. Len(Tail(q)) # 0 /\ Len(<< >>) = 0
      BY <1>4, <1>9
    <3> QED
      BY <3>1
  <2>4. Tail(q)[Len(Tail(q))].do = "header"
    <3>1. Len(Tail(q)) \in 1..Len(Tail(q)) /\ Len(Tail(q)) + 1 = Len(q)
      BY <1>4, <1>9
    <3>2. Tail(q)[Len(Tail(q))] = q[Len(q)]
      BY <1>4, <3>1
    <3>3. q[Len(q)].do = "header"
      BY <1>6, <1>9 DEF Closes
    <3> QED
      BY <3>2, <3>3
  <2>5. Closes(job[Only])'
    BY <1>3, <2>4 DEF Closes
  <2>6. disk'.hdr = settled'.hdr
    BY <1>6, <1>7, <2>1, <2>2
  <2>7. \E h : RunsTo(Seen', job'[Only], h) /\ Does(settled', h)
    BY <1>3, <1>5, <1>8, <2>1
  <2> QED
    BY <1>3, <1>6, <2>1, <2>3, <2>5, <2>6, <2>7 DEF AddsUp
<1>10. CASE ~ Len(q) > 1
  <2>1. Len(q) = 1 /\ Len(Tail(q)) = 0
    <3> DEFINE n == Len(q)
               rest == Tail(q)
    <3> HIDE DEF n, rest
    <3>1. n \in Nat \ {0} /\ ~ n > 1 /\ Len(rest) = n - 1
      BY <1>4, <1>10 DEF n, rest
    <3>2. n = 1 /\ Len(rest) = 0
      BY <3>1
    <3> QED
      BY <3>2 DEF n, rest
  <2>2. job'[Only] = << >>
    <3> DEFINE rest == Tail(q)
    <3> HIDE DEF rest
    <3>1. rest \in Seq(Put) /\ Len(rest) = 0
      BY <1>4, <2>1 DEF rest
    <3>2. rest = << >>
      BY <3>1
    <3> QED
      BY <1>3, <3>2 DEF rest
  <2>3. settled' = disk'
    BY <1>1, <1>10 DEF Complete
  <2>4. disk'.hdr = hdr'[Only]
    <3>1. CASE put.do = "header"
      BY <1>7, <3>1
    <3>2. CASE put.do # "header"
      <4>1. put.do = "status" /\ hdr[Only] = disk.hdr
        BY <1>4, <1>6, <2>1, <3>2 DEF Closes
      <4> QED
        BY <1>7, <4>1
    <3> QED
      BY <3>1, <3>2
  <2>5. Seen' = disk'
    <3>1. disk' \in Image
      BY DEF HandlesTypeOK
    <3>2. disk' = [hdr |-> disk'.hdr, hash |-> disk'.hash, cells |-> disk'.cells,
                   spilled |-> disk'.spilled]
      BY <3>1 DEF Image
    <3> QED
      BY <2>4, <3>2 DEF Seen
  <2>6. Does(settled, settled')
    BY <1>5, <1>8, <2>1, <2>3, <2>5
  <2>7. Roomy(settled')
    BY <1>6, <2>6, DoesRoomy
  <2> QED
    BY <2>2, <2>3, <2>5, <2>6, <2>7 DEF AddsUp
<1> QED
  BY <1>9, <1>10

(* Without faults nothing breaks off, and a file opened again between two
   operations shows what it showed before. *)
LEMMA ReopenAddsUp ==
    ASSUME OneHandle, HandlesTypeOK, AddsUp, Reopen(Only)
    PROVE  AddsUp'
<1>1. /\ job[Only] = << >> /\ hdr' = [hdr EXCEPT ![Only] = disk.hdr]
      /\ UNCHANGED <<disk, job, faults, ghosts>>
  BY DEF Reopen, Idle
<1>2. SUFFICES ASSUME faults = 0 PROVE AddsUp'
  BY <1>1 DEF AddsUp
<1>3. disk = settled /\ hdr[Only] = settled.hdr /\ Seen = settled /\ Roomy(settled)
  BY <1>1, <1>2, AtRest DEF AddsUp
<1>4. hdr'[Only] = hdr[Only]
  BY <1>1, <1>3 DEF OneHandle, HandlesTypeOK
<1>5. Seen' = settled
  BY <1>1, <1>3, <1>4 DEF Seen
<1> QED
  BY <1>1, <1>3, <1>5 DEF AddsUp, ghosts

(* A write that fails and a process that dies are faults. *)
LEMMA BrokenAddsUp ==
    ASSUME HandlesTypeOK, BreakOff(Only)
    PROVE  AddsUp' /\ faults' # 0
<1>1. faults' = faults + 1 /\ faults \in Nat
  BY HandleAssumption DEF BreakOff, HandlesTypeOK
<1> QED
  BY <1>1 DEF AddsUp

(* A new file. *)
LEMMA InitAddsUp ==
    ASSUME OneHandle, Init
    PROVE  AddsUp /\ Atomic!Init
<1>1. /\ disk = NewFile /\ hdr[Only] = NewFile.hdr /\ job[Only] = << >>
      /\ settled = NewFile
  BY DEF Init, OneHandle
<1>2. NewFile = [hdr |-> NewFile.hdr, hash |-> NewFile.hash, cells |-> NewFile.cells,
                 spilled |-> NewFile.spilled]
  BY NewFileType DEF Image
<1>3. Seen = NewFile
  BY <1>1, <1>2 DEF Seen
<1>4. Atomic!Init
  BY <1>1, SameOperations DEF Atomic!Init
<1> QED
  BY <1>1, <1>3, <1>4, NewFileRoomy DEF AddsUp

(* The writes of a step, together with those before it, are an operation or  *)
(* none yet.                                                                 *)
LEMMA StepAddsUp ==
    ASSUME OneHandle, HandlesInv, HandlesTypeOK', AddsUp, [Next]_vars
    PROVE  AddsUp' /\ (faults' = 0 => settled' = settled \/ Does(settled, settled'))
<1>0. HandlesTypeOK
  BY DEF HandlesInv
<1>1. CASE UNCHANGED vars
  <2>1. AddsUp' = AddsUp
    BY <1>1 DEF vars, ghosts, AddsUp, Seen, Closes
  <2> QED
    BY <1>1, <2>1 DEF vars, ghosts
<1>2. CASE Next
  <2>1. PICK h \in Handle :
           Store(h) \/ Alias(h) \/ Mark(h) \/ Write(h) \/ Fail(h) \/ Crash(h) \/ Reopen(h)
    BY <1>2 DEF Next
  <2>2. h = Only
    BY DEF OneHandle
  <2>3. CASE Store(h)
    <3>1. settled' = settled
      BY <2>3 DEF Store, BeginStore, Begin, ghosts
    <3> QED
      BY <1>0, <2>2, <2>3, <3>1, StoreIsBegunWhole
  <2>4. CASE Alias(h)
    <3>1. settled' = settled
      BY <2>4 DEF Alias, BeginAlias, Begin, ghosts
    <3> QED
      BY <1>0, <2>2, <2>4, <3>1, AliasIsBegunWhole
  <2>5. CASE Mark(h)
    <3>1. settled' = settled
      BY <2>5 DEF Mark, BeginDelete, BeginUndelete, BeginAliasRemove, Begin, ghosts
    <3> QED
      BY <1>0, <2>2, <2>5, <3>1, MarkIsBegunWhole
  <2>6. CASE Write(h)
    BY <2>2, <2>6, WriteAddsUp
  <2>7. CASE Fail(h) \/ Crash(h)
    <3>1. BreakOff(Only)
      BY <2>2, <2>7 DEF Fail, Crash
    <3> QED
      BY <1>0, <3>1, BrokenAddsUp
  <2>8. CASE Reopen(h)
    <3>1. settled' = settled
      BY <2>8 DEF Reopen, ghosts
    <3> QED
      BY <1>0, <2>2, <2>8, <3>1, ReopenAddsUp
  <2> QED
    BY <2>1, <2>3, <2>4, <2>5, <2>6, <2>7, <2>8
<1> QED
  BY <1>1, <1>2

(* Without faults the single writes of a handle add up to the operations of  *)
(* NativeDss: whatever its operations are and however often it is opened in  *)
(* between, what a sequence of writes leaves on disk, header included, is    *)
(* what the one step of NativeDss makes of the file before it.               *)
THEOREM WritesAddUp ==
    ASSUME OneHandle, 7 \notin TornAt, Storable \subseteq Writable
    PROVE  Spec => ImplementsNativeDss
<1>1. Init => AddsUp /\ Atomic!Init
  BY InitAddsUp
<1>2. HandlesInv => HandlesTypeOK
  BY DEF HandlesInv
<1>3. HandlesInv /\ HandlesTypeOK' /\ AddsUp /\ [Next]_vars
        => AddsUp' /\ [faults' = 0 => Atomic!Next]_settled
  BY StepAddsUp, DoesIsAtomic
<1>4. Spec => []HandlesInv
  BY HandlesInvHolds
<1> QED
  BY <1>1, <1>2, <1>3, <1>4, PTL DEF Spec, ImplementsNativeDss

-----------------------------------------------------------------------------
(* What a reader finds between two writes.                                 *)

\* What a reader may find behind a change that was not there before it: a
\* record that a caller stores, under a name that read nothing.
Shows(f, g) ==
    \A x \in Path : \/ ReadRecord(g, x) = ReadRecord(f, x)
                    \/ ReadRecord(f, x) = NoRecord /\ ReadRecord(g, x) \in Storable

\* Every name reads a record as it was stored, or nothing.
AsStored(f) == \A x \in Path : ReadRecord(f, x) \in Storable \cup {NoRecord}

(* What a store adds to the names that read something is the record stored, *)
LEMMA StoreShows ==
    ASSUME NEW f, Walkable(f), NEW g, ~ g.spilled,
           NEW path \in Path, NEW rec \in Storable, DoesStore(f, g, path, rec)
    PROVE  Shows(f, g)
<1>1. f \in Image /\ rec \in Record /\ g = StoreRecord(f, path, rec)
  BY HandleAssumption DEF Walkable, Safe, DoesStore
<1>2. ASSUME NEW x \in Path
      PROVE  \/ ReadRecord(g, x) = ReadRecord(f, x)
             \/ ReadRecord(f, x) = NoRecord /\ ReadRecord(g, x) \in Storable
  <2>1. ReadAfterStore(f, g, path, rec, x)
    BY <1>1, StoreIsRead
  <2>2. HashSlot(f, x) = 0 => ReadRecord(f, x) = NoRecord
    BY <1>1, NoSlotNoRecord
  <2> QED
    BY <2>1, <2>2 DEF ReadAfterStore
<1> QED
  BY <1>2 DEF Shows

(* an alias adds the record of its primary, *)
LEMMA AliasShows ==
    ASSUME NEW f, Walkable(f), AsStored(f), NEW g, ~ g.spilled,
           NEW primary \in Path, NEW alias \in Path, DoesAlias(f, g, primary, alias)
    PROVE  Shows(f, g)
<1> DEFINE slot == FindRecord(f, primary)
           rec == RecordAt(f, slot)
           e == [path |-> alias, type |-> rec.type, content |-> rec.content,
                 status |-> "ALIAS"]
<1>1. f \in Image /\ slot # 0 /\ HasTag(f, slot, "entry") /\ slot \in DOMAIN f.cells
  BY FoundRecord DEF Walkable, Safe, DoesAlias, HasTag
<1>2. rec \in Storable \cup {NoRecord} /\ rec = [type |-> rec.type, content |-> rec.content]
  BY DEF AsStored, ReadRecord, RecordAt, NoRecord
<1>3. g = Count(EnterBin(f, Entry(alias, "ALIAS", f.cells[slot].info,
                                  f.cells[slot].type)), "numberAliases")
  BY DEF DoesAlias
<1>4. Change(f, g) /\ ~ f.spilled
  <2> HIDE DEF slot
  <2>1. Aliased(f, g)
    BY <1>1, <1>3 DEF Aliased
  <2> QED
    BY <2>1, SpilledStays DEF Change
<1>5. g \in Image
  BY <1>1, <1>4, ChangeType
<1>6. PICK chain : Walked(f, chain)
  BY <1>4 DEF Walkable
<1>7. PICK new : Walked(g, new) /\ Logs(g, new) = Append(Logs(f, chain), e)
  <2> HIDE DEF slot
  <2> QED
    BY <1>1, <1>3, <1>4, <1>6, AliasedWalk DEF Walkable
<1> DEFINE s == Logs(f, chain)
           n == Len(s)
<1>8. n \in Nat /\ s = [k \in 1..n |-> s[k]]
  <2>1. f.hdr["totalBins"] \in Nat /\ n = f.hdr["totalBins"]
    BY <1>1, <1>6, LogsFields
  <2>2. s = [k \in 1..n |-> Logged(f, SlotAt(chain, k))]
    BY <2>1 DEF Logs
  <2> HIDE DEF s, n
  <2>3. s = [k \in 1..n |-> s[k]]
    BY <2>2
  <2> QED
    BY <2>1, <2>3
<1>9. e.path = alias /\ e.type = rec.type /\ e.content = rec.content
  OBVIOUS
<1> HIDE DEF e, s, rec
<1>10. ASSUME NEW x \in Path
       PROVE  \/ ReadRecord(g, x) = ReadRecord(f, x)
              \/ ReadRecord(f, x) = NoRecord /\ ReadRecord(g, x) \in Storable
  <2>1. SaidOf(f, s, x) /\ SaidOf(g, Append(s, e), x)
    BY <1>1, <1>5, <1>6, <1>7, ListIsRead DEF s
  <2>2. ReadAfterStore(f, g, alias, rec, x)
    <3>1. ReadAfterStore(f, g, e.path, [type |-> e.type, content |-> e.content], x)
      BY <1>8, <2>1, AppendIsRead
    <3> QED
      BY <1>2, <1>9, <3>1
  <2>3. HashSlot(f, x) = 0 => ReadRecord(f, x) = NoRecord
    BY <1>1, NoSlotNoRecord
  <2> QED
    BY <1>2, <2>2, <2>3 DEF ReadAfterStore
<1> QED
  BY <1>10 DEF Shows

(* and a mark nothing. *)
LEMMA MarkShows ==
    ASSUME NEW f, Walkable(f), NEW g, ~ g.spilled, Marked(f, g)
    PROVE  Shows(f, g)
<1> PICK slot \in DOMAIN f.cells, status \in Status :
        /\ HasTag(f, slot, "entry")
        /\ \/ g = SetStatus(f, slot, status)
           \/ \E word \in {"numberDeletes", "numberAliasDeletes"} :
                  g = Count(SetStatus(f, slot, status), word)
  BY DEF Marked
<1> DEFINE entry == Entry(f.cells[slot].path, status, f.cells[slot].info,
                          f.cells[slot].type)
<1>1. f \in Image /\ g \in Image
  BY ChangeType DEF Walkable, Safe, Change
<1>2. /\ g.cells = [f.cells EXCEPT ![slot] = entry]
      /\ g.hash = f.hash /\ g.spilled = f.spilled
  BY DEF SetStatus, Count
<1>3. /\ entry.tag = "entry" /\ entry.path = f.cells[slot].path
      /\ entry.info = f.cells[slot].info
  BY DEF Entry
<1>4. f.cells[slot].tag = "entry"
  BY DEF HasTag
<1> HIDE DEF entry
<1>5. \A i \in DOMAIN f.cells :
         i \in DOMAIN g.cells /\ g.cells[i] = IF i = slot THEN entry ELSE f.cells[i]
  BY <1>2
<1>6. \A i \in DOMAIN f.cells :
         /\ f.cells[i].tag = "entry" =>
                /\ i \in DOMAIN g.cells
                /\ g.cells[i].tag = "entry"
                /\ g.cells[i].path = f.cells[i].path
                /\ g.cells[i].info = f.cells[i].info
         /\ i < f.hdr["fileSize"] /\ f.cells[i].tag \in {"info", "data"} =>
                i \in DOMAIN g.cells /\ g.cells[i] = f.cells[i]
  BY <1>3, <1>4, <1>5
<1>7. \A x \in Path : ReadRecord(g, x) = ReadRecord(f, x)
  BY <1>1, <1>2, <1>6, AlikeReads
<1> QED
  BY <1>7 DEF Shows

(* No operation shows a reader anything but what was stored. *)
LEMMA DoesShows ==
    ASSUME NEW f, Walkable(f), AsStored(f), NEW g, ~ g.spilled, Does(f, g)
    PROVE  /\ Shows(f, g) /\ AsStored(g)
           /\ Walkable(g) /\ ~ f.spilled
<1>1. f \in Image
  BY DEF Walkable, Safe
<1>2. Change(f, g)
  BY <1>1, DoesIsChange
<1>3. Walkable(g) /\ ~ f.spilled
  BY <1>2, WalkableChange, SpilledStays
<1>4. \A path \in Path : DoesMark(f, g, path) => Marked(f, g)
  BY <1>1, MarkIsMarked
<1>5. Shows(f, g)
  BY <1>4, StoreShows, AliasShows, MarkShows DEF Does
<1> QED
  BY <1>3, <1>5 DEF Shows, AsStored

\* Until a slot of the hash table or a status is written, everything in use in
\* the file as the last operation left it is in place.
Untouched ==
    /\ CellsKept(settled.cells, disk.cells, settled.hdr["fileSize"])
    /\ disk.hash = settled.hash
    /\ \/ hdr[Only]["nextBin"] = settled.hdr["nextBin"]
       \/ hdr[Only]["nextBin"] >= settled.hdr["fileSize"]

\* Between operations, names read what was stored; within one, the same until
\* the header is all that is left to write.
ReadsWhole ==
    faults = 0 /\ ~ disk.spilled =>
        /\ Walkable(settled) /\ ~ settled.spilled /\ AsStored(settled)
        /\ job[Only] # << >> /\ Head(job[Only]).do # "header" => Untouched

(* One cell written behind FILE_SIZE or where there were zeros keeps the cells
   in use. *)
LEMMA OneKept ==
    ASSUME NEW c \in Seq(Cell), NEW d \in Seq(Cell), NEW size \in Nat,
           CellsKept(c, d, size), NEW at \in Nat, NEW cell \in Cell,
           at >= size \/ (at \in DOMAIN c => c[at] = Zero)
    PROVE  CellsKept(c, Overwritten(d, at, cell), size)
<1> DEFINE new == Overwritten(d, at, cell)
<1>1. /\ new \in Seq(Cell) /\ Len(new) >= Len(d)
      /\ \A i \in Nat : i # at => CellAt(new, i) = CellAt(d, i)
  BY OverwrittenCells
<1> HIDE DEF new
<1>2. ASSUME NEW i \in DOMAIN c, i < size, c[i] # Zero
      PROVE  i \in DOMAIN new /\ new[i] = c[i]
  <2>1. i \in DOMAIN d /\ d[i] = c[i] /\ i \in Nat /\ i # at
    BY <1>2 DEF CellsKept
  <2>2. i \in DOMAIN new
    BY <1>1, <2>1
  <2> QED
    BY <1>1, <2>1, <2>2 DEF CellAt
<1> QED
  BY <1>2 DEF CellsKept, new

(* The free slots that the header in memory names hold zeros or lie behind the
   file as it was. *)
LEMMA NextIsFree ==
    ASSUME HandlesTypeOK, Untouched, Walkable(settled), ~ settled.spilled
    PROVE  LET next == hdr[Only]["nextBin"]
               c == settled.cells
           IN  next >= settled.hdr["fileSize"] \/ (next \in DOMAIN c => c[next] = Zero)
<1> DEFINE c == settled.cells
           next == settled.hdr["nextBin"]
           free == settled.hdr["binsRemain"] * BinSize
<1>1. next \in Nat /\ free \in Nat /\ \A i \in next..(next + free) : c[i] = Zero
  <2>1. Laid(c, next, free, settled.hdr["fileSize"])
    BY DEF Walkable, Safe
  <2> HIDE DEF free
  <2> QED
    BY <2>1 DEF Laid
<1> HIDE DEF free
<1>2. next \in next..(next + free)
  BY <1>1
<1>3. c[next] = Zero
  BY <1>1, <1>2
<1> QED
  BY <1>3 DEF Untouched

(* Writes that come before the hash slot leave it in place. *)
LEMMA StaysUntouched ==
    ASSUME OneHandle, HandlesInv, AddsUp, faults = 0, ~ disk.spilled,
           Walkable(settled), ~ settled.spilled, Untouched,
           job[Only] # << >>, Head(job[Only]).do \in {"cell", "block", "pointer", "entry"},
           disk' = Written(Only, Head(job[Only])),
           hdr' = [hdr EXCEPT ![Only] = Remembered(Only, Head(job[Only]))],
           settled' = settled
    PROVE  Untouched'
<1> DEFINE put == Head(job[Only])
           hd == hdr[Only]
           c == settled.cells
           size == settled.hdr["fileSize"]
<1>1. HandlesTypeOK /\ Sound(disk, hd, job[Only], kept) /\ job[Only] \in Seq(Put)
  BY DEF HandlesInv, HandlesTypeOK, OneHandle
<1>2. /\ put \in Put /\ put = job[Only][1] /\ 1 \in 1..Len(job[Only])
  BY <1>1, QueueTail
<1>3. /\ hd["fileSize"] >= size /\ hd["fileSize"] \in Nat /\ size \in Nat
      /\ hd["nextBin"] \in Nat
  <2>1. disk.hdr = settled.hdr /\ disk.hdr["fileSize"] <= hd["fileSize"]
    BY <1>1 DEF AddsUp, Sound
  <2>2. hd \in Header /\ disk.hdr \in Header
    BY <1>1, ImageFields DEF HandlesTypeOK, OneHandle
  <2> QED
    BY <2>1, <2>2 DEF Header, HeaderWord
<1>4. /\ c \in Seq(Cell) /\ disk.cells \in Seq(Cell) /\ CellsKept(c, disk.cells, size)
      /\ disk.hash = settled.hash
  BY <1>1, ImageFields DEF HandlesTypeOK, Untouched
<1>5. hdr'[Only] = Remembered(Only, put)
  BY <1>1 DEF OneHandle, HandlesTypeOK
<1>6. /\ CellsKept(c, disk'.cells, size) /\ disk'.hash = disk.hash
  <2>1. CASE put.do = "cell"
    <3>1. put.at >= hd["fileSize"]
      BY <1>1, <1>2, <2>1 DEF Sound, WritesAreSafe
    <3>2. put.at \in Nat /\ put.cell \in Cell
      BY <1>2, <2>1, PutTypes
    <3>3. put.at >= size
      BY <1>3, <3>1, <3>2
    <3>4. disk'.cells = Overwritten(disk.cells, put.at, put.cell) /\ disk'.hash = disk.hash
      BY <1>1, <2>1, WrittenParts
    <3> HIDE DEF put, c, size
    <3> QED
      BY <1>3, <1>4, <3>2, <3>3, <3>4, OneKept
  <2>2. CASE put.do = "block"
    <3> DEFINE start == hd["fileSize"]
               new == Zeroed(start, start + BlockSize)
    <3>1. disk'.cells = new /\ disk'.hash = disk.hash
      BY <1>1, <2>2, WrittenParts
    <3>2. /\ new \in Seq(Cell) /\ Len(new) >= Len(disk.cells)
          /\ \A i \in Nat :
                 CellAt(new, i) = IF start <= i /\ i < start + BlockSize THEN Zero
                                  ELSE CellAt(disk.cells, i)
      BY <1>3, <1>4, ZeroedCells
    <3> HIDE DEF new, c, size
    <3>3. ASSUME NEW i \in DOMAIN c, i < size, c[i] # Zero
          PROVE  i \in DOMAIN new /\ new[i] = c[i]
      <4>1. i \in DOMAIN disk.cells /\ disk.cells[i] = c[i] /\ i \in Nat
        BY <1>4, <3>3 DEF CellsKept
      <4>2. i \in DOMAIN new
        BY <1>4, <3>2, <4>1
      <4>3. ~ (start <= i)
        BY <1>3, <3>3, <4>1
      <4> QED
        BY <3>2, <4>1, <4>2, <4>3 DEF CellAt
    <3> QED
      BY <3>1, <3>3 DEF CellsKept
  <2>3. ASSUME NEW cell \in Cell,
               disk'.cells = Overwritten(disk.cells, hd["nextBin"], cell),
               disk'.hash = disk.hash
        PROVE  CellsKept(c, disk'.cells, size) /\ disk'.hash = disk.hash
    <3>1. hd["nextBin"] >= size \/ (hd["nextBin"] \in DOMAIN c => c[hd["nextBin"]] = Zero)
      BY <1>1, NextIsFree
    <3> HIDE DEF c, size, hd
    <3> QED
      BY <1>3, <1>4, <2>3, <3>1, OneKept
  <2>4. CASE put.do = "pointer"
    <3>1. Ptr(hd["fileSize"]) \in Cell
      BY <1>3 DEF Ptr, Cell, Address
    <3>2. disk'.cells = Overwritten(disk.cells, hd["nextBin"], Ptr(hd["fileSize"]))
          /\ disk'.hash = disk.hash
      BY <1>1, <2>4, WrittenParts
    <3> QED
      BY <2>3, <3>1, <3>2
  <2>5. CASE put.do = "entry"
    <3>1. put.entry \in Cell
      BY <1>2, <2>5, PutTypes
    <3>2. disk'.cells = Overwritten(disk.cells, hd["nextBin"], put.entry)
          /\ disk'.hash = disk.hash
      BY <1>1, <2>5, WrittenParts
    <3> QED
      BY <2>3, <3>1, <3>2
  <2> QED
    BY <2>1, <2>2, <2>4, <2>5
<1>7. \/ hdr'[Only]["nextBin"] = settled.hdr["nextBin"]
      \/ hdr'[Only]["nextBin"] >= size
  <2>1. CASE put.do = "pointer"
    <3>1. hdr'[Only]["nextBin"] = hd["fileSize"]
      BY <1>1, <1>5, <2>1, RememberedWords
    <3> QED
      BY <1>3, <3>1
  <2>2. CASE put.do # "pointer"
    <3>1. hdr'[Only] = hd
      BY <1>5, <2>2 DEF Remembered
    <3> QED
      BY <3>1 DEF Untouched
  <2> QED
    BY <2>1, <2>2
<1> QED
  BY <1>4, <1>6, <1>7 DEF Untouched

(* A write shows a reader nothing but a record as it was stored, all at once. *)
LEMMA WriteShows ==
    ASSUME OneHandle, HandlesInv, HandlesInv', AddsUp, AddsUp', ReadsWhole, Write(Only),
           faults' = 0 => settled' = settled \/ Does(settled, settled')
    PROVE  /\ ReadsWhole'
           /\ faults = 0 /\ ~ disk'.spilled => Shows(disk, disk')
<1> DEFINE q == job[Only]
           put == Head(q)
<1>1. /\ q # << >> /\ disk' = Written(Only, put)
      /\ hdr' = [hdr EXCEPT ![Only] = Remembered(Only, put)]
      /\ Complete(Only, put) /\ job' = [job EXCEPT ![Only] = Tail(@)]
      /\ faults' = faults
  BY DEF Write, Idle
<1>2. /\ HandlesTypeOK /\ q \in Seq(Put) /\ InOrder(q) /\ disk' \in Image /\ disk \in Image
      /\ InOrder(job'[Only])
  BY DEF HandlesInv, HandlesTypeOK, QueueOK, OneHandle
<1>3. job'[Only] = Tail(q)
  BY <1>1, <1>2 DEF HandlesTypeOK, OneHandle
<1>4. /\ put \in Put /\ Len(q) \in Nat \ {0} /\ Len(Tail(q)) = Len(q) - 1
      /\ Tail(q) \in Seq(Put) /\ put = q[1] /\ put.do \in Kind
  BY <1>1, <1>2, QueueTail, PutTypes
<1>5. /\ disk'.spilled = disk.spilled
      /\ put.do = "header" => disk'.cells = disk.cells /\ disk'.hash = disk.hash
  BY <1>1, <1>2, <1>4, WrittenParts DEF Kind, SetStatus
<1> SUFFICES ASSUME faults = 0, ~ disk'.spilled
             PROVE  ReadsWhole' /\ Shows(disk, disk')
  BY <1>1 DEF ReadsWhole
<1>6. /\ Walkable(settled) /\ ~ settled.spilled /\ AsStored(settled)
      /\ put.do # "header" => Untouched
  BY <1>1, <1>5 DEF ReadsWhole
<1>7. settled' = settled \/ Does(settled, settled')
  BY <1>1
<1>8. Len(q) > 1 => settled' = settled
  BY <1>1 DEF Complete, ghosts
<1>9. ~ Len(q) > 1 => settled' = disk' /\ Len(q) = 1 /\ job'[Only] = << >>
  <2> SUFFICES ASSUME ~ Len(q) > 1
               PROVE  settled' = disk' /\ Len(q) = 1 /\ job'[Only] = << >>
    OBVIOUS
  <2>1. settled' = disk'
    BY <1>1 DEF Complete
  <2> DEFINE n == Len(q)
             rest == Tail(q)
  <2>2. n \in Nat \ {0} /\ ~ n > 1 /\ Len(rest) = n - 1 /\ rest \in Seq(Put)
    BY <1>4
  <2> HIDE DEF n, rest
  <2>3. n = 1 /\ Len(rest) = 0
    BY <2>2
  <2>4. rest = << >>
    BY <2>2, <2>3
  <2> QED
    BY <1>3, <2>1, <2>3, <2>4 DEF n, rest
<1>10. put.do # "header" =>
           \A x \in Path : ReadRecord(disk, x) = ReadRecord(settled, x)
  BY <1>2, <1>6, KeptReads DEF Untouched
<1>11. /\ Walkable(settled') /\ AsStored(settled')
       /\ ~ settled'.spilled
       /\ settled' = settled \/ Shows(settled, settled')
  <2>1. ~ settled'.spilled
    BY <1>6, <1>8, <1>9
  <2> QED
    BY <1>6, <1>7, <2>1, DoesShows
<1>12. CASE put.do \in {"cell", "block", "pointer", "entry"}
  <2>1. Len(q) > 1
    <3>1. Closes(q)
      BY <1>1 DEF AddsUp
    <3>2. Len(q) = 1 => q[1].do \in {"header", "status"}
      BY <3>1 DEF Closes
    <3> QED
      BY <1>4, <1>9, <1>12, <3>2
  <2>2. Untouched'
    BY <1>1, <1>5, <1>6, <1>8, <1>12, <2>1, StaysUntouched
  <2>3. \A x \in Path : ReadRecord(disk', x) = ReadRecord(settled, x)
    <3>1. /\ CellsKept(settled.cells, disk'.cells, settled.hdr["fileSize"])
          /\ disk'.hash = settled.hash
      BY <1>8, <2>1, <2>2 DEF Untouched
    <3> QED
      BY <1>2, <1>6, <3>1, KeptReads
  <2>4. Shows(disk, disk')
    BY <1>10, <1>12, <2>3 DEF Shows
  <2> QED
    BY <1>11, <2>2, <2>4 DEF ReadsWhole
<1>13. CASE put.do = "header"
  <2>1. job'[Only] = << >>
    BY <1>1, <1>2, <1>3, <1>13, HeaderIsLast
  <2>2. \A x \in Path : ReadRecord(disk', x) = ReadRecord(disk, x)
    BY <1>5, <1>13, SameReads
  <2> QED
    BY <1>11, <2>1, <2>2 DEF ReadsWhole, Shows
<1>14. CASE put.do \in {"hash", "status"}
  <2>1. CASE ~ Len(q) > 1
    <3>1. job'[Only] = << >> /\ (disk' = settled \/ Shows(settled, disk'))
      BY <1>9, <1>11, <2>1
    <3>2. Shows(disk, disk')
      BY <1>10, <1>14, <3>1 DEF Shows
    <3> QED
      BY <1>11, <3>1, <3>2 DEF ReadsWhole
  <2>2. CASE Len(q) > 1
    <3> DEFINE rest == Tail(q)
               last == Head(rest)
    <3>1. rest # << >> /\ rest \in Seq(Put)
      <4>1. Len(rest) # 0 /\ Len(<< >>) = 0
        <5> DEFINE n == Len(q)
        <5> HIDE DEF n, rest
        <5>1. n \in Nat /\ n > 1 /\ Len(rest) = n - 1
          BY <1>4, <2>2 DEF n, rest
        <5> QED
          BY <5>1
      <4> QED
        BY <1>4, <4>1
    <3>2. last = rest[1] /\ last \in Put /\ last.do \in Kind /\ 1 \in 1..Len(rest)
      <4> HIDE DEF rest
      <4> QED
        BY <3>1, QueueTail, PutTypes
    <3>3. last.do = "header"
      <4>1. Rank[put.do] < Rank[last.do]
        <5>1. put.do # "cell"
          BY <1>14
        <5> QED
          BY <1>1, <1>2, <1>4, <3>2, <5>1, Behind
      <4>2. Rank["hash"] = 4 /\ Rank["status"] = 4
        BY DEF Rank, Kind
      <4>3. \A do \in Kind : Rank[do] > 4 => do = "header"
        BY DEF Rank, Kind
      <4> QED
        BY <1>14, <3>2, <4>1, <4>2, <4>3
    <3>4. Len(rest) = 1
      <4>1. InOrder(rest)
        BY <1>2, <1>3
      <4> HIDE DEF rest
      <4> QED
        BY <3>1, <3>3, <4>1, HeaderIsLast
    <3>5. PICK g : RunsTo(Seen', rest, g) /\ Does(settled, g)
      BY <1>1, <1>3, <1>8, <2>2, <3>1 DEF AddsUp
    <3>6. g = Effect(Seen', last)
      BY <3>2, <3>4, <3>5 DEF RunsTo
    <3>7. g.cells = disk'.cells /\ g.hash = disk'.hash /\ g.spilled = disk'.spilled
      BY <3>3, <3>6 DEF Effect, Ended, Seen
    <3>8. Shows(settled, g)
      BY <1>6, <3>5, <3>7, DoesShows
    <3>9. \A x \in Path : ReadRecord(disk', x) = ReadRecord(g, x)
      BY <3>7, SameReads
    <3>10. Shows(disk, disk')
      BY <1>10, <1>14, <3>8, <3>9 DEF Shows
    <3>11. Head(job'[Only]).do = "header"
      BY <1>3, <3>3
    <3> QED
      BY <1>11, <3>10, <3>11 DEF ReadsWhole
  <2> QED
    BY <2>1, <2>2
<1> QED
  BY <1>4, <1>12, <1>13, <1>14 DEF Kind

(* An operation that begins reads, and writes nothing yet. *)
LEMMA BeginShows ==
    ASSUME OneHandle, HandlesTypeOK, AddsUp, ReadsWhole,
           job[Only] = << >>, UNCHANGED <<faults, settled>>,
           job'[Only] = << >> \/ hdr' = hdr,
           disk'.cells = disk.cells, disk'.hash = disk.hash,
           disk.spilled => disk'.spilled
    PROVE  ReadsWhole' /\ Shows(disk, disk')
<1>1. Shows(disk, disk')
  <2>1. \A x \in Path : ReadRecord(disk', x) = ReadRecord(disk, x)
    BY SameReads
  <2> QED
    BY <2>1 DEF Shows
<1>2. SUFFICES ASSUME faults = 0, ~ disk'.spilled
               PROVE  ReadsWhole'
  BY <1>1 DEF ReadsWhole
<1>3. disk = settled /\ hdr[Only] = settled.hdr
  BY <1>2, AtRest
<1>4. Walkable(settled) /\ ~ settled.spilled /\ AsStored(settled)
  BY <1>2 DEF ReadsWhole
<1>5. CellsKept(settled.cells, settled.cells, settled.hdr["fileSize"])
  BY DEF CellsKept
<1>6. hdr' = hdr => Untouched'
  BY <1>3, <1>5 DEF Untouched
<1> QED
  BY <1>4, <1>6 DEF ReadsWhole

(* A step shows a reader whole records only. *)
LEMMA StepShows ==
    ASSUME OneHandle, HandlesInv, HandlesInv', AddsUp, AddsUp', ReadsWhole, [Next]_vars,
           faults' = 0 => settled' = settled \/ Does(settled, settled')
    PROVE  /\ ReadsWhole'
           /\ faults = 0 /\ ~ disk'.spilled => Shows(disk, disk')
<1>0. HandlesTypeOK /\ disk \in Image
  BY DEF HandlesInv, HandlesTypeOK
<1>1. CASE UNCHANGED vars
  <2>1. ReadsWhole' = ReadsWhole /\ disk' = disk
    BY <1>1 DEF vars, ghosts, ReadsWhole, Untouched
  <2> QED
    BY <2>1 DEF Shows
<1>2. CASE Next
  <2>1. PICK h \in Handle :
           Store(h) \/ Alias(h) \/ Mark(h) \/ Write(h) \/ Fail(h) \/ Crash(h) \/ Reopen(h)
    BY <1>2 DEF Next
  <2>2. h = Only
    BY DEF OneHandle
  <2>3. CASE Store(h)
    <3>1. PICK path \in Path, rec \in Storable : BeginStore(Only, path, rec)
      BY <2>2, <2>3 DEF Store
    <3>2. /\ job[Only] = << >> /\ UNCHANGED <<hdr, faults, ghosts>>
          /\ disk' = [disk EXCEPT !.spilled = @ \/ hdr[Only]["binsRemain"] <= 0]
      BY <3>1 DEF BeginStore, Begin, Idle
    <3>3. /\ disk'.cells = disk.cells /\ disk'.hash = disk.hash
          /\ disk.spilled => disk'.spilled
      BY <1>0, <3>2, OtherParts
    <3> QED
      BY <1>0, <3>2, <3>3, BeginShows DEF ghosts
  <2>4. CASE Alias(h) \/ Mark(h)
    <3>1. job[Only] = << >> /\ UNCHANGED <<hdr, faults, ghosts, disk>>
      BY <2>2, <2>4 DEF Alias, BeginAlias, Mark, BeginDelete, BeginUndelete,
         BeginAliasRemove, Begin, Idle
    <3> QED
      BY <1>0, <3>1, BeginShows DEF ghosts
  <2>5. CASE Reopen(h)
    <3>1. job[Only] = << >> /\ UNCHANGED <<disk, job, faults, ghosts>>
      BY <2>2, <2>5 DEF Reopen, Idle
    <3> QED
      BY <1>0, <3>1, BeginShows DEF ghosts
  <2>6. CASE Write(h)
    BY <2>2, <2>6, WriteShows
  <2>7. CASE Fail(h) \/ Crash(h)
    <3>1. BreakOff(Only)
      BY <2>2, <2>7 DEF Fail, Crash
    <3>2. faults' # 0
      BY <1>0, <3>1, BrokenAddsUp
    <3>3. disk'.cells = disk.cells /\ disk'.hash = disk.hash
      BY <1>0, <3>1, OtherParts DEF BreakOff
    <3>4. \A x \in Path : ReadRecord(disk', x) = ReadRecord(disk, x)
      BY <3>3, SameReads
    <3> QED
      BY <3>2, <3>4 DEF ReadsWhole, Shows
  <2> QED
    BY <2>1, <2>3, <2>4, <2>5, <2>6, <2>7
<1> QED
  BY <1>1, <1>2

(* In a new file no name reads anything. *)
LEMMA InitReads ==
    ASSUME OneHandle, Init
    PROVE  ReadsWhole
<1>1. settled = NewFile /\ job[Only] = << >>
  BY DEF Init, OneHandle
<1>2. ASSUME NEW x \in Path
      PROVE  ReadRecord(NewFile, x) = NoRecord
  <2>1. HashSlot(NewFile, x) = 0
    BY <1>2, ImageAssumption DEF HashSlot, NewFile
  <2> QED
    BY <2>1, NewFileType, NoSlotNoRecord
<1>3. ~ NewFile.spilled
  BY DEF NewFile
<1> QED
  BY <1>1, <1>2, <1>3, NewFileWalkable DEF ReadsWhole, AsStored

(* Without faults, a reader between two writes finds each name as it was or a
   whole record under a name that had none: the header may come last, the slot
   of the hash table comes behind all that it leads to. *)
THEOREM ReadersAlwaysSeeWhole ==
    ASSUME OneHandle, 7 \notin TornAt
    PROVE  Spec => ReadersSeeWhole
<1>1. Init => AddsUp /\ ReadsWhole
  BY InitAddsUp, InitReads
<1>2. /\ HandlesInv /\ HandlesInv' /\ AddsUp /\ [Next]_vars
      => AddsUp' /\ (faults' = 0 => settled' = settled \/ Does(settled, settled'))
  BY StepAddsUp DEF HandlesInv
<1>3. /\ HandlesInv /\ HandlesInv' /\ AddsUp /\ ReadsWhole /\ [Next]_vars
      => ReadsWhole' /\ (faults = 0 /\ ~ disk'.spilled => Shows(disk, disk'))
  BY <1>2, StepShows
<1>4. (faults = 0 /\ ~ disk'.spilled => Shows(disk, disk'))
      => [~ disk'.spilled /\ faults = 0 =>
             \A path \in Path :
                 \/ ReadRecord(disk', path) = ReadRecord(disk, path)
                 \/ /\ ReadRecord(disk, path) = NoRecord
                    /\ ReadRecord(disk', path) \in Storable]_vars
  BY DEF Shows
<1>5. Spec => []HandlesInv
  BY HandlesInvHolds
<1> QED
  BY <1>1, <1>2, <1>3, <1>4, <1>5, PTL DEF Spec, ReadersSeeWhole
=============================================================================
