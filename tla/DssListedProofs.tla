-------------------------- MODULE DssListedProofs --------------------------
(***************************************************************************)
(* The walk of the bins keeps finding the entries that one handle makes,   *)
(* through failed writes and crashes of the process.                       *)
(*                                                                         *)
(* The argument: the blocks of the bins are linked in the order of the     *)
(* file.  The free slots of a header are the last ones of a block of the   *)
(* chain, and those in front of them hold entries.  The header in memory   *)
(* reaches no less far than that on disk, since it is written after the    *)
(* entry it counts; a block behind both is linked but has no entry yet.    *)
(* What a completed store has made is in a slot that the header on disk    *)
(* has passed.                                                             *)
(***************************************************************************)
EXTENDS DssHandlesProofs

-----------------------------------------------------------------------------
(* The blocks of the bins.                                                 *)

(* The overflow word is one behind the last cell of the slots. *)
LEMMA WordType ==
    ASSUME NEW block \in Nat
    PROVE  Word(block) \in Nat /\ Word(block) + 1 = block + BlockSize
  BY BlockSizeType DEF Word

\* Blocks in the order of the file, each reached from the overflow word of the
\* one before, up to one that leads nowhere.
Linked(cells, chain) ==
    /\ chain \in Seq(Nat) /\ Len(chain) # 0
    /\ chain[1] = FirstBin
    /\ \A n \in 1..Len(chain) : Word(chain[n]) <= Len(cells)
    /\ \A n \in 1..(Len(chain) - 1) :
           /\ CellAt(cells, Word(chain[n])) = Ptr(chain[n + 1])
           /\ chain[n] + BlockSize <= chain[n + 1]
    /\ CellAt(cells, Word(chain[Len(chain)])).tag # "ptr"

(* None of them overlaps a later one, and the n-th lies behind n - 1 cells. *)
LEMMA LinkedOrder ==
    ASSUME NEW cells, NEW chain, Linked(cells, chain)
    PROVE  /\ \A i, j \in 1..Len(chain) : i < j => chain[i] + BlockSize <= chain[j]
           /\ \A n \in 1..Len(chain) : n <= chain[n]
<1> DEFINE l == Len(chain)
           S == {d \in Nat : \A i \in 1..l : i + d + 1 <= l
                                => chain[i] + BlockSize <= chain[i + d + 1]}
<1>1. /\ l \in Nat \ {0} /\ BlockSize \in Nat \ {0}
      /\ chain[1] = 1 /\ \A i \in 1..l : chain[i] \in Nat
      /\ \A n \in 1..(l - 1) : chain[n] + BlockSize <= chain[n + 1]
  BY BlockSizeType DEF Linked, FirstBin
<1> HIDE DEF l
<1>2. 0 \in S
  BY <1>1
<1>3. ASSUME NEW d \in Nat, d \in S PROVE d + 1 \in S
  <2> SUFFICES ASSUME NEW i \in 1..l, i + (d + 1) + 1 <= l
               PROVE  chain[i] + BlockSize <= chain[i + (d + 1) + 1]
    OBVIOUS
  <2>1. chain[i] + BlockSize <= chain[i + d + 1]
    BY <1>1, <1>3
  <2>2. i + d + 1 \in 1..(l - 1) /\ i + (d + 1) + 1 = (i + d + 1) + 1
        /\ i + d + 1 \in 1..l /\ i + (d + 1) + 1 \in 1..l
    BY <1>1
  <2>3. chain[i + d + 1] + BlockSize <= chain[i + (d + 1) + 1]
    BY <1>1, <2>2
  <2> DEFINE x == chain[i]
             y == chain[i + d + 1]
             z == chain[i + (d + 1) + 1]
  <2>4. x \in Nat /\ y \in Nat /\ z \in Nat /\ x + BlockSize <= y /\ y + BlockSize <= z
    BY <1>1, <2>1, <2>2, <2>3
  <2> HIDE DEF x, y, z
  <2>5. x + BlockSize <= z
    BY <1>1, <2>4
  <2> QED
    BY <2>5 DEF x, z
<1> HIDE DEF S
<1>4. Nat \subseteq S
  BY <1>2, <1>3, SetInduction
<1>5. ASSUME NEW i \in 1..l, NEW j \in 1..l, i < j
      PROVE  chain[i] + BlockSize <= chain[j]
  <2>1. j - i - 1 \in Nat /\ i + (j - i - 1) + 1 = j /\ j <= l
    BY <1>1, <1>5
  <2> QED
    BY <1>4, <2>1 DEF S
<1> DEFINE T == {n \in Nat : n + 1 <= l => n + 1 <= chain[n + 1]}
<1>6. 0 \in T
  BY <1>1
<1>7. ASSUME NEW n \in Nat, n \in T PROVE n + 1 \in T
  <2> SUFFICES ASSUME n + 1 + 1 <= l PROVE n + 1 + 1 <= chain[n + 1 + 1]
    OBVIOUS
  <2>1. n + 1 \in 1..(l - 1) /\ n + 1 \in 1..l /\ n + 1 + 1 \in 1..l
    BY <1>1
  <2>2. n + 1 <= chain[n + 1] /\ chain[n + 1] + BlockSize <= chain[n + 1 + 1]
    BY <1>1, <1>7, <2>1
  <2> QED
    BY <1>1, <2>1, <2>2
<1> HIDE DEF T
<1>8. Nat \subseteq T
  BY <1>6, <1>7, SetInduction
<1>9. \A n \in 1..l : n <= chain[n]
  <2> TAKE n \in 1..l
  <2>1. n - 1 \in Nat /\ (n - 1) + 1 = n
    BY <1>1
  <2> QED
    BY <1>8, <2>1 DEF T
<1> QED
  BY <1>5, <1>9 DEF l

(* The walk follows them to the last. *)
LEMMA LinkedWalk ==
    ASSUME NEW f \in Image, NEW chain, Linked(f.cells, chain)
    PROVE  SlotsInOrder(f) = SlotsOf(chain, BinsPerBlock * Len(chain))
<1> DEFINE l == Len(chain)
           cells == f.cells
<1>1. /\ l \in Nat \ {0} /\ BlockSize \in Nat \ {0} /\ chain \in Seq(Nat)
      /\ chain[1] = FirstBin /\ \A n \in 1..l : chain[n] \in Nat
      /\ \A n \in 1..l : Word(chain[n]) <= Len(cells)
      /\ \A n \in 1..(l - 1) : CellAt(cells, Word(chain[n])) = Ptr(chain[n + 1])
      /\ CellAt(cells, Word(chain[l])).tag # "ptr"
  BY BlockSizeType DEF Linked
<1>2. /\ \A i, j \in 1..l : i < j => chain[i] + BlockSize <= chain[j]
      /\ \A n \in 1..l : n <= chain[n]
  BY LinkedOrder
<1>3. cells \in Seq(Cell) /\ Len(cells) \in Nat /\ DOMAIN cells = 1..Len(cells)
  BY ImageFields
<1> HIDE DEF l, cells
<1>4. ASSUME NEW n \in 1..l
      PROVE  /\ chain[n] <= chain[l] /\ chain[n] + BlockSize - 1 \in DOMAIN cells
             /\ CellAt(cells, Word(chain[n])) = cells[chain[n] + BlockSize - 1]
  <2>1. n <= chain[n] /\ chain[n] \in Nat /\ n \in Nat \ {0} /\ l \in 1..l
    BY <1>1, <1>2
  <2>2. chain[n] <= chain[l]
    <3>1. CASE n = l
      BY <2>1, <3>1
    <3>2. CASE n # l
      <4>1. chain[n] + BlockSize <= chain[l] /\ chain[l] \in Nat
        BY <1>1, <1>2, <2>1, <3>2
      <4> QED
        BY <1>1, <2>1, <4>1
    <3> QED
      BY <3>1, <3>2
  <2>3. Word(chain[n]) \in 1..Len(cells)
    BY <1>1, <1>3, <2>1 DEF Word
  <2> QED
    BY <1>3, <2>2, <2>3 DEF Word, CellAt
<1>5. Chained(cells, chain)
  <2>1. \A n \in 1..(l - 1) : n \in 1..l
    BY <1>1
  <2>2. \A n \in 1..(l - 1) : cells[chain[n] + BlockSize - 1] = Ptr(chain[n + 1])
    BY <1>1, <1>4, <2>1
  <2> QED
    BY <1>1, <1>2, <1>4, <2>2 DEF Chained, l
<1>6. Ends(f, chain)
  <2>1. l \in 1..l
    BY <1>1
  <2>2. cells[chain[l] + BlockSize - 1].tag # "ptr"
    BY <1>1, <1>4, <2>1
  <2> QED
    BY <2>2 DEF Ends, Overflow, HasTag, l, cells
<1> QED
  BY <1>5, <1>6, WalkOfChain DEF cells

\* Two chains with the same first l blocks.
SameBlocks(chain, other, l) ==
    /\ l \in 1..Len(chain) /\ l \in 1..Len(other)
    /\ \A n \in 1..l : other[n] = chain[n]

(* A slot of a block is none of the overflow words. *)
LEMMA SlotPlace ==
    ASSUME NEW cells, NEW chain, Linked(cells, chain), NEW l \in 1..Len(chain),
           NEW k \in Nat \ {0}, k <= BinsPerBlock * l
    PROVE  /\ SlotAt(chain, k) \in Nat \ {0} /\ SlotAt(chain, k) < Word(chain[l])
           /\ \A n \in 1..Len(chain) : SlotAt(chain, k) # Word(chain[n])
           /\ \A other : SameBlocks(chain, other, l)
                           => SlotAt(other, k) = SlotAt(chain, k)
<1> DEFINE d == (k - 1) \div BinsPerBlock
           r == (k - 1) % BinsPerBlock
           b == BinsPerBlock
           m == Len(chain)
           j == k - 1
<1>1. /\ b \in Nat \ {0} /\ BinSize \in Nat \ {0} /\ m \in Nat \ {0}
      /\ l \in 1..m /\ l \in Nat /\ BlockSize \in Nat \ {0} /\ BlockSize = b * BinSize + 1
      /\ chain[1] = 1 /\ \A n \in 1..m : chain[n] \in Nat
  BY ImageAssumption, BlockSizeType DEF Linked, FirstBin
<1>2. /\ \A i, n \in 1..m : i < n => chain[i] + BlockSize <= chain[n]
      /\ \A n \in 1..m : n <= chain[n]
  BY LinkedOrder
<1>3. j \in Nat /\ j < b * l
  <2>1. b * l \in Nat
    BY <1>1
  <2> QED
    BY <2>1
<1>4. d \in Nat /\ r \in 0..(b - 1) /\ d < l
  <2> HIDE DEF j, b
  <2>1. j \div b \in Nat /\ j % b \in 0..(b - 1) /\ j \div b < l
    BY <1>1, <1>3, DivMod, DivBelow
  <2> QED
    BY <2>1 DEF j, b
<1>5. \A other : SlotAt(other, k) = other[d + 1] + r * BinSize
  BY DEF SlotAt
<1> HIDE DEF d, r, b, m, j
<1>6. d + 1 \in 1..m /\ d + 1 \in 1..l /\ d + 1 <= l
  BY <1>1, <1>4
<1> DEFINE x == chain[d + 1]
           y == r * BinSize
<1>7. x \in Nat /\ d + 1 <= x
  BY <1>1, <1>2, <1>6
<1>8. y \in Nat /\ y < BlockSize - 1
  <2>1. PICK z \in Nat : z + 1 + r = b
    <3>1. b - 1 - r \in Nat /\ (b - 1 - r) + 1 + r = b
      BY <1>1, <1>4
    <3> QED
      BY <3>1
  <2>2. (z + 1 + r) * BinSize = z * BinSize + BinSize + r * BinSize
    BY <1>1, <1>4, <2>1
  <2>3. z * BinSize \in Nat /\ y \in Nat
    BY <1>1, <1>4, <2>1
  <2>4. BlockSize - 1 = z * BinSize + BinSize + y
    BY <1>1, <2>1, <2>2
  <2> HIDE DEF y
  <2> QED
    BY <1>1, <2>3, <2>4
<1>9. SlotAt(chain, k) = x + y
  BY <1>5
<1> HIDE DEF x, y
<1>10. x + y \in Nat \ {0}
  BY <1>4, <1>7, <1>8
<1>11. ASSUME NEW n \in 1..m PROVE /\ x + y # Word(chain[n])
                                   /\ n = l => x + y < Word(chain[n])
  <2>0. chain[n] \in Nat
    BY <1>1
  <2>1. CASE n = d + 1
    <3>1. Word(chain[n]) = x + BlockSize - 1
      BY <2>1 DEF Word, x
    <3> QED
      BY <1>1, <1>7, <1>8, <3>1
  <2>2. CASE n < d + 1
    <3>1. chain[n] + BlockSize <= x
      BY <1>2, <1>6, <2>2 DEF x
    <3>2. n # l
      BY <1>1, <1>6, <2>2
    <3>3. Word(chain[n]) < x + y
      BY <1>1, <1>7, <1>8, <2>0, <3>1 DEF Word
    <3>4. Word(chain[n]) \in Nat
      BY <1>1, <2>0 DEF Word
    <3> QED
      BY <1>10, <3>2, <3>3, <3>4
  <2>3. CASE d + 1 < n
    <3>1. x + BlockSize <= chain[n]
      BY <1>2, <1>6, <2>3 DEF x
    <3>2. x + y < Word(chain[n])
      BY <1>1, <1>7, <1>8, <2>0, <3>1 DEF Word
    <3>3. Word(chain[n]) \in Nat
      BY <1>1, <2>0 DEF Word
    <3> QED
      BY <1>10, <3>2, <3>3
  <2> QED
    BY <1>1, <1>4, <2>1, <2>2, <2>3
<1>12. \A other : SameBlocks(chain, other, l) => SlotAt(other, k) = SlotAt(chain, k)
  BY <1>5, <1>6 DEF SameBlocks
<1> QED
  BY <1>1, <1>9, <1>10, <1>11, <1>12 DEF m

(* Behind the first l blocks a chain may be cut by what is written. *)
LEMMA LinkedCut ==
    ASSUME NEW c, NEW d, NEW chain, Linked(c, chain), NEW l \in 1..Len(chain),
           Len(c) \in Nat, Len(d) \in Nat, Len(c) <= Len(d),
           \A n \in 1..Len(chain) :
               \/ CellAt(d, Word(chain[n])) = CellAt(c, Word(chain[n]))
               \/ n >= l /\ CellAt(d, Word(chain[n])).tag # "ptr"
    PROVE  \E new : Linked(d, new) /\ SameBlocks(chain, new, l)
<1> DEFINE m == Len(chain)
           T == {n \in l..m : CellAt(d, Word(chain[n])).tag # "ptr"}
<1>1. /\ m \in Nat \ {0} /\ BlockSize \in Nat \ {0} /\ l \in 1..m
      /\ chain \in Seq(Nat) /\ chain[1] = FirstBin
      /\ \A n \in 1..m : Word(chain[n]) <= Len(c) /\ Word(chain[n]) \in Nat
      /\ \A n \in 1..(m - 1) : /\ CellAt(c, Word(chain[n])) = Ptr(chain[n + 1])
                               /\ chain[n] + BlockSize <= chain[n + 1]
      /\ CellAt(c, Word(chain[m])).tag # "ptr"
  BY BlockSizeType DEF Linked, Word
<1>2. \A n \in 1..m : \/ CellAt(d, Word(chain[n])) = CellAt(c, Word(chain[n]))
                      \/ n >= l /\ CellAt(d, Word(chain[n])).tag # "ptr"
  OBVIOUS
<1> HIDE DEF m
<1>3. m \in T
  <2>1. m \in 1..m /\ m \in l..m
    BY <1>1
  <2>2. CellAt(d, Word(chain[m])).tag # "ptr"
    BY <1>1, <1>2, <2>1
  <2> QED
    BY <2>1, <2>2
<1>4. PICK x \in T : \A y \in T : x <= y
  <2>1. T \subseteq Nat
    BY <1>1
  <2> HIDE DEF T
  <2> QED
    BY <1>3, <2>1, LeastNatural
<1> DEFINE new == SubSeq(chain, 1, x)
<1>5. x \in 1..m /\ l <= x /\ x \in Nat /\ CellAt(d, Word(chain[x])).tag # "ptr"
  BY <1>1, <1>4
<1>6. new \in Seq(Nat) /\ Len(new) = x /\ \A n \in 1..x : new[n] = chain[n]
  BY <1>1, <1>5 DEF m
<1>7. ASSUME NEW n \in 1..(x - 1)
      PROVE  CellAt(d, Word(chain[n])) = CellAt(c, Word(chain[n]))
  <2>1. n \in 1..m /\ n < x
    BY <1>1, <1>5
  <2>2. n >= l => n \in l..m
    BY <1>1, <2>1
  <2>3. n \in l..m => CellAt(d, Word(chain[n])).tag = "ptr"
    <3> SUFFICES ASSUME n \in l..m, CellAt(d, Word(chain[n])).tag # "ptr"
                 PROVE  FALSE
      OBVIOUS
    <3>1. n \in T
      OBVIOUS
    <3> HIDE DEF T
    <3>2. x <= n
      BY <1>4, <3>1
    <3> QED
      BY <1>5, <2>1, <3>2
  <2> QED
    BY <1>2, <2>1, <2>2, <2>3
<1> HIDE DEF new
<1>8. /\ \A n \in 1..x : Word(new[n]) <= Len(d)
      /\ \A n \in 1..(x - 1) : /\ CellAt(d, Word(new[n])) = Ptr(new[n + 1])
                               /\ new[n] + BlockSize <= new[n + 1]
  <2>1. \A n \in 1..x : n \in 1..m
    BY <1>1, <1>5
  <2>2. ASSUME NEW n \in 1..x PROVE Word(new[n]) <= Len(d)
    <3> DEFINE w == Word(chain[n])
    <3>1. new[n] = chain[n] /\ n \in 1..m
      BY <1>6, <2>1
    <3>2. w \in Nat /\ w <= Len(c)
      BY <1>1, <3>1
    <3> HIDE DEF w
    <3>3. w <= Len(d)
      BY <3>2
    <3> QED
      BY <3>1, <3>3 DEF w
  <2>3. \A n \in 1..(x - 1) : n \in 1..(m - 1) /\ n \in 1..x /\ n + 1 \in 1..x
    BY <1>1, <1>5
  <2> QED
    BY <1>1, <1>6, <1>7, <2>2, <2>3
<1>9. Linked(d, new)
  <2>1. new[1] = FirstBin /\ new[Len(new)] = chain[x] /\ Len(new) # 0
    BY <1>1, <1>5, <1>6
  <2> QED
    BY <1>5, <1>6, <1>8, <2>1 DEF Linked
<1>10. SameBlocks(chain, new, l)
  BY <1>1, <1>5, <1>6 DEF SameBlocks, m
<1> QED
  BY <1>9, <1>10

(* A block is chained behind the l-th. *)
LEMMA LinkedGrows ==
    ASSUME NEW c, NEW d, NEW chain, Linked(c, chain), NEW l \in 1..Len(chain),
           Len(c) \in Nat, Len(d) \in Nat, Len(c) <= Len(d),
           NEW start \in Nat, chain[l] + BlockSize <= start, Bare(d, start),
           CellAt(d, Word(chain[l])) = Ptr(start),
           \A n \in 1..(l - 1) :
               CellAt(d, Word(chain[n])) = CellAt(c, Word(chain[n]))
    PROVE  \E new : /\ Linked(d, new) /\ SameBlocks(chain, new, l)
                    /\ Len(new) = l + 1 /\ new[l + 1] = start
<1> DEFINE m == Len(chain)
           new == Append(SubSeq(chain, 1, l), start)
<1>1. /\ m \in Nat \ {0} /\ BlockSize \in Nat \ {0} /\ l \in 1..m
      /\ chain \in Seq(Nat) /\ chain[1] = FirstBin
      /\ \A n \in 1..m : Word(chain[n]) <= Len(c)
      /\ \A n \in 1..(m - 1) : /\ CellAt(c, Word(chain[n])) = Ptr(chain[n + 1])
                               /\ chain[n] + BlockSize <= chain[n + 1]
  BY BlockSizeType DEF Linked
<1>2. /\ new \in Seq(Nat) /\ Len(new) = l + 1 /\ new[l + 1] = start
      /\ \A n \in 1..l : new[n] = chain[n]
  BY <1>1 DEF m
<1> HIDE DEF m, new
<1>3. ASSUME NEW n \in 1..l
      PROVE  /\ Word(new[n]) <= Len(d)
             /\ CellAt(d, Word(new[n])) = Ptr(new[n + 1])
             /\ new[n] + BlockSize <= new[n + 1]
  <2>1. n \in 1..m /\ new[n] = chain[n]
    BY <1>1, <1>2
  <2>2. Word(new[n]) <= Len(d)
    <3> DEFINE w == Word(chain[n])
    <3>1. w <= Len(c) /\ chain[n] \in Nat
      BY <1>1, <2>1
    <3>2. w \in Nat
      BY <3>1, WordType
    <3> HIDE DEF w
    <3>3. w <= Len(d)
      BY <3>1, <3>2
    <3> QED
      BY <2>1, <3>3 DEF w
  <2>3. CASE n = l
    BY <1>2, <2>1, <2>2, <2>3
  <2>4. CASE n # l
    <3>1. n \in 1..(l - 1) /\ n \in 1..(m - 1) /\ n + 1 \in 1..l
      BY <1>1, <2>4
    <3> QED
      BY <1>1, <1>2, <2>1, <2>2, <3>1
  <2> QED
    BY <2>3, <2>4
<1>4. Word(new[l + 1]) <= Len(d) /\ CellAt(d, Word(new[l + 1])).tag # "ptr"
  BY <1>2 DEF Bare
<1>5. Linked(d, new)
  <2>1. \A n \in 1..(l + 1) : n \in 1..l \/ n = l + 1
    BY <1>1
  <2>2. \A n \in 1..(l + 1) : Word(new[n]) <= Len(d)
    BY <1>3, <1>4, <2>1
  <2>3. (l + 1) - 1 = l /\ l \in Nat /\ 1 \in 1..l
    BY <1>1
  <2>4. Len(new) - 1 = l /\ new[1] = FirstBin /\ Len(new) # 0
    BY <1>1, <1>2, <2>3
  <2> QED
    BY <1>2, <1>3, <1>4, <2>2, <2>4 DEF Linked
<1>6. SameBlocks(chain, new, l)
  BY <1>1, <1>2 DEF SameBlocks, m
<1> QED
  BY <1>2, <1>5, <1>6

-----------------------------------------------------------------------------
(* The slots in use.                                                       *)

\* The slots taken when l blocks have been handed out.
Taken(hd, l) == BinsPerBlock * l - hd["binsRemain"]

\* A header whose free slots are the last ones of the l-th block.
Reaches(hd, chain, l) ==
    /\ l \in 1..Len(chain) /\ hd["binsRemain"] <= BinsPerBlock
    /\ LastFree(hd) = Word(chain[l])
    /\ hd["totalBins"] <= Taken(hd, l)

\* The header in memory reaches no less than that on disk, which counts what
\* is kept.
Bins(f, hd, k, chain, l, old) ==
    /\ Reaches(hd, chain, l) /\ Reaches(f.hdr, chain, old)
    /\ old <= l /\ Taken(f.hdr, old) <= Taken(hd, l)
    /\ \A i \in 1..Taken(hd, l) : CellAt(f.cells, SlotAt(chain, i)).tag = "entry"
    /\ \A path \in Path :
           k[path] # NoRecord =>
               \E i \in 1..Taken(f.hdr, old) : HashSlot(f, path) = SlotAt(chain, i)

Listed(f, hd, k) ==
    \E chain, l, old : Linked(f.cells, chain) /\ Bins(f, hd, k, chain, l, old)

BinsListed(f, hd, q, k) == BinWrites(f, hd, q) /\ Listed(f, hd, k)

ListedInv == ~ disk.spilled => BinsListed(disk, hdr[Only], job[Only], kept)

(* The slots taken are those of the blocks before and some of the last. *)
LEMMA TakenType ==
    ASSUME NEW hd \in Header, NEW chain, NEW l, Reaches(hd, chain, l),
           Len(chain) \in Nat
    PROVE  /\ Taken(hd, l) \in Nat /\ l \in Nat \ {0} /\ hd["binsRemain"] \in Nat
           /\ hd["nextBin"] \in Nat /\ hd["totalBins"] \in Nat
           /\ Taken(hd, l) <= BinsPerBlock * l
           /\ Taken(hd, l) - BinsPerBlock * (l - 1) = BinsPerBlock - hd["binsRemain"]
           /\ BinsPerBlock * (l - 1) \in Nat /\ BinsPerBlock * l \in Nat
<1>1. /\ l \in Nat \ {0} /\ hd["binsRemain"] \in Nat /\ BinsPerBlock \in Nat \ {0}
      /\ hd["binsRemain"] <= BinsPerBlock
      /\ hd["nextBin"] \in Nat /\ hd["totalBins"] \in Nat
  BY ImageAssumption DEF Reaches, Header, HeaderWord
<1>2. /\ BinsPerBlock * l = BinsPerBlock * (l - 1) + BinsPerBlock
      /\ BinsPerBlock * l \in Nat /\ BinsPerBlock * (l - 1) \in Nat
  BY <1>1
<1> QED
  BY <1>1, <1>2 DEF Taken

(* The next slot is the free one at ADD_NEXT_EMPTY_BIN, and the one taken last
   lies in front of it. *)
LEMMA TakenPlaces ==
    ASSUME NEW hd \in Header, NEW chain, NEW l, Reaches(hd, chain, l),
           NEW cells, Linked(cells, chain)
    PROVE  /\ hd["binsRemain"] > 0 => SlotAt(chain, Taken(hd, l) + 1) = hd["nextBin"]
           /\ hd["binsRemain"] < BinsPerBlock =>
                  /\ Taken(hd, l) > 0
                  /\ SlotAt(chain, Taken(hd, l)) = hd["nextBin"] - BinSize
           /\ hd["binsRemain"] = 0 => hd["nextBin"] = Word(chain[l])
<1> DEFINE m == Taken(hd, l)
           r == hd["binsRemain"]
           before == BinsPerBlock * (l - 1)
           all == BinsPerBlock * l
           x == BinsPerBlock - r
           b == BinSize
<1>1. /\ m \in Nat /\ l \in Nat \ {0} /\ r \in Nat /\ hd["nextBin"] \in Nat
      /\ m <= all /\ m - before = x /\ before \in Nat /\ all \in Nat
      /\ r <= BinsPerBlock
  <2>1. Len(chain) \in Nat
    BY DEF Linked
  <2>2. hd["binsRemain"] <= BinsPerBlock
    BY DEF Reaches
  <2> QED
    BY <2>1, <2>2, TakenType
<1>2. b \in Nat \ {0} /\ BinsPerBlock \in Nat \ {0} /\ all = before + BinsPerBlock
  BY <1>1, ImageAssumption
<1>3. chain[l] \in Nat /\ hd["nextBin"] + r * b = chain[l] + BinsPerBlock * b
  <2>1. LastFree(hd) = Word(chain[l]) /\ chain[l] \in Nat
    BY DEF Reaches, Linked
  <2>2. BlockSize = BinsPerBlock * b + 1 /\ BinsPerBlock * b \in Nat
    BY <1>2, BlockSizeType
  <2>3. hd["nextBin"] + r * b = chain[l] + BlockSize - 1
    BY <2>1 DEF LastFree, Word
  <2> QED
    BY <2>1, <2>2, <2>3
<1> HIDE DEF m, r, before, all, b
<1>4. x \in Nat /\ x * b \in Nat /\ hd["nextBin"] = chain[l] + x * b
  <2>1. x \in Nat /\ x + r = BinsPerBlock
    BY <1>1, <1>2
  <2> HIDE DEF x
  <2>2. x * b \in Nat /\ r * b \in Nat /\ x * b + r * b = BinsPerBlock * b
    BY <1>1, <1>2, <2>1
  <2> DEFINE y == x * b
             z == r * b
             w == BinsPerBlock * b
  <2>3. y \in Nat /\ z \in Nat /\ y + z = w /\ hd["nextBin"] + z = chain[l] + w
    BY <1>3, <2>2
  <2> HIDE DEF y, z, w
  <2>4. hd["nextBin"] = chain[l] + y
    BY <1>1, <1>3, <2>3
  <2> QED
    BY <2>1, <2>2, <2>4 DEF y
<1>5. ASSUME r > 0 PROVE SlotAt(chain, m + 1) = hd["nextBin"]
  <2> DEFINE k == m + 1
  <2>2. k \in Nat \ {0} /\ before < k /\ k <= all /\ k - 1 - before = x
    BY <1>1, <1>2, <1>5
  <2> HIDE DEF k
  <2>3. SlotAt(chain, k) = chain[l] + (k - 1 - before) * b
    BY <1>1, <2>2, SlotInBlock DEF before, all, b
  <2> QED
    BY <1>4, <2>2, <2>3 DEF k
<1>6. ASSUME r < BinsPerBlock
      PROVE  m > 0 /\ SlotAt(chain, m) = hd["nextBin"] - b
  <2>1. m \in Nat \ {0} /\ before < m /\ m - 1 - before = x - 1 /\ x \in Nat \ {0}
    BY <1>1, <1>2, <1>6
  <2>2. SlotAt(chain, m) = chain[l] + (m - 1 - before) * b
    BY <1>1, <2>1, SlotInBlock DEF before, all, b
  <2> HIDE DEF x
  <2>3. (x - 1) * b = x * b - b
    BY <1>2, <2>1
  <2> QED
    BY <1>2, <1>3, <1>4, <2>1, <2>2, <2>3
<1>7. ASSUME r = 0 PROVE hd["nextBin"] = Word(chain[l])
  <2>1. hd["nextBin"] = chain[l] + BinsPerBlock * b
    BY <1>1, <1>2, <1>3, <1>7
  <2>2. BlockSize = BinsPerBlock * b + 1 /\ BinsPerBlock * b \in Nat
    BY <1>2, BlockSizeType DEF b
  <2> QED
    BY <1>3, <2>1, <2>2 DEF Word
<1> QED
  BY <1>5, <1>6, <1>7 DEF m, r, b

(* The blocks handed out are in order. *)
LEMMA BinsType ==
    ASSUME NEW f \in Image, NEW hd \in Header, NEW k, NEW chain, NEW l, NEW old,
           Linked(f.cells, chain), Bins(f, hd, k, chain, l, old)
    PROVE  /\ l \in 1..Len(chain) /\ old \in 1..Len(chain) /\ old <= l
           /\ Len(chain) \in Nat /\ l \in Nat /\ old \in Nat
           /\ chain[l] \in Nat /\ LastFree(hd) = Word(chain[l])
           /\ \A n \in 1..Len(chain) : chain[n] \in Nat /\ Word(chain[n]) \in Nat
           /\ \A n \in 1..(l - 1) :
                  n \in 1..Len(chain) /\ Word(chain[n]) < Word(chain[l])
           /\ Taken(hd, l) \in Nat /\ Taken(hd, l) <= BinsPerBlock * l
           /\ Taken(f.hdr, old) \in Nat /\ Taken(f.hdr, old) <= Taken(hd, l)
           /\ Reaches(hd, chain, l) /\ Reaches(f.hdr, chain, old)
<1>1. /\ l \in 1..Len(chain) /\ old \in 1..Len(chain) /\ old <= l
      /\ LastFree(hd) = Word(chain[l]) /\ Taken(f.hdr, old) <= Taken(hd, l)
  BY DEF Bins, Reaches
<1>2. Len(chain) \in Nat /\ \A n \in 1..Len(chain) : chain[n] \in Nat
  BY DEF Linked
<1>3. \A n \in 1..Len(chain) : Word(chain[n]) \in Nat
  BY <1>2, WordType
<1>4. \A n \in 1..(l - 1) : n \in 1..Len(chain) /\ n < l
  BY <1>1, <1>2
<1>5. ASSUME NEW n \in 1..(l - 1) PROVE Word(chain[n]) < Word(chain[l])
  <2> DEFINE x == chain[n]
             y == chain[l]
  <2>1. x \in Nat /\ y \in Nat /\ x + BlockSize <= y
    BY <1>1, <1>2, <1>4, LinkedOrder
  <2> HIDE DEF x, y
  <2>2. Word(x) < Word(y)
    BY <2>1, BlockSizeType DEF Word
  <2> QED
    BY <2>2 DEF x, y
<1>6. /\ Taken(hd, l) \in Nat /\ Taken(hd, l) <= BinsPerBlock * l
      /\ Taken(f.hdr, old) \in Nat
  <2>1. f.hdr \in Header /\ Reaches(hd, chain, l) /\ Reaches(f.hdr, chain, old)
    BY ImageFields DEF Bins
  <2> QED
    BY <1>2, <2>1, TakenType
<1>7. Reaches(hd, chain, l) /\ Reaches(f.hdr, chain, old)
  BY DEF Bins
<1> QED
  BY <1>1, <1>2, <1>3, <1>4, <1>5, <1>6, <1>7

(* The slots in use lie in the blocks handed out, whatever comes behind. *)
LEMMA BinsSame ==
    ASSUME NEW f \in Image, NEW g, NEW hd \in Header, NEW k,
           NEW chain, NEW l, NEW old, NEW new,
           Linked(f.cells, chain), Bins(f, hd, k, chain, l, old),
           SameBlocks(chain, new, l), g.hdr = f.hdr,
           \A path \in Path :
               HashSlot(f, path) # 0 => HashSlot(g, path) = HashSlot(f, path),
           \A i \in Nat : /\ i < Word(chain[l])
                          /\ CellAt(f.cells, i).tag = "entry"
                          => CellAt(g.cells, i).tag = "entry"
    PROVE  Bins(g, hd, k, new, l, old)
<1> DEFINE taken == Taken(hd, l)
           before == Taken(f.hdr, old)
<1>1. /\ l \in 1..Len(chain) /\ old \in 1..Len(chain) /\ old <= l
      /\ Len(chain) \in Nat /\ taken \in Nat /\ before \in Nat /\ before <= taken
      /\ taken <= BinsPerBlock * l
  BY BinsType
<1>2. /\ l \in 1..Len(new) /\ new[l] = chain[l] /\ new[old] = chain[old]
      /\ old \in 1..Len(new)
  BY <1>1 DEF SameBlocks
<1>3. ASSUME NEW i \in 1..taken
      PROVE  /\ SlotAt(chain, i) \in Nat \ {0} /\ SlotAt(chain, i) < Word(chain[l])
             /\ SlotAt(new, i) = SlotAt(chain, i)
  <2> HIDE DEF taken
  <2>1. i \in Nat \ {0} /\ i <= BinsPerBlock * l
    <3>1. BinsPerBlock * l \in Nat
      BY <1>1, ImageAssumption
    <3> QED
      BY <1>1, <3>1
  <2> QED
    BY <1>1, <2>1, SlotPlace
<1>4. Reaches(hd, new, l) /\ Reaches(f.hdr, new, old)
  BY <1>2 DEF Bins, Reaches
<1>5. \A i \in 1..taken : CellAt(g.cells, SlotAt(new, i)).tag = "entry"
  <2> TAKE i \in 1..taken
  <2>1. CellAt(f.cells, SlotAt(chain, i)).tag = "entry"
    BY DEF Bins
  <2> QED
    BY <1>3, <2>1
<1>6. ASSUME NEW path \in Path, k[path] # NoRecord
      PROVE  \E i \in 1..before : HashSlot(g, path) = SlotAt(new, i)
  <2>1. PICK i \in 1..before : HashSlot(f, path) = SlotAt(chain, i)
    BY <1>6 DEF Bins
  <2>2. i \in 1..taken
    BY <1>1
  <2>3. SlotAt(chain, i) # 0 /\ SlotAt(new, i) = SlotAt(chain, i)
    BY <1>3, <2>2
  <2>4. HashSlot(g, path) = SlotAt(new, i)
    BY <2>1, <2>3
  <2> QED
    BY <2>4
<1> QED
  BY <1>1, <1>4, <1>5, <1>6 DEF Bins

(* Slots are filled, and blocks not handed out may be cut off. *)
LEMMA CellsKeepBins ==
    ASSUME NEW f \in Image, NEW g \in Image, NEW hd \in Header, NEW k,
           NEW chain, NEW l, NEW old,
           Linked(f.cells, chain), Bins(f, hd, k, chain, l, old),
           g.hdr = f.hdr, g.hash = f.hash, Len(f.cells) <= Len(g.cells),
           \A i \in Nat :
               \/ CellAt(g.cells, i) = CellAt(f.cells, i)
               \/ /\ CellAt(g.cells, i).tag # "ptr"
                  /\ i >= Word(chain[l]) \/ CellAt(g.cells, i).tag = "entry"
                  /\ \A n \in 1..(l - 1) : i # Word(chain[n])
    PROVE  Listed(g, hd, k)
<1>1. /\ l \in 1..Len(chain) /\ Len(chain) \in Nat /\ l \in Nat
      /\ \A n \in 1..Len(chain) : Word(chain[n]) \in Nat
  BY BinsType
<1>2. Len(f.cells) \in Nat /\ Len(g.cells) \in Nat
  BY ImageFields
<1>3. ASSUME NEW n \in 1..Len(chain)
      PROVE  \/ CellAt(g.cells, Word(chain[n])) = CellAt(f.cells, Word(chain[n]))
             \/ n >= l /\ CellAt(g.cells, Word(chain[n])).tag # "ptr"
  <2>1. n >= l \/ n \in 1..(l - 1)
    BY <1>1
  <2> QED
    BY <1>1, <2>1
<1>4. PICK new : Linked(g.cells, new) /\ SameBlocks(chain, new, l)
  BY <1>1, <1>2, <1>3, LinkedCut
<1>5. \A path \in Path : HashSlot(g, path) = HashSlot(f, path)
  BY DEF HashSlot
<1>6. ASSUME NEW i \in Nat, i < Word(chain[l]), CellAt(f.cells, i).tag = "entry"
      PROVE  CellAt(g.cells, i).tag = "entry"
  <2>1. ~ i >= Word(chain[l])
    BY <1>1, <1>6
  <2> QED
    BY <1>6, <2>1
<1>7. Bins(g, hd, k, new, l, old)
  BY <1>4, <1>5, <1>6, BinsSame
<1> QED
  BY <1>4, <1>7 DEF Listed

(* What the writes behind the first rely on. *)
LEMMA BinWritesStay ==
    ASSUME NEW f, NEW g, NEW hd \in Header, NEW new,
           NEW q \in Seq(Put), q # << >>, QueueOK(f, hd, q), BinWrites(f, hd, q),
           Head(q).do = "hash" => new["binsRemain"] < BinsPerBlock,
           Head(q).do = "block" => Bare(g.cells, new["fileSize"]),
           Head(q).do \notin {"pointer", "hash", "header"}
             => new["binsRemain"] = hd["binsRemain"]
    PROVE  BinWrites(g, new, Tail(q))
<1> DEFINE rest == Tail(q)
           do == Head(q).do
<1>1. InOrder(q) /\ SlotIsFree(q, hd)
  BY DEF QueueOK
<1>2. do \in Kind /\ \A i \in 1..Len(rest) : i + 1 \in 1..Len(q) /\ rest[i] = q[i + 1]
  BY QueueTail, PutTypes
<1>3. \A kind \in Kind :
               /\ Waiting(rest, kind) => Waiting(q, kind)
               /\ Waiting(q, kind) /\ do # kind => Waiting(rest, kind)
               /\ Waiting(rest, kind) => \/ Rank[do] < Rank[kind]
                                         \/ do = "cell" /\ kind = "cell"
  BY <1>1, WaitingTail
<1>4. /\ Waiting(q, "block") => Waiting(q, "pointer")
      /\ Waiting(q, "pointer") => hd["binsRemain"] = 0 /\ ~ Waiting(q, "cell")
      /\ Waiting(q, do)
  BY <1>1, WaitingTail DEF BinWrites
<1>5. {"cell", "block", "pointer", "entry", "hash", "header"} \subseteq Kind
  BY DEF Kind
<1>6. do = "header" => rest = << >>
  BY <1>1, HeaderIsLast
<1>hyps. /\ do = "hash" => new["binsRemain"] < BinsPerBlock
         /\ do = "block" => Bare(g.cells, new["fileSize"])
         /\ do \notin {"pointer", "hash", "header"} => new["binsRemain"] = hd["binsRemain"]
  OBVIOUS
<1> HIDE DEF rest, do
<1>7. Waiting(rest, "block") => Waiting(rest, "pointer")
  <2>1. Waiting(rest, "block") => Waiting(q, "pointer") /\ do # "pointer"
    BY <1>3, <1>4, <1>5, RankValues
  <2> QED
    BY <1>3, <1>5, <2>1
<1>8. Waiting(rest, "pointer") =>
          /\ do = "block" /\ new["binsRemain"] = 0 /\ ~ Waiting(rest, "cell")
  <2> SUFFICES ASSUME Waiting(rest, "pointer")
               PROVE  do = "block" /\ new["binsRemain"] = 0 /\ ~ Waiting(rest, "cell")
    OBVIOUS
  <2>1. Waiting(q, "pointer") /\ Rank[do] < 2
    BY <1>3, <1>5, RankValues
  <2>2. do \in {"cell", "block"}
    BY <1>2, <2>1, RankValues DEF Kind
  <2>3. do # "cell" /\ ~ Waiting(rest, "cell")
    BY <1>3, <1>4, <1>5, <2>1
  <2> QED
    BY <1>4, <1>hyps, <2>1, <2>2, <2>3
<1>9. \A i \in 1..Len(rest) : rest[i].do = "cell" => rest[i].cell.tag # "ptr"
  BY <1>2 DEF BinWrites
<1>10. ASSUME NEW i \in 1..Len(rest), rest[i].do = "header", rest[i].path \in Path
       PROVE  Waiting(rest, "hash") \/ new["binsRemain"] < BinsPerBlock
  <2>1. Waiting(q, "hash") \/ hd["binsRemain"] < BinsPerBlock
    BY <1>2, <1>10 DEF BinWrites
  <2>2. do # "header"
    BY <1>6
  <2>3. CASE do = "hash"
    BY <1>hyps, <2>3
  <2>4. CASE do = "pointer"
    <3>1. Waiting(q, "hash")
      BY <1>1, <1>4, <2>4 DEF SlotIsFree
    <3> QED
      BY <1>3, <1>5, <2>4, <3>1
  <2>5. CASE do \notin {"hash", "pointer"}
    BY <1>3, <1>5, <1>hyps, <2>1, <2>2, <2>5
  <2> QED
    BY <2>3, <2>4, <2>5
<1> QED
  BY <1>7, <1>8, <1>9, <1>10, <1>hyps DEF BinWrites, rest

(* A cell of a record is written, behind all that is handed out. *)
LEMMA CellLists ==
    ASSUME NEW f \in Image, NEW g \in Image, NEW hd \in Header, NEW k,
           Apart(hd), Listed(f, hd, k), g.hdr = f.hdr, g.hash = f.hash,
           NEW at \in Nat, at >= hd["fileSize"], NEW cell \in Cell, cell.tag # "ptr",
           g.cells = Overwritten(f.cells, at, cell)
    PROVE  Listed(g, hd, k)
<1>1. PICK chain, l, old : Linked(f.cells, chain) /\ Bins(f, hd, k, chain, l, old)
  BY DEF Listed
<1>2. /\ Word(chain[l]) \in Nat
      /\ \A n \in 1..(l - 1) : Word(chain[n]) \in Nat /\ Word(chain[n]) < Word(chain[l])
  BY <1>1, BinsType
<1>3. at > Word(chain[l])
  <2>1. LastFree(hd) = Word(chain[l]) /\ LastFree(hd) < hd["fileSize"]
    BY <1>1, BinsType DEF Apart
  <2> QED
    BY <1>2, <2>1, SlotPlaces
<1>4. f.cells \in Seq(Cell) /\ Len(f.cells) <= Len(g.cells)
  BY ImageFields, OverwrittenCells
<1>5. ASSUME NEW i \in Nat, CellAt(g.cells, i) # CellAt(f.cells, i)
      PROVE  /\ CellAt(g.cells, i).tag # "ptr" /\ i >= Word(chain[l])
             /\ \A n \in 1..(l - 1) : i # Word(chain[n])
  <2>1. i = at
    BY <1>5, OneCell
  <2>2. CellAt(g.cells, at) = cell
    BY <1>2, <1>3, OneCell
  <2> QED
    BY <1>2, <1>3, <2>1, <2>2
<1> QED
  BY <1>1, <1>4, <1>5, CellsKeepBins

(* A block of zeros is written there. *)
LEMMA BlockLists ==
    ASSUME NEW f \in Image, NEW g \in Image, NEW hd \in Header, NEW k,
           Apart(hd), Listed(f, hd, k), g.hdr = f.hdr, g.hash = f.hash,
           Len(f.cells) <= Len(g.cells),
           Len(g.cells) >= hd["fileSize"] + BlockSize - 1,
           \A i \in Nat :
               CellAt(g.cells, i) = IF /\ hd["fileSize"] <= i
                                       /\ i < hd["fileSize"] + BlockSize
                                    THEN Zero ELSE CellAt(f.cells, i)
    PROVE  Listed(g, hd, k) /\ Bare(g.cells, hd["fileSize"])
<1> DEFINE base == hd["fileSize"]
<1>1. PICK chain, l, old : Linked(f.cells, chain) /\ Bins(f, hd, k, chain, l, old)
  BY DEF Listed
<1>2. /\ Word(chain[l]) \in Nat
      /\ \A n \in 1..(l - 1) : Word(chain[n]) \in Nat /\ Word(chain[n]) < Word(chain[l])
  BY <1>1, BinsType
<1>3. base > Word(chain[l]) /\ base \in Nat /\ Word(base) \in Nat
      /\ Word(base) + 1 = base + BlockSize /\ BlockSize \in Nat \ {0}
  <2>1. LastFree(hd) = Word(chain[l]) /\ LastFree(hd) < hd["fileSize"]
    BY <1>1, BinsType DEF Apart
  <2> QED
    BY <1>2, <2>1, SlotPlaces, WordType, BlockSizeType
<1>4. Zero.tag # "ptr"
  BY DEF Zero
<1>5. ASSUME NEW i \in Nat, CellAt(g.cells, i) # CellAt(f.cells, i)
      PROVE  /\ CellAt(g.cells, i).tag # "ptr" /\ i >= Word(chain[l])
             /\ \A n \in 1..(l - 1) : i # Word(chain[n])
  <2>1. CellAt(g.cells, i) = Zero /\ base <= i
    BY <1>5
  <2> QED
    BY <1>2, <1>3, <1>4, <2>1
<1>6. Listed(g, hd, k)
  BY <1>1, <1>5, CellsKeepBins
<1>7. Bare(g.cells, base)
  <2>1. base <= Word(base) /\ Word(base) < base + BlockSize /\ Word(base) <= Len(g.cells)
    BY <1>3
  <2> QED
    BY <1>3, <1>4, <2>1 DEF Bare
<1> QED
  BY <1>6, <1>7

(* The new block is chained and handed out. *)
LEMMA PointerLists ==
    ASSUME NEW f \in Image, NEW g \in Image, NEW hd \in Header, NEW new \in Header,
           NEW k, Apart(hd), Listed(f, hd, k), g.hdr = f.hdr, g.hash = f.hash,
           hd["binsRemain"] = 0, Bare(f.cells, hd["fileSize"]),
           g.cells = Overwritten(f.cells, hd["nextBin"], Ptr(hd["fileSize"])),
           new["nextBin"] = hd["fileSize"], new["binsRemain"] = BinsPerBlock,
           new["totalBins"] = hd["totalBins"]
    PROVE  Listed(g, new, k)
<1> DEFINE base == hd["fileSize"]
           next == hd["nextBin"]
<1>1. PICK chain, l, old : Linked(f.cells, chain) /\ Bins(f, hd, k, chain, l, old)
  BY DEF Listed
<1>2. /\ l \in 1..Len(chain) /\ l \in Nat /\ Len(chain) \in Nat /\ chain[l] \in Nat
      /\ Word(chain[l]) \in Nat /\ LastFree(hd) = Word(chain[l])
      /\ \A n \in 1..(l - 1) :
             /\ n \in 1..Len(chain) /\ Word(chain[n]) \in Nat
             /\ Word(chain[n]) < Word(chain[l])
  BY <1>1, BinsType
<1>3. next = Word(chain[l])
  <2>1. Reaches(hd, chain, l)
    BY <1>1 DEF Bins
  <2> QED
    BY <1>1, <2>1, TakenPlaces
<1>4. /\ base \in Nat /\ next < base /\ Word(base) \in Nat
      /\ Word(base) + 1 = base + BlockSize /\ BlockSize \in Nat \ {0}
      /\ chain[l] + BlockSize <= base
  <2>1. LastFree(hd) < base /\ base \in Nat
    BY SlotPlaces DEF Apart
  <2>2. Word(chain[l]) + 1 = chain[l] + BlockSize
    BY <1>2, WordType
  <2>3. Word(base) \in Nat /\ Word(base) + 1 = base + BlockSize
    BY <2>1, WordType
  <2>4. BlockSize \in Nat \ {0}
    BY BlockSizeType
  <2>5. chain[l] + BlockSize <= base
    BY <1>2, <2>1, <2>2, <2>4
  <2> QED
    BY <1>2, <1>3, <2>1, <2>3, <2>4, <2>5
<1>5. /\ \A i \in Nat : i # next => CellAt(g.cells, i) = CellAt(f.cells, i)
      /\ CellAt(g.cells, next) = Ptr(base)
  <2>1. next \in Nat /\ next > 0 /\ Ptr(base) \in Cell
    BY <1>4, SlotPlaces DEF Apart, Cell, Ptr, Address
  <2>2. g.cells = Overwritten(f.cells, next, Ptr(base))
    OBVIOUS
  <2> HIDE DEF next, base
  <2> QED
    BY <2>1, <2>2, OneCell
<1>6. Len(f.cells) <= Len(g.cells) /\ Len(f.cells) \in Nat /\ Len(g.cells) \in Nat
  <2>1. next \in Nat /\ Ptr(base) \in Cell /\ f.cells \in Seq(Cell) /\ g.cells \in Seq(Cell)
    BY <1>4, SlotPlaces, ImageFields DEF Cell, Ptr, Address
  <2> HIDE DEF next, base
  <2>2. Len(Overwritten(f.cells, next, Ptr(base))) >= Len(f.cells)
    BY <2>1, OverwrittenCells
  <2> QED
    BY <2>1, <2>2 DEF next, base
<1>7. Bare(g.cells, base)
  <2>1. Word(base) # next
    BY <1>2, <1>3, <1>4
  <2>2. CellAt(g.cells, Word(base)) = CellAt(f.cells, Word(base))
    BY <1>4, <1>5, <2>1
  <2>3. Word(base) <= Len(f.cells)
    BY DEF Bare
  <2>4. Word(base) <= Len(g.cells)
    BY <1>4, <1>6, <2>3
  <2> QED
    BY <2>2, <2>4 DEF Bare
<1>8. \A n \in 1..(l - 1) :
          CellAt(g.cells, Word(chain[n])) = CellAt(f.cells, Word(chain[n]))
  BY <1>2, <1>3, <1>5
<1>9. CellAt(g.cells, Word(chain[l])) = Ptr(base)
  BY <1>3, <1>5
<1>10. PICK longer : /\ Linked(g.cells, longer) /\ SameBlocks(chain, longer, l)
                     /\ Len(longer) = l + 1 /\ longer[l + 1] = base
  <2> DEFINE c == f.cells
             d == g.cells
  <2>1. /\ Linked(c, chain) /\ l \in 1..Len(chain) /\ Len(c) \in Nat
        /\ Len(d) \in Nat /\ Len(c) <= Len(d) /\ base \in Nat
        /\ chain[l] + BlockSize <= base /\ Bare(d, base)
        /\ CellAt(d, Word(chain[l])) = Ptr(base)
        /\ \A n \in 1..(l - 1) :
               CellAt(d, Word(chain[n])) = CellAt(c, Word(chain[n]))
    BY <1>1, <1>2, <1>4, <1>6, <1>7, <1>8, <1>9
  <2> HIDE DEF c, d, base
  <2>2. \E other : /\ Linked(d, other) /\ SameBlocks(chain, other, l)
                  /\ Len(other) = l + 1 /\ other[l + 1] = base
    BY <2>1, LinkedGrows
  <2> QED
    BY <2>2 DEF d
<1>11. Bins(g, hd, k, longer, l, old)
  <2>1. \A path \in Path : HashSlot(g, path) = HashSlot(f, path)
    BY DEF HashSlot
  <2>2. \A i \in Nat : i < Word(chain[l]) => CellAt(g.cells, i) = CellAt(f.cells, i)
    BY <1>2, <1>3, <1>5
  <2> QED
    BY <1>1, <1>10, <2>1, <2>2, BinsSame
<1>12. Taken(new, l + 1) = Taken(hd, l)
  <2>1. BinsPerBlock * (l + 1) = BinsPerBlock * l + BinsPerBlock
        /\ BinsPerBlock * l \in Nat
    BY <1>2, ImageAssumption
  <2> QED
    BY <2>1, ImageAssumption DEF Taken
<1>13. Reaches(new, longer, l + 1)
  <2>1. LastFree(new) = Word(base)
    BY <1>4, BlockSizeType, ImageAssumption DEF LastFree, Word
  <2>2. l + 1 \in 1..Len(longer) /\ BinsPerBlock <= BinsPerBlock
    BY <1>2, <1>10, ImageAssumption
  <2>3. hd["totalBins"] <= Taken(hd, l)
    BY <1>1 DEF Bins, Reaches
  <2> QED
    BY <1>10, <1>12, <2>1, <2>2, <2>3 DEF Reaches
<1>14. Bins(g, new, k, longer, l + 1, old)
  <2>1. old <= l + 1
    BY <1>1, <1>2, BinsType
  <2> QED
    BY <1>11, <1>12, <1>13, <2>1 DEF Bins
<1> QED
  BY <1>10, <1>14 DEF Listed

(* The entry goes to a slot that is handed out. *)
LEMMA EntryLists ==
    ASSUME NEW f \in Image, NEW g \in Image, NEW hd \in Header, NEW k,
           Apart(hd), Listed(f, hd, k), g.hdr = f.hdr, g.hash = f.hash,
           hd["binsRemain"] > 0, NEW entry \in Cell, entry.tag = "entry",
           g.cells = Overwritten(f.cells, hd["nextBin"], entry)
    PROVE  Listed(g, hd, k)
<1> DEFINE next == hd["nextBin"]
<1>1. PICK chain, l, old : Linked(f.cells, chain) /\ Bins(f, hd, k, chain, l, old)
  BY DEF Listed
<1>2. /\ l \in 1..Len(chain) /\ l \in Nat /\ Taken(hd, l) \in Nat
      /\ \A n \in 1..(l - 1) : n \in 1..Len(chain)
      /\ Reaches(hd, chain, l) /\ hd["binsRemain"] \in Nat
  BY <1>1, BinsType, SlotPlaces
<1>3. \A n \in 1..Len(chain) : next # Word(chain[n])
  <2> DEFINE i == Taken(hd, l) + 1
  <2>1. SlotAt(chain, i) = next
    BY <1>1, <1>2, TakenPlaces
  <2>2. i \in Nat \ {0} /\ i <= BinsPerBlock * l
    <3>1. BinsPerBlock * l \in Nat
      BY <1>2, ImageAssumption
    <3> QED
      BY <1>2, <3>1 DEF Taken
  <2> HIDE DEF i
  <2> QED
    BY <1>1, <1>2, <2>1, <2>2, SlotPlace
<1>4. /\ \A i \in Nat : i # next => CellAt(g.cells, i) = CellAt(f.cells, i)
      /\ CellAt(g.cells, next) = entry
  <2>1. next \in Nat /\ next > 0
    BY SlotPlaces DEF Apart
  <2>2. g.cells = Overwritten(f.cells, next, entry)
    OBVIOUS
  <2> HIDE DEF next
  <2> QED
    BY <2>1, <2>2, OneCell
<1>5. Len(f.cells) <= Len(g.cells)
  <2>1. next \in Nat /\ f.cells \in Seq(Cell)
    BY SlotPlaces, ImageFields
  <2> HIDE DEF next
  <2>2. Len(Overwritten(f.cells, next, entry)) >= Len(f.cells)
    BY <2>1, OverwrittenCells
  <2> QED
    BY <2>2 DEF next
<1>6. ASSUME NEW i \in Nat, CellAt(g.cells, i) # CellAt(f.cells, i)
      PROVE  /\ CellAt(g.cells, i).tag = "entry"
             /\ \A n \in 1..(l - 1) : i # Word(chain[n])
  BY <1>2, <1>3, <1>4, <1>6
<1> QED
  BY <1>1, <1>5, <1>6, CellsKeepBins

(* The slot is counted, and what is kept is found where it was. *)
LEMMA HashLists ==
    ASSUME NEW f \in Image, NEW g \in Image, NEW hd \in Header, NEW new \in Header,
           NEW k, Listed(f, hd, k), g.hdr = f.hdr, g.cells = f.cells,
           \A path \in Path :
               HashSlot(f, path) # 0 => HashSlot(g, path) = HashSlot(f, path),
           hd["binsRemain"] > 0, CellAt(f.cells, hd["nextBin"]).tag = "entry",
           new["nextBin"] = hd["nextBin"] + BinSize,
           new["binsRemain"] = hd["binsRemain"] - 1,
           new["totalBins"] = hd["totalBins"] + 1
    PROVE  Listed(g, new, k)
<1>1. PICK chain, l, old : Linked(f.cells, chain) /\ Bins(f, hd, k, chain, l, old)
  BY DEF Listed
<1>2. /\ l \in 1..Len(chain) /\ l \in Nat /\ Taken(hd, l) \in Nat
      /\ Reaches(hd, chain, l) /\ Taken(f.hdr, old) \in Nat
      /\ Taken(f.hdr, old) <= Taken(hd, l)
  BY <1>1, BinsType
<1>3. /\ hd["binsRemain"] \in Nat /\ hd["nextBin"] \in Nat /\ hd["totalBins"] \in Nat
      /\ BinSize \in Nat /\ BinsPerBlock \in Nat
      /\ hd["totalBins"] <= Taken(hd, l) /\ hd["binsRemain"] <= BinsPerBlock
  BY <1>2, ImageAssumption DEF Header, HeaderWord, Reaches
<1>4. Taken(new, l) = Taken(hd, l) + 1
  <2>1. BinsPerBlock * l \in Nat
    BY <1>2, <1>3
  <2> QED
    BY <1>3, <2>1 DEF Taken
<1>5. LastFree(new) = LastFree(hd)
  <2>1. hd["binsRemain"] * BinSize \in Nat
        /\ (hd["binsRemain"] - 1) * BinSize = hd["binsRemain"] * BinSize - BinSize
    BY <1>3
  <2> QED
    BY <1>3, <2>1 DEF LastFree
<1>6. Reaches(new, chain, l)
  BY <1>2, <1>3, <1>4, <1>5 DEF Reaches
<1>7. Bins(g, hd, k, chain, l, old)
  <2>1. SameBlocks(chain, chain, l)
    BY <1>2 DEF SameBlocks
  <2> QED
    BY <1>1, <2>1, BinsSame
<1>8. \A i \in 1..Taken(new, l) : CellAt(g.cells, SlotAt(chain, i)).tag = "entry"
  <2> TAKE i \in 1..Taken(new, l)
  <2>1. CASE i = Taken(hd, l) + 1
    <3>1. SlotAt(chain, i) = hd["nextBin"]
      BY <1>1, <1>2, <2>1, TakenPlaces
    <3> QED
      BY <3>1
  <2>2. CASE i # Taken(hd, l) + 1
    <3>1. i \in 1..Taken(hd, l)
      BY <1>2, <1>4, <2>2
    <3> QED
      BY <1>7, <3>1 DEF Bins
  <2> QED
    BY <2>1, <2>2
<1>9. Taken(g.hdr, old) <= Taken(new, l)
  BY <1>2, <1>4
<1>10. Bins(g, new, k, chain, l, old)
  BY <1>6, <1>7, <1>8, <1>9 DEF Bins
<1> QED
  BY <1>1, <1>10 DEF Listed

(* An entry stays one when its status is overwritten. *)
LEMMA StatusLists ==
    ASSUME NEW f \in Image, NEW hd \in Header, NEW k, Listed(f, hd, k),
           NEW slot, HasTag(f, slot, "entry"), NEW status \in Status
    PROVE  Listed(SetStatus(f, slot, status), hd, k)
<1> DEFINE entry == f.cells[slot]
           g == SetStatus(f, slot, status)
<1>1. PICK chain, l, old : Linked(f.cells, chain) /\ Bins(f, hd, k, chain, l, old)
  BY DEF Listed
<1>2. /\ l \in 1..Len(chain) /\ l \in Nat /\ Len(chain) \in Nat
      /\ \A n \in 1..(l - 1) : n \in 1..Len(chain)
  BY <1>1, BinsType
<1>3. slot \in DOMAIN f.cells /\ entry.tag = "entry" /\ CellAt(f.cells, slot) = entry
      /\ g \in Image
  <2>1. slot \in DOMAIN f.cells
    BY DEF HasTag
  <2> QED
    BY <2>1, SetStatusType, TagOfCell DEF HasTag
<1>4. /\ g.hdr = f.hdr /\ g.hash = f.hash
      /\ g.cells = [f.cells EXCEPT ![slot] = Entry(entry.path, status,
                                                 entry.info, entry.type)]
  BY DEF SetStatus
<1>5. /\ DOMAIN g.cells = DOMAIN f.cells
      /\ \A i : i # slot => CellAt(g.cells, i) = CellAt(f.cells, i)
      /\ CellAt(g.cells, slot).tag = "entry"
  <2>1. DOMAIN g.cells = DOMAIN f.cells
    BY <1>4
  <2>2. \A i \in DOMAIN f.cells : i # slot => g.cells[i] = f.cells[i]
    BY <1>4
  <2>3. g.cells[slot] = Entry(entry.path, status, entry.info, entry.type)
    BY <1>3, <1>4
  <2> HIDE DEF g, entry
  <2> QED
    BY <1>3, <2>1, <2>2, <2>3 DEF CellAt, Entry
<1> HIDE DEF g
<1>6. Len(f.cells) <= Len(g.cells)
  <2>1. f.cells \in Seq(Cell) /\ g.cells \in Seq(Cell)
    BY <1>3, ImageFields
  <2> QED
    BY <1>5, <2>1
<1>7. \A n \in 1..(l - 1) : slot # Word(chain[n])
  <2> TAKE n \in 1..(l - 1)
  <2>1. n \in 1..(Len(chain) - 1)
    BY <1>2
  <2>2. CellAt(f.cells, Word(chain[n])) = Ptr(chain[n + 1])
    BY <1>1, <2>1 DEF Linked
  <2> QED
    BY <1>3, <2>2 DEF Ptr
<1>8. Listed(g, hd, k)
  BY <1>1, <1>3, <1>4, <1>5, <1>6, <1>7, CellsKeepBins
<1> QED
  BY <1>8 DEF g

(* The header on disk reaches as far as that in memory; what is kept from then
   on has the slot handed out last. *)
LEMMA HeaderLists ==
    ASSUME NEW f \in Image, NEW g \in Image, NEW hd \in Header, NEW new \in Header,
           NEW k, NEW more, Listed(f, hd, k),
           g.hdr = new, g.hash = f.hash, g.cells = f.cells,
           new["nextBin"] = hd["nextBin"], new["binsRemain"] = hd["binsRemain"],
           new["totalBins"] = hd["totalBins"],
           \A name \in Path :
               more[name] # NoRecord =>
                   \/ k[name] # NoRecord
                   \/ /\ hd["binsRemain"] < BinsPerBlock
                      /\ HashSlot(g, name) = hd["nextBin"] - BinSize
    PROVE  Listed(g, new, more)
<1>1. PICK chain, l, old : Linked(f.cells, chain) /\ Bins(f, hd, k, chain, l, old)
  BY DEF Listed
<1>2. /\ l \in 1..Len(chain) /\ l \in Nat /\ Taken(hd, l) \in Nat
      /\ Reaches(hd, chain, l) /\ Taken(f.hdr, old) \in Nat
      /\ Taken(f.hdr, old) <= Taken(hd, l)
  BY <1>1, BinsType
<1>3. Reaches(new, chain, l) /\ Taken(new, l) = Taken(hd, l)
  BY <1>2 DEF Reaches, Taken, LastFree
<1>4. ASSUME NEW name \in Path, more[name] # NoRecord
      PROVE  \E i \in 1..Taken(new, l) : HashSlot(g, name) = SlotAt(chain, i)
  <2>1. CASE k[name] # NoRecord
    <3>1. PICK i \in 1..Taken(f.hdr, old) : HashSlot(f, name) = SlotAt(chain, i)
      BY <1>1, <2>1 DEF Bins
    <3>2. i \in 1..Taken(new, l)
      BY <1>2, <1>3
    <3> QED
      BY <3>1, <3>2 DEF HashSlot
  <2>2. CASE /\ hd["binsRemain"] < BinsPerBlock
             /\ HashSlot(g, name) = hd["nextBin"] - BinSize
    <3>1. /\ Taken(hd, l) > 0
          /\ SlotAt(chain, Taken(hd, l)) = hd["nextBin"] - BinSize
      BY <1>1, <1>2, <2>2, TakenPlaces
    <3>2. Taken(hd, l) \in 1..Taken(new, l)
      BY <1>2, <1>3, <3>1
    <3> QED
      BY <2>2, <3>1, <3>2
  <2> QED
    BY <1>4, <2>1, <2>2
<1>5. \A i \in 1..Taken(new, l) : CellAt(g.cells, SlotAt(chain, i)).tag = "entry"
  BY <1>1, <1>3 DEF Bins
<1>6. l <= l /\ Taken(new, l) <= Taken(new, l)
  BY <1>2, <1>3
<1>7. Bins(g, new, more, chain, l, l)
  BY <1>3, <1>4, <1>5, <1>6 DEF Bins
<1> QED
  BY <1>1, <1>7 DEF Listed

(* A torn header counts no more than what it reaches. *)
LEMMA BrokenLists ==
    ASSUME NEW f \in Image, NEW hd \in Header, NEW k, Listed(f, hd, k),
           NEW g, NEW new, NEW closed, NEW torn, Broken(f, hd, closed, torn, g, new)
    PROVE  Listed(g, new, k)
<1>1. PICK chain, l, old : Linked(f.cells, chain) /\ Bins(f, hd, k, chain, l, old)
  BY DEF Listed
<1>2. /\ l \in 1..Len(chain) /\ l \in Nat /\ old \in Nat /\ old <= l
      /\ Taken(hd, l) \in Nat /\ Taken(f.hdr, old) \in Nat
      /\ Reaches(hd, chain, l) /\ Reaches(f.hdr, chain, old)
      /\ Taken(f.hdr, old) <= Taken(hd, l)
  BY <1>1, BinsType
<1>3. /\ g.hdr = torn /\ g.hash = f.hash /\ g.cells = f.cells
      /\ new \in {closed, torn}
      /\ closed["nextBin"] = hd["nextBin"] /\ closed["binsRemain"] = hd["binsRemain"]
      /\ closed["totalBins"] = hd["totalBins"]
      /\ \/ /\ torn["nextBin"] = f.hdr["nextBin"]
            /\ torn["binsRemain"] = f.hdr["binsRemain"]
            /\ torn["totalBins"] = f.hdr["totalBins"]
         \/ /\ torn["nextBin"] = closed["nextBin"]
            /\ torn["binsRemain"] = closed["binsRemain"]
            /\ torn["totalBins"] \in {f.hdr["totalBins"], closed["totalBins"]}
  BY DEF Broken
<1>4. Reaches(closed, chain, l) /\ Taken(closed, l) = Taken(hd, l)
  BY <1>2, <1>3 DEF Reaches, Taken, LastFree
<1>5. \E o \in {old, l} : /\ Reaches(torn, chain, o)
                          /\ Taken(torn, o) \in {Taken(f.hdr, old), Taken(hd, l)}
  <2>1. CASE /\ torn["nextBin"] = f.hdr["nextBin"]
             /\ torn["binsRemain"] = f.hdr["binsRemain"]
             /\ torn["totalBins"] = f.hdr["totalBins"]
    <3>1. Reaches(torn, chain, old) /\ Taken(torn, old) = Taken(f.hdr, old)
      BY <1>2, <2>1 DEF Reaches, Taken, LastFree
    <3> QED
      BY <3>1
  <2>2. CASE /\ torn["nextBin"] = closed["nextBin"]
             /\ torn["binsRemain"] = closed["binsRemain"]
             /\ torn["totalBins"] \in {f.hdr["totalBins"], closed["totalBins"]}
    <3>1. Taken(torn, l) = Taken(hd, l)
      BY <1>3, <2>2 DEF Taken
    <3>2. torn["totalBins"] <= Taken(hd, l)
      <4>1. hd["totalBins"] <= Taken(hd, l) /\ f.hdr["totalBins"] <= Taken(f.hdr, old)
        BY <1>2 DEF Reaches
      <4>2. f.hdr["totalBins"] \in Nat
        BY ImageFields DEF Header, HeaderWord
      <4> QED
        BY <1>2, <1>3, <2>2, <4>1, <4>2
    <3>3. Reaches(torn, chain, l)
      BY <1>2, <1>3, <2>2, <3>1, <3>2 DEF Reaches, LastFree
    <3> QED
      BY <3>1, <3>3
  <2> QED
    BY <1>3, <2>1, <2>2
<1>6. PICK o \in {old, l} : /\ Reaches(torn, chain, o)
                            /\ Taken(torn, o) \in {Taken(f.hdr, old), Taken(hd, l)}
  BY <1>5
<1>7. \E m \in {o, l} : Reaches(new, chain, m) /\ Taken(torn, o) <= Taken(new, m)
                        /\ Taken(new, m) <= Taken(hd, l)
  <2>1. Taken(torn, o) \in Nat /\ Taken(torn, o) <= Taken(hd, l)
    BY <1>2, <1>6
  <2>2. CASE new = closed
    BY <1>2, <1>4, <2>1, <2>2
  <2>3. CASE new = torn
    BY <1>6, <2>1, <2>3
  <2> QED
    BY <1>3, <2>2, <2>3
<1>8. PICK m \in {o, l} : Reaches(new, chain, m) /\ Taken(torn, o) <= Taken(new, m)
                          /\ Taken(new, m) <= Taken(hd, l)
  BY <1>7
<1>9. Taken(new, m) \in Nat /\ Taken(torn, o) \in Nat /\ Taken(f.hdr, old) <= Taken(torn, o)
      /\ o <= m
  <2>1. chain \in Seq(Nat) /\ Len(chain) \in Nat
    BY <1>1 DEF Linked
  <2>2. new \in Header
    BY <1>3 DEF Broken
  <2>3. Taken(new, m) \in Nat
    BY <1>8, <2>1, <2>2, TakenType
  <2>4. Taken(torn, o) \in Nat /\ Taken(f.hdr, old) <= Taken(torn, o)
    BY <1>2, <1>6
  <2>5. o <= m
    BY <1>2, <1>6, <1>8
  <2> QED
    BY <2>3, <2>4, <2>5
<1>10. \A i \in 1..Taken(new, m) : CellAt(g.cells, SlotAt(chain, i)).tag = "entry"
  <2>1. \A i \in 1..Taken(new, m) : i \in 1..Taken(hd, l)
    BY <1>2, <1>8, <1>9
  <2> QED
    BY <1>1, <1>3, <2>1 DEF Bins
<1>11. ASSUME NEW path \in Path, k[path] # NoRecord
       PROVE  \E i \in 1..Taken(torn, o) : HashSlot(g, path) = SlotAt(chain, i)
  <2>1. PICK i \in 1..Taken(f.hdr, old) : HashSlot(f, path) = SlotAt(chain, i)
    BY <1>1, <1>11 DEF Bins
  <2>2. i \in 1..Taken(torn, o)
    BY <1>2, <1>9
  <2> QED
    BY <1>3, <2>1, <2>2 DEF HashSlot
<1>12. Bins(g, new, k, chain, m, o)
  BY <1>3, <1>6, <1>8, <1>9, <1>10, <1>11 DEF Bins
<1> QED
  BY <1>1, <1>3, <1>12 DEF Listed

-----------------------------------------------------------------------------
(* Every step lists what is kept.                                          *)

(* Every write but that of the header. *)
LEMMA WriteLists ==
    ASSUME OneHandle, HandlesTypeOK, job[Only] # << >>,
           QueueOK(disk, hdr[Only], job[Only]),
           Sound(disk, hdr[Only], job[Only], kept),
           BinsListed(disk, hdr[Only], job[Only], kept),
           NEW put, put = Head(job[Only]), put.do # "header",
           Written(Only, put) \in Image
    PROVE  BinsListed(Written(Only, put), Remembered(Only, put), Tail(job[Only]), kept)
<1> DEFINE f   == disk
           hd  == hdr[Only]
           q   == job[Only]
           g   == Written(Only, put)
           new == Remembered(Only, put)
           base == hd["fileSize"]
           next == hd["nextBin"]
<1>1. /\ f \in Image /\ hd \in Header /\ q \in Seq(Put) /\ q # << >>
      /\ QueueOK(f, hd, q) /\ SlotIsFree(q, hd) /\ InOrder(q)
  BY DEF OneHandle, HandlesTypeOK, QueueOK
<1>2. /\ put.do \in Kind /\ put = q[1] /\ 1 \in 1..Len(q)
      /\ put.do = "cell" => put.at \in Nat /\ put.cell \in Cell
      /\ put.do \in {"entry", "hash"} => put.entry \in Cell /\ put.entry.tag = "entry"
      /\ put.do = "status" => put.slot \in Nat /\ put.status \in Status
  BY <1>1, QueueTail, PutTypes DEF SlotIsFree
<1>3. /\ base \in Nat /\ next \in Nat /\ hd["binsRemain"] \in Nat
      /\ f.cells \in Seq(Cell) /\ g \in Image
  BY <1>1, SlotPlaces, ImageFields
<1>4. /\ Apart(hd) /\ WritesAreSafe(f, hd, q) /\ BinWrites(f, hd, q) /\ Listed(f, hd, kept)
  BY DEF Sound, BinsListed
<1>5. put.do \notin {"pointer", "hash"} => new = hd
  BY DEF Remembered
<1>6. ASSUME NEW kind \in Kind, Rank[kind] < Rank[put.do]
      PROVE  ~ Waiting(q, kind)
  <2>1. /\ Waiting(q, kind) /\ put.do # kind => Waiting(Tail(q), kind)
        /\ Waiting(Tail(q), kind) => \/ Rank[put.do] < Rank[kind]
                                     \/ put.do = "cell" /\ kind = "cell"
    BY <1>1, WaitingTail
  <2>2. Rank[kind] \in Nat /\ Rank[put.do] \in Nat
    BY <1>2 DEF Rank
  <2> QED
    BY <1>6, <2>1, <2>2
<1>7. put.do \in {"entry", "hash"} => hd["binsRemain"] > 0
  <2> SUFFICES ASSUME put.do \in {"entry", "hash"} PROVE hd["binsRemain"] > 0
    OBVIOUS
  <2>1. ~ Waiting(q, "pointer")
    BY <1>6, RankValues DEF Kind
  <2>2. Waiting(q, put.do)
    BY <1>1, WaitingTail
  <2> QED
    BY <1>1, <2>1, <2>2 DEF SlotIsFree
<1>8. hd["binsRemain"] <= BinsPerBlock
  BY <1>4 DEF Listed, Bins, Reaches
<1> HIDE DEF f, hd, q, g, new
<1>9. /\ put.do = "hash" => new["binsRemain"] < BinsPerBlock
      /\ put.do = "block" => Bare(g.cells, new["fileSize"])
      /\ Listed(g, new, kept)
  <2>1. CASE put.do = "cell"
    <3>1. /\ g.hdr = f.hdr /\ g.hash = f.hash
          /\ g.cells = Overwritten(f.cells, put.at, put.cell)
      BY <2>1, WrittenParts DEF f, g
    <3>2. put.at >= base /\ put.cell.tag # "ptr"
      BY <1>2, <1>4, <2>1 DEF WritesAreSafe, BinWrites
    <3> QED
      BY <1>1, <1>2, <1>3, <1>4, <1>5, <2>1, <3>1, <3>2, CellLists
  <2>2. CASE put.do = "block"
    <3> DEFINE c == Zeroed(base, base + BlockSize)
    <3>1. g.hdr = f.hdr /\ g.hash = f.hash /\ g.cells = c
      BY <2>2, WrittenParts DEF f, g, hd
    <3>2. /\ Len(c) >= Len(f.cells) /\ Len(c) >= base + BlockSize - 1
          /\ \A i \in Nat :
                 CellAt(c, i) = IF base <= i /\ i < base + BlockSize THEN Zero
                                ELSE CellAt(f.cells, i)
      BY <1>3, ZeroedCells DEF f
    <3> HIDE DEF c
    <3>3. Len(f.cells) <= Len(g.cells)
      <4>1. Len(f.cells) \in Nat /\ Len(g.cells) \in Nat
        BY <1>3, ImageFields
      <4> QED
        BY <3>1, <3>2, <4>1
    <3>4. Listed(g, hd, kept) /\ Bare(g.cells, base)
      BY <1>1, <1>3, <1>4, <3>1, <3>2, <3>3, BlockLists
    <3> QED
      BY <1>5, <2>2, <3>4
  <2>3. CASE put.do = "pointer"
    <3>1. /\ g.hdr = f.hdr /\ g.hash = f.hash
          /\ g.cells = Overwritten(f.cells, next, Ptr(base))
      BY <2>3, WrittenParts DEF f, g, hd
    <3>2. /\ new \in Header /\ new["nextBin"] = base
          /\ new["binsRemain"] = BinsPerBlock /\ new["totalBins"] = hd["totalBins"]
      BY <2>3, RememberedWords DEF hd, new
    <3>3. Waiting(q, "pointer") /\ ~ Waiting(q, "block")
      <4>1. ~ Waiting(q, "block")
        BY <1>6, <2>3, RankValues DEF Kind
      <4> QED
        BY <1>1, <2>3, <4>1, WaitingTail DEF q
    <3>4. hd["binsRemain"] = 0 /\ Bare(f.cells, base)
      BY <1>4, <3>3 DEF BinWrites
    <3> QED
      BY <1>1, <1>3, <1>4, <2>3, <3>1, <3>2, <3>4, PointerLists
  <2>4. CASE put.do = "entry"
    <3>1. /\ g.hdr = f.hdr /\ g.hash = f.hash
          /\ g.cells = Overwritten(f.cells, next, put.entry)
      BY <2>4, WrittenParts DEF f, g, hd
    <3> QED
      BY <1>1, <1>2, <1>3, <1>4, <1>5, <1>7, <2>4, <3>1, EntryLists
  <2>5. CASE put.do = "hash"
    <3>1. g.hdr = f.hdr /\ g.cells = f.cells
      BY <2>5, WrittenParts DEF f, g
    <3>2. /\ new \in Header /\ new["nextBin"] = next + BinSize
          /\ new["binsRemain"] = hd["binsRemain"] - 1
          /\ new["totalBins"] = hd["totalBins"] + 1
          /\ \A path \in Path :
                 HashSlot(f, path) # 0 => HashSlot(g, path) = HashSlot(f, path)
      BY <1>2, <1>7, <2>5, RememberedWords DEF hd, new, f, g
    <3>3. CellAt(f.cells, next).tag = "entry"
      <4>1. ~ Waiting(q, "entry")
        BY <1>6, <2>5, RankValues DEF Kind
      <4>2. CellAt(f.cells, next) = put.entry
        BY <1>2, <1>4, <2>5, <4>1 DEF WritesAreSafe
      <4> QED
        BY <1>2, <2>5, <4>2
    <3>4. Listed(g, new, kept)
      BY <1>1, <1>3, <1>4, <1>7, <2>5, <3>1, <3>2, <3>3, HashLists
    <3> QED
      BY <1>3, <1>8, <2>5, <3>2, <3>4, ImageAssumption
  <2>6. CASE put.do = "status"
    <3>1. g = SetStatus(f, put.slot, put.status)
      BY <2>6, WrittenParts DEF f, g
    <3>2. HasTag(f, put.slot, "entry")
      BY <1>1, <1>2, <2>6 DEF QueueOK, StatusOfEntry
    <3> QED
      BY <1>1, <1>2, <1>4, <1>5, <2>6, <3>1, <3>2, StatusLists
  <2> QED
    BY <1>2, <2>1, <2>2, <2>3, <2>4, <2>5, <2>6 DEF Kind
<1>10. BinWrites(g, new, Tail(q))
  <2>1. put = Head(q)
    BY DEF q
  <2> QED
    BY <1>1, <1>4, <1>5, <1>9, <2>1, BinWritesStay
<1> QED
  BY <1>9, <1>10 DEF BinsListed, g, new, q

(* The write of the header; more is what is kept from then on. *)
LEMMA HeaderWriteLists ==
    ASSUME OneHandle, HandlesTypeOK, job[Only] # << >>,
           QueueOK(disk, hdr[Only], job[Only]),
           BinsListed(disk, hdr[Only], job[Only], kept),
           NEW put, put = Head(job[Only]), put.do = "header",
           Written(Only, put) \in Image, NEW more,
           \A path \in Path :
               more[path] =
                   IF /\ put.path = path
                      /\ FindRecord(Written(Only, put), path) # 0
                      /\ FindRecord(Written(Only, put), path)
                           = hdr[Only]["nextBin"] - BinSize
                   THEN ReadRecord(Written(Only, put), path) ELSE kept[path]
    PROVE  BinsListed(Written(Only, put), Remembered(Only, put), Tail(job[Only]), more)
<1> DEFINE f   == disk
           hd  == hdr[Only]
           q   == job[Only]
           g   == Written(Only, put)
           new == Remembered(Only, put)
<1>1. /\ f \in Image /\ hd \in Header /\ q \in Seq(Put) /\ q # << >>
      /\ QueueOK(f, hd, q) /\ InOrder(q) /\ g \in Image
  BY DEF OneHandle, HandlesTypeOK, QueueOK
<1>2. /\ put.size \in Nat /\ put.count \in Counter /\ put = q[1] /\ Len(q) = 1
      /\ Tail(q) = << >> /\ 1 \in 1..Len(q)
  <2>1. put \in Put /\ put = q[1] /\ 1 \in 1..Len(q)
    BY <1>1, QueueTail
  <2> QED
    BY <1>1, <2>1, PutTypes, HeaderIsLast DEF QueueOK, HeaderCounts
<1>3. /\ g.hdr = Closed(Only, put) /\ g.hash = f.hash /\ g.cells = f.cells
      /\ new = Closed(Only, put)
  BY WrittenParts DEF Remembered
<1>4. /\ new \in Header
      /\ new["nextBin"] = hd["nextBin"] /\ new["binsRemain"] = hd["binsRemain"]
      /\ new["totalBins"] = hd["totalBins"]
  BY <1>2, <1>3, ClosedWords
<1>5. \A path \in Path :
         more[path] = IF /\ put.path = path
                         /\ FindRecord(g, path) # 0
                         /\ FindRecord(g, path) = hd["nextBin"] - BinSize
                      THEN ReadRecord(g, path) ELSE kept[path]
  OBVIOUS
<1>6. BinWrites(f, hd, q) /\ Listed(f, hd, kept)
  BY DEF BinsListed
<1> HIDE DEF f, hd, q, g, new
<1>7. put.path \in Path => hd["binsRemain"] < BinsPerBlock
  <2>1. \A i \in 1..Len(q) : q[i].do = "header"
    BY <1>2
  <2>2. ~ Waiting(q, "hash")
    BY <2>1 DEF Waiting
  <2> QED
    BY <1>2, <1>6, <2>2 DEF BinWrites
<1>8. \A path \in Path :
          more[path] # NoRecord =>
              \/ kept[path] # NoRecord
              \/ /\ hd["binsRemain"] < BinsPerBlock
                 /\ HashSlot(g, path) = hd["nextBin"] - BinSize
  BY <1>5, <1>7 DEF FindRecord
<1>9. Listed(g, new, more)
  <2>1. g.hdr = new
    BY <1>3
  <2> QED
    BY <1>1, <1>3, <1>4, <1>6, <1>8, <2>1, HeaderLists
<1>10. BinWrites(g, new, Tail(q))
  <2>1. BinWrites(g, new, << >>)
    BY DEF BinWrites, Waiting
  <2> QED
    BY <1>2, <2>1
<1> QED
  BY <1>9, <1>10 DEF BinsListed, g, new, q

(* A write. *)
LEMMA WriteKeepsListed ==
    ASSUME OneHandle, HandlesInv, HandlesInv', ListedInv, Write(Only)
    PROVE  ListedInv'
<1> DEFINE put == Head(job[Only])
           f == disk
           hd == hdr[Only]
           q == job[Only]
<1>1. /\ HandlesTypeOK /\ QueueOK(f, hd, q) /\ Only \in Handle
      /\ disk' \in Image /\ hdr \in [Handle -> Header] /\ job \in [Handle -> Seq(Put)]
      /\ kept \in [Path -> Record \cup {NoRecord}]
  BY DEF HandlesInv, HandlesTypeOK, OneHandle
<1>2. /\ disk' = Written(Only, put) /\ q # << >>
      /\ hdr' = [hdr EXCEPT ![Only] = Remembered(Only, put)]
      /\ job' = [job EXCEPT ![Only] = Tail(@)] /\ Complete(Only, put)
  BY DEF Write, Idle
<1>3. hdr'[Only] = Remembered(Only, put) /\ job'[Only] = Tail(q)
  BY <1>1, <1>2
<1>4. SUFFICES ASSUME ~ disk'.spilled
               PROVE  BinsListed(disk', hdr'[Only], job'[Only], kept')
  BY DEF ListedInv
<1>5. CASE put.do # "header"
  <2>1. kept' = kept
    <3>1. CASE Len(q) > 1
      BY <1>2, <3>1 DEF Complete, ghosts
    <3>2. CASE ~ Len(q) > 1
      <4>1. kept' = [path \in Path |-> kept[path]]
        BY <1>2, <1>5, <3>2 DEF Complete
      <4> QED
        BY <1>1, <4>1
    <3> QED
      BY <3>1, <3>2
  <2>2. disk'.spilled = disk.spilled
    <3>1. After(f, hd, q, kept, Written(Only, put), Remembered(Only, put), kept)
      BY <1>1, <1>2, <1>5, WriteIsSound
    <3> QED
      BY <1>2, <3>1 DEF After
  <2>3. Sound(f, hd, q, kept) /\ BinsListed(f, hd, q, kept)
    BY <1>4, <2>2 DEF HandlesInv, ListedInv
  <2>4. BinsListed(Written(Only, put), Remembered(Only, put), Tail(q), kept)
    BY <1>1, <1>2, <1>5, <2>3, WriteLists
  <2> QED
    BY <1>2, <1>3, <2>1, <2>4
<1>6. CASE put.do = "header"
  <2>1. Len(q) = 1
    <3>1. q \in Seq(Put) /\ InOrder(q)
      BY <1>1 DEF QueueOK
    <3> QED
      BY <1>2, <1>6, <3>1, HeaderIsLast
  <2>2. kept' = [path \in Path |->
                    IF /\ put.do = "header" /\ put.path = path
                       /\ FindRecord(disk', path) # 0
                       /\ FindRecord(disk', path) = hd["nextBin"] - BinSize
                    THEN ReadRecord(disk', path) ELSE kept[path]]
    BY <1>2, <2>1 DEF Complete
  <2>3. disk'.spilled = disk.spilled
    BY <1>1, <1>2, <1>6, WrittenParts
  <2>4. BinsListed(f, hd, q, kept)
    BY <1>4, <2>3 DEF ListedInv
  <2> DEFINE more == kept'
             g == Written(Only, put)
  <2>5. g \in Image
    BY <1>1, <1>2
  <2>6. \A path \in Path :
           more[path] =
               IF /\ put.path = path
                  /\ FindRecord(g, path) # 0
                  /\ FindRecord(g, path) = hd["nextBin"] - BinSize
               THEN ReadRecord(g, path) ELSE kept[path]
    BY <1>2, <1>6, <2>2
  <2> HIDE DEF more, put
  <2>7. put = Head(job[Only])
    BY DEF put
  <2>8. BinsListed(g, Remembered(Only, put), Tail(q), more)
    BY <1>1, <1>2, <1>6, <2>4, <2>5, <2>6, <2>7, HeaderWriteLists
  <2> QED
    BY <1>2, <1>3, <2>8 DEF more
<1> QED
  BY <1>5, <1>6

(* An operation that begins has changed nothing yet. *)
LEMMA BeginKeepsListed ==
    ASSUME ListedInv, NEW writes, Begins(writes), HandlesInv, OneHandle
    PROVE  ListedInv'
<1>1. /\ job' = [job EXCEPT ![Only] = writes] /\ hdr' = hdr /\ kept' = kept
      /\ Only \in Handle /\ job \in [Handle -> Seq(Put)]
  BY DEF Begins, Begin, ghosts, HandlesInv, HandlesTypeOK, OneHandle
<1>2. job'[Only] = writes
  BY <1>1
<1>3. SUFFICES ASSUME ~ disk'.spilled
               PROVE  BinsListed(disk', hdr'[Only], job'[Only], kept')
  BY DEF ListedInv
<1>4. /\ ~ disk.spilled /\ BinWrites(disk', hdr[Only], writes)
      /\ disk'.hdr = disk.hdr /\ disk'.cells = disk.cells /\ disk'.hash = disk.hash
  BY <1>3 DEF Begins, Begun
<1>5. Listed(disk, hdr[Only], kept)
  BY <1>4 DEF ListedInv, BinsListed
<1>6. Listed(disk', hdr[Only], kept)
  <2>1. PICK chain, l, old :
           Linked(disk.cells, chain) /\ Bins(disk, hdr[Only], kept, chain, l, old)
    BY <1>5 DEF Listed
  <2>2. \A path \in Path : HashSlot(disk', path) = HashSlot(disk, path)
    BY <1>4 DEF HashSlot
  <2>3. Bins(disk', hdr[Only], kept, chain, l, old)
    BY <1>4, <2>1, <2>2 DEF Bins
  <2> QED
    BY <1>4, <2>1, <2>3 DEF Listed
<1> QED
  BY <1>1, <1>2, <1>4, <1>6 DEF BinsListed

(* Nor has one that is broken off lost anything. *)
LEMMA BrokeOffKeepsListed ==
    ASSUME OneHandle, HandlesInv, ListedInv, BrokeOff
    PROVE  ListedInv'
<1>1. PICK closed, torn : Broken(disk, hdr[Only], closed, torn, disk', hdr'[Only])
  BY DEF BrokeOff
<1>2. job'[Only] = << >> /\ kept' = kept
  BY DEF BrokeOff
<1>3. SUFFICES ASSUME ~ disk'.spilled
               PROVE  BinsListed(disk', hdr'[Only], job'[Only], kept')
  BY DEF ListedInv
<1>4. disk \in Image /\ hdr[Only] \in Header
  BY DEF HandlesInv, HandlesTypeOK, OneHandle
<1>5. ~ disk.spilled
  BY <1>1, <1>3 DEF Broken
<1>6. Listed(disk, hdr[Only], kept)
  BY <1>5 DEF ListedInv, BinsListed
<1>7. Listed(disk', hdr'[Only], kept)
  <2> DEFINE new == hdr'[Only]
             g == disk'
             hd == hdr[Only]
  <2>1. Broken(disk, hd, closed, torn, g, new) /\ Listed(disk, hd, kept) /\ hd \in Header
    BY <1>1, <1>4, <1>6
  <2> HIDE DEF new, g, hd
  <2>2. Listed(g, new, kept)
    BY <1>4, <2>1, BrokenLists
  <2> QED
    BY <2>2 DEF new, g
<1>8. BinWrites(disk', hdr'[Only], << >>)
  BY DEF BinWrites, Waiting
<1> QED
  BY <1>2, <1>7, <1>8 DEF BinsListed

(* In a new file no slot of the one block is taken. *)
LEMMA InitListed ==
    ASSUME OneHandle, Init
    PROVE  ListedInv
<1> DEFINE chain == <<FirstBin>>
           f == NewFile
<1>1. /\ disk = f /\ hdr[Only] = f.hdr /\ job[Only] = << >>
      /\ \A path \in Path : kept[path] = NoRecord
  BY DEF Init, OneHandle
<1>2. /\ f.hdr["binsRemain"] = BinsPerBlock /\ f.hdr["nextBin"] = FirstBin
      /\ f.hdr["totalBins"] = 0
  BY DEF NewFile, HeaderWord
<1>3. /\ BlockSize \in Nat \ {0} /\ BlockSize = BinsPerBlock * BinSize + 1
      /\ BinsPerBlock \in Nat /\ BinSize \in Nat /\ FirstBin = 1
      /\ f \in Image /\ f.hdr \in Header
  BY BlockSizeType, ImageAssumption, NewFileType, ImageFields DEF FirstBin
<1>4. chain \in Seq(Nat) /\ Len(chain) = 1 /\ chain[1] = FirstBin
  BY <1>3
<1>5. f.cells = [i \in 1..(BlockSize + 1) |-> IF i <= BlockSize THEN Zero ELSE EofFlag]
  BY DEF NewFile
<1> HIDE DEF f, chain
<1>6. Linked(f.cells, chain)
  <2>1. Word(FirstBin) = BlockSize
    BY <1>3 DEF Word
  <2>2. Len(f.cells) = BlockSize + 1 /\ DOMAIN f.cells = 1..(BlockSize + 1)
    <3>1. f.cells \in Seq(Cell)
      BY <1>3, ImageFields
    <3>2. BlockSize + 1 \in Nat
      BY <1>3
    <3> QED
      BY <1>5, <3>1, <3>2
  <2>3. CellAt(f.cells, BlockSize) = Zero
    BY <1>3, <1>5, <2>2 DEF CellAt
  <2> QED
    BY <1>3, <1>4, <2>1, <2>2, <2>3 DEF Linked, Zero
<1>7. Taken(f.hdr, 1) = 0
  BY <1>2, <1>3 DEF Taken
<1>8. Reaches(f.hdr, chain, 1)
  BY <1>2, <1>3, <1>4, <1>7 DEF Reaches, LastFree, Word
<1>9. Bins(f, f.hdr, kept, chain, 1, 1)
  BY <1>1, <1>7, <1>8 DEF Bins
<1>10. BinWrites(f, f.hdr, << >>)
  BY DEF BinWrites, Waiting
<1> QED
  BY <1>1, <1>6, <1>9, <1>10 DEF ListedInv, BinsListed, Listed

(* The invariant holds. *)
LEMMA ListedInvHolds ==
    ASSUME OneHandle, 7 \notin TornAt
    PROVE  Spec => []ListedInv
<1>1. Init => ListedInv
  BY InitListed
<1>2. HandlesInv /\ HandlesInv' /\ ListedInv /\ [Next]_vars => ListedInv'
  <2> SUFFICES ASSUME HandlesInv, HandlesInv', ListedInv, [Next]_vars
               PROVE  ListedInv'
    OBVIOUS
  <2>1. CASE UNCHANGED vars
    BY <2>1 DEF vars, ghosts, ListedInv
  <2>2. CASE Next
    <3>1. PICK h \in Handle :
             Store(h) \/ Alias(h) \/ Mark(h) \/ Write(h) \/ Fail(h) \/ Crash(h) \/ Reopen(h)
      BY <2>2 DEF Next
    <3>2. h = Only
      BY DEF OneHandle
    <3>3. CASE Store(h)
      BY <3>2, <3>3, StoreIsBegun, BeginKeepsListed
    <3>4. CASE Alias(h)
      BY <3>2, <3>4, AliasIsBegun, BeginKeepsListed
    <3>5. CASE Mark(h)
      BY <3>2, <3>5, MarkIsBegun, BeginKeepsListed
    <3>6. CASE Write(h)
      BY <3>2, <3>6, WriteKeepsListed
    <3>7. CASE Fail(h)
      BY <3>2, <3>7, FailBreaksOff, BrokeOffKeepsListed
    <3>8. CASE Crash(h)
      BY <3>2, <3>8, CrashBreaksOff, BrokeOffKeepsListed
    <3>9. CASE Reopen(h)
      BY <3>2, <3>9, ReopenBreaksOff, BrokeOffKeepsListed
    <3> QED
      BY <3>1, <3>3, <3>4, <3>5, <3>6, <3>7, <3>8, <3>9
  <2> QED
    BY <2>1, <2>2
<1> QED
  BY <1>1, <1>2, HandlesInvHolds, PTL DEF Spec

(* A slot in use is an entry that the walk comes to. *)
LEMMA WalkOfBins ==
    ASSUME NEW f \in Image, NEW hd \in Header, NEW k, NEW chain, NEW l, NEW old,
           Linked(f.cells, chain), Bins(f, hd, k, chain, l, old)
    PROVE  /\ Taken(f.hdr, old) \in Nat /\ Taken(f.hdr, old) <= Len(SlotsInOrder(f))
           /\ Len(SlotsInOrder(f)) \in Nat /\ SlotsInOrder(f) \in Seq(Nat)
           /\ \A i \in 1..Taken(f.hdr, old) :
                  /\ i \in DOMAIN SlotsInOrder(f)
                  /\ SlotsInOrder(f)[i] = SlotAt(chain, i)
                  /\ HasTag(f, SlotAt(chain, i), "entry")
<1> DEFINE m == BinsPerBlock * Len(chain)
           n == Taken(f.hdr, old)
<1>1. /\ l \in 1..Len(chain) /\ l \in Nat /\ Len(chain) \in Nat /\ n \in Nat
      /\ n <= Taken(hd, l) /\ Taken(hd, l) \in Nat /\ Taken(hd, l) <= BinsPerBlock * l
  BY BinsType
<1>2. m \in Nat /\ n <= m
  <2>1. PICK d \in Nat : Len(chain) = l + d
    <3>1. Len(chain) - l \in Nat /\ l + (Len(chain) - l) = Len(chain)
      BY <1>1
    <3> QED
      BY <3>1
  <2>2. BinsPerBlock * (l + d) = BinsPerBlock * l + BinsPerBlock * d
        /\ BinsPerBlock * l \in Nat /\ BinsPerBlock * d \in Nat
    BY <1>1, ImageAssumption
  <2> QED
    BY <1>1, <2>1, <2>2
<1>3. SlotsInOrder(f) = SlotsOf(chain, m)
  BY LinkedWalk
<1>4. SlotsOf(chain, m) = [i \in 1..m |-> SlotAt(chain, i)]
  BY DEF SlotsOf
<1>5. \A i \in 1..m : SlotAt(chain, i) \in Nat
  <2> TAKE i \in 1..m
  <2>1. i \in Nat \ {0} /\ i <= BinsPerBlock * Len(chain) /\ Len(chain) \in 1..Len(chain)
    BY <1>1, <1>2
  <2> QED
    BY <2>1, SlotPlace
<1>6. ASSUME NEW i \in 1..n PROVE HasTag(f, SlotAt(chain, i), "entry")
  <2>1. i \in 1..Taken(hd, l)
    BY <1>1
  <2>2. CellAt(f.cells, SlotAt(chain, i)).tag = "entry"
    BY <2>1 DEF Bins
  <2> QED
    BY <2>2, TagOfCell
<1> HIDE DEF m, n
<1>7. /\ SlotsOf(chain, m) \in Seq(Nat) /\ Len(SlotsOf(chain, m)) = m
      /\ \A i \in 1..m : SlotsOf(chain, m)[i] = SlotAt(chain, i)
  <2>1. SlotsOf(chain, m) \in [1..m -> Nat]
    BY <1>4, <1>5
  <2> QED
    BY <1>2, <1>4, <2>1, FunctionIsSeq
<1>8. \A i \in 1..n : i \in 1..m
  BY <1>1, <1>2
<1> QED
  BY <1>1, <1>2, <1>3, <1>6, <1>7, <1>8 DEF n

(* The header on disk never counts a slot that has no entry yet, and the       *)
(* chain of blocks leads to all that it counts, whatever failed or died        *)
(* between two writes: catalog and squeeze come to all that was committed.     *)
THEOREM CountedSlotsStayEntries ==
    ASSUME OneHandle, 7 \notin TornAt
    PROVE  Spec => []CountedSlotsAreEntries
<1>1. HandlesInv /\ ListedInv => CountedSlotsAreEntries
  <2> SUFFICES ASSUME HandlesInv, ListedInv, ~ disk.spilled
               PROVE  LET slots == SlotsInOrder(disk)
                      IN  /\ disk.hdr.totalBins <= Len(slots)
                          /\ \A n \in 1..disk.hdr.totalBins :
                                 HasTag(disk, slots[n], "entry")
    BY DEF CountedSlotsAreEntries
  <2>1. disk \in Image /\ hdr[Only] \in Header
    BY DEF HandlesInv, HandlesTypeOK, OneHandle
  <2>2. PICK chain, l, old :
           Linked(disk.cells, chain) /\ Bins(disk, hdr[Only], kept, chain, l, old)
    BY DEF ListedInv, BinsListed, Listed
  <2>3. Reaches(disk.hdr, chain, old)
    BY <2>2 DEF Bins
  <2>4. disk.hdr.totalBins \in Nat /\ disk.hdr.totalBins <= Taken(disk.hdr, old)
    BY <2>1, <2>3, ImageFields DEF Reaches, Header, HeaderWord
  <2>5. /\ Taken(disk.hdr, old) \in Nat
        /\ Taken(disk.hdr, old) <= Len(SlotsInOrder(disk))
        /\ Len(SlotsInOrder(disk)) \in Nat
        /\ \A i \in 1..Taken(disk.hdr, old) :
               /\ SlotsInOrder(disk)[i] = SlotAt(chain, i)
               /\ HasTag(disk, SlotAt(chain, i), "entry")
    BY <2>1, <2>2, WalkOfBins
  <2>6. \A n \in 1..disk.hdr.totalBins : n \in 1..Taken(disk.hdr, old)
    BY <2>4, <2>5
  <2> QED
    BY <2>4, <2>5, <2>6
<1> QED
  BY <1>1, HandlesInvHolds, ListedInvHolds, PTL

(* A record that a completed store has made readable is also found by the      *)
(* walk of the bins, even behind a torn header: what can be read is listed.    *)
THEOREM KeptStayListed ==
    ASSUME OneHandle, 7 \notin TornAt
    PROVE  Spec => []KeptAreListed
<1>1. HandlesInv /\ ListedInv => KeptAreListed
  <2> SUFFICES ASSUME HandlesInv, ListedInv, ~ disk.spilled,
                      NEW path \in Path, kept[path] # NoRecord
               PROVE  FindRecord(disk, path) \in Range(ReadAllBins(disk))
    BY DEF KeptAreListed
  <2>1. disk \in Image /\ hdr[Only] \in Header
    BY DEF HandlesInv, HandlesTypeOK, OneHandle
  <2>2. PICK chain, l, old :
           Linked(disk.cells, chain) /\ Bins(disk, hdr[Only], kept, chain, l, old)
    BY DEF ListedInv, BinsListed, Listed
  <2>3. PICK i \in 1..Taken(disk.hdr, old) : HashSlot(disk, path) = SlotAt(chain, i)
    BY <2>2 DEF Bins
  <2>4. ReadRecord(disk, path) = kept[path]
    BY DEF HandlesInv, Sound, Durable
  <2>5. FindRecord(disk, path) = HashSlot(disk, path)
    <3>1. HasInfo(disk, FindRecord(disk, path))
      BY <2>4 DEF ReadRecord, RecordAt
    <3>2. FindRecord(disk, path) # 0
      BY <2>1, <3>1, FoundEntry DEF HasInfo
    <3> QED
      BY <3>2 DEF FindRecord, HashSlot
  <2> DEFINE slots == SlotsInOrder(disk)
             at == {n \in DOMAIN slots : HasTag(disk, slots[n], "entry")}
  <2>6. slots \in Seq(Nat) /\ i \in at /\ slots[i] = SlotAt(chain, i)
        /\ at \subseteq DOMAIN slots
    BY <2>1, <2>2, WalkOfBins
  <2>7. ReadAllBins(disk) = Selected(slots, at)
    BY DEF ReadAllBins
  <2> HIDE DEF slots, at
  <2>8. at \subseteq 1..Len(slots)
    BY <2>6
  <2>9. \E n \in DOMAIN Selected(slots, at) : Selected(slots, at)[n] = slots[i]
    BY <2>6, <2>8, SelectedHas
  <2> QED
    BY <2>3, <2>5, <2>6, <2>7, <2>9 DEF Range
<1> QED
  BY <1>1, HandlesInvHolds, ListedInvHolds, PTL
=============================================================================
