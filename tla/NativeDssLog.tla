---------------------------- MODULE NativeDssLog ----------------------------
(***************************************************************************)
(* The file of NativeDss seen as the log of DssLog: the refinement mapping *)
(* and the properties that relate the two.  The auxiliary variable is the  *)
(* mapped log; it spares TLC the walk of the bins for every operator of    *)
(* DssLog that mentions the log.                                           *)
(***************************************************************************)
EXTENDS NativeDss

VARIABLE log       \* an auxiliary variable: always LogOf(file)

\* The entries of the bins in catalog order, each with the record its info
\* block leads to.
LogOf(f) ==
    LET slots == ReadAllBins(f)
    IN  [i \in 1..Len(slots) |->
            LET entry == f.cells[slots[i]]
                rec   == RecordAt(f, slots[i])
            IN  [path |-> entry.path, type |-> rec.type,
                 content |-> rec.content, status |-> entry.status]]

\* Every record some write function can be asked to store.
Writable ==
    UNION {
        {TextRecord(text) : text \in Value \cup {Empty}},
        {TsRecord(v, "units") : v \in Value},
        {TsIrregularRecord(v) : v \in Value},
        {PdRecord("ordinates", v, "units", l) :
            v \in Value, l \in {"labels", Empty}},
        {ArrayRecord(present, v) :
            present \in (SUBSET {"v1", "v2", "v3"}) \ {{}}, v \in Value},
        {LocationRecord(v, s) : v \in Value, s \in {"supplemental", Empty}},
        {GridRecord(v) : v \in Value} }

LogInit == Init /\ log = LogOf(file)
LogNext == Next /\ log' = LogOf(file')
LogSpec == LogInit /\ [][LogNext]_<<vars, log>>

Log == INSTANCE DssLog

(* Each operation of the handle is an operation of the log or leaves it    *)
(* alone, as long as no bin block is allocated in the middle of storing a  *)
(* record: entries are never lost, reordered, duplicated or altered, their *)
(* records never change, and squeeze's loop amounts to one compaction.     *)
ImplementsLog ==
    /\ Log!Init
    /\ [][~ file.spilled /\ ~ file'.spilled => Log!Next]_log

(* Under the same condition the hash table leads each name to what the log *)
(* says it names: the record of the oldest entry of the name's table hash  *)
(* if that entry is the name's, nothing otherwise.                         *)
LookupMatchesLog ==
    ~ file.spilled => \A path \in Path : ReadRecord(file, path) = Log!Read(path)
=============================================================================
