------------------------------- MODULE DssCopy -------------------------------
(***************************************************************************)
(* Copying from one file into another: copy_record and copy_file between   *)
(* two native handles, and dss-convert, which copies what the C library    *)
(* lists of a file of either version into a new native file.  A copy is a  *)
(* step for each record, so that what one entry leaves behind is there     *)
(* when the next is copied; the two handles do nothing else meanwhile.     *)
(*                                                                         *)
(* Both files are images of NativeDss: the source with all its operations, *)
(* the destination with a few stores of its own before and after.          *)
(***************************************************************************)
EXTENDS DssImage

CONSTANTS
    Storable,      \* the records that callers store in the source
    Text,          \* the texts that they store in the destination
    MaxBins,       \* bound: no record is begun beyond this many bins
    MaxDeletes,    \* bound: number of delete and alias_remove calls
    MaxListed      \* bound: number of records dss-convert is given

ASSUME CopyAssumption ==
    /\ Storable \subseteq Record
    /\ Text \subseteq Value
    /\ MaxBins \in Nat /\ MaxDeletes \in Nat /\ MaxListed \in Nat

VARIABLES
    src,           \* the file that is copied from
    dest,          \* the file that is copied into
    op,            \* "idle", "copy" in copy_file, "convert" in dss-convert
    todo,          \* what the loop has yet to copy
    copied,        \* the number that the loop reports in the end
    skipped,       \* what dss-convert reports beside it
    before         \* ghost: dest when the loop began

vars == <<src, dest, op, todo, copied, skipped, before>>

\* Their operations apart from squeeze, so that tmp may be anything.
Source == INSTANCE NativeDss
              WITH file <- src, tmp <- before, pc <- op, Kind <- {}
Target == INSTANCE NativeDss
              WITH file <- dest, tmp <- before, pc <- op, Kind <- {}

-----------------------------------------------------------------------------
(* dss-convert.  The C library is outside the repository: what it lists is *)
(* any sequence of names with what it reads for them.                      *)

Foreign ==
    {TextRecord(Empty), TsRecord(Empty, "units")}
      \cup UNION {{TextRecord(v), TsRecord(v, "units"),
                   PdRecord("ordinates", v, "units", Empty)} : v \in Value}

Listed == [path : Path, rec : Foreign]
Listing ==
    {list \in UNION {[1..n -> Listed] : n \in 0..MaxListed} :
        \A i, j \in DOMAIN list : list[i].path = list[j].path => i = j}

\* It tries the text reader, then that for time series.
ConvertCopies(r) ==
    IsText(r.type) \/ (IsTimeSeries(r.type) /\ r.content["v1"] # Empty)

-----------------------------------------------------------------------------

\* A program with two handles, or dss-convert after it has created its output.
Init ==
    /\ src = NewFile
    /\ dest = NewFile
    /\ before = NewFile
    /\ copied = 0 /\ skipped = 0
    /\ \/ op = "idle" /\ todo = << >>
       \/ op = "convert" /\ todo \in Listing

\* The callers' own operations on either file.
UseSource ==
    /\ \/ \E path \in Path, rec \in Storable : Source!Store(path, rec)
       \/ Source!Alias
       \/ Source!Mark
    /\ UNCHANGED <<dest, copied, skipped>>

UseTarget ==
    /\ \E path \in Path, text \in Text : Target!Store(path, TextRecord(text))
    /\ UNCHANGED <<src, copied, skipped>>

\* Faulty: a name that the destination already lists is written in its place.
TransferOver(path, rec, writes) ==
    dest' = IF ~ writes THEN dest
            ELSE IF FindRecord(dest, path) # 0
                 THEN [dest EXCEPT !.cells[FindRecord(dest, path)] =
                          Entry(path, "PRIMARY", dest.hdr["fileSize"], rec.type)]
            ELSE StoreRecord(dest, path, CopyForm(rec))

\* The record read for a name is written under the same name.
Transfer(path, rec, writes) ==
    dest' = IF writes THEN StoreRecord(dest, path, CopyForm(rec)) ELSE dest

\* copy_record: a name that is not found reads type 0, which copies nothing.
CopyRecord(path) ==
    /\ op = "idle"
    /\ Target!Room(dest)
    /\ LET rec == ReadRecord(src, path) IN Transfer(path, rec, CopyCopies(rec))
    /\ UNCHANGED <<src, op, todo, copied, skipped, before>>

\* Faulty: deleted entries are listed as well.
CopyBeginDeleted ==
    /\ op = "idle"
    /\ Target!Room(dest)
    /\ op' = "copy"
    /\ todo' = [i \in DOMAIN ReadAllBins(src) |-> src.cells[ReadAllBins(src)[i]]]
    /\ copied' = 0
    /\ before' = dest
    /\ UNCHANGED <<src, dest, skipped>>

CopyBegin ==
    /\ op = "idle"
    /\ Target!Room(dest)
    /\ op' = "copy"
    /\ todo' = Catalog(src)
    /\ copied' = 0
    /\ before' = dest
    /\ UNCHANGED <<src, dest, skipped>>

\* Faulty: every entry is counted.
CopyEntryCounted ==
    /\ op = "copy"
    /\ todo # << >>
    /\ LET path == Head(todo).path
           rec  == ReadRecord(src, path)
       IN  /\ Transfer(path, rec, CopyCopies(rec))
           /\ copied' = copied + 1
    /\ todo' = Tail(todo)
    /\ UNCHANGED <<src, op, skipped, before>>

\* An entry is copied by its name; an alias becomes a record.
CopyEntry ==
    /\ op = "copy"
    /\ todo # << >>
    /\ LET path == Head(todo).path
           rec  == ReadRecord(src, path)
       IN  /\ Transfer(path, rec, CopyCopies(rec))
           /\ copied' = IF CopyCopies(rec) THEN copied + 1 ELSE copied
    /\ todo' = Tail(todo)
    /\ UNCHANGED <<src, op, skipped, before>>

ConvertEntry ==
    /\ op = "convert"
    /\ todo # << >>
    /\ LET item   == Head(todo)
           writes == ConvertCopies(item.rec)
       IN  /\ Transfer(item.path, item.rec, writes)
           /\ copied' = IF writes THEN copied + 1 ELSE copied
           /\ skipped' = IF writes THEN skipped ELSE skipped + 1
    /\ todo' = Tail(todo)
    /\ UNCHANGED <<src, op, before>>

\* copy_file returns.
CopyEnd ==
    /\ op = "copy"
    /\ todo = << >>
    /\ op' = "idle"
    /\ UNCHANGED <<src, dest, todo, copied, skipped, before>>

Next ==
    \/ UseSource \/ UseTarget
    \/ \E path \in Path : CopyRecord(path)
    \/ CopyBegin \/ CopyEntry \/ CopyEnd
    \/ ConvertEntry

Spec == Init /\ [][Next]_vars

-----------------------------------------------------------------------------
(* The variables have their types.                                         *)
CopyTypeOK ==
    /\ src \in Image
    /\ dest \in Image
    /\ before \in Image
    /\ op \in {"idle", "copy", "convert"}
    /\ copied \in Nat
    /\ skipped \in Nat

(* No copy changes what the destination reads under a name it already has, *)
(* nor the source; a name gets a reading at most once.                     *)
CopyKeepsTarget ==
    [][~ dest'.spilled =>
          \A path \in Path :
              ReadRecord(dest, path) # NoRecord =>
                  ReadRecord(dest', path) = ReadRecord(dest, path)]_dest

\* What copy_file makes of a name: the destination's own record, or the
\* source's if the name is live there and the destination had its table hash
\* free.  (Two names of one table hash are never both found in the source.)
Expected(path) ==
    LET rec == ReadRecord(src, path)
    IN  IF HashSlot(before, path) # 0 THEN ReadRecord(before, path)
        ELSE IF /\ \E i \in DOMAIN Catalog(src) : Catalog(src)[i].path = path
                /\ CopyCopies(rec)
             THEN CopyForm(rec)
        ELSE NoRecord

(* After copy_file every name reads in the destination what it read in the *)
(* source, in the form in which its type is copied, unless the destination *)
(* knew a name of its table hash before: the order of the entries, aliases *)
(* and names stored more than once make no difference.                     *)
FileIsCopied ==
    op = "copy" /\ todo = << >> /\ ~ src.spilled /\ ~ dest.spilled =>
        \A path \in Path : ReadRecord(dest, path) = Expected(path)

(* The number copy_file returns, and dss-convert prints, is the number of  *)
(* records the destination has gained.                                     *)
CopiedAreRecords ==
    op # "idle" =>
        /\ copied = dest.hdr["numberRecords"] - before.hdr["numberRecords"]
        /\ copied = dest.hdr["totalBins"] - before.hdr["totalBins"]

-----------------------------------------------------------------------------
(* What the repository says and the program does not keep.                 *)

(* copy_record: "Returns Ok(true) if copied".  A name for which it returns *)
(* true reads what it read in the source.                                  *)
CopiedIsRead ==
    [][\A path \in Path :
          CopyRecord(path) /\ CopyCopies(ReadRecord(src, path)) =>
              ReadRecord(dest', path) = CopyForm(ReadRecord(src, path))]_vars
=============================================================================
