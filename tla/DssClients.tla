----------------------------- MODULE DssClients ------------------------------
(***************************************************************************)
(* The C interface: threads that share one handle.  Every hec_dss_* call   *)
(* holds the mutex of the handle from its first access to the file to its  *)
(* last, so that a call is one step.  A caller needs several: it asks for  *)
(* a size, allocates its buffers, and asks for the data, which the call    *)
(* cuts off at the size of the buffers; between the two other threads go   *)
(* on storing and deleting.                                                *)
(*                                                                         *)
(* There are no calls for aliases and undelete; a file may have aliases    *)
(* from a program that uses the Rust or Python interface.                  *)
(***************************************************************************)
EXTENDS DssImage

CONSTANTS
    Thread,        \* threads of the program, all with the same handle
    Length,        \* the number of items in a value
    Curves,        \* the number of curves in an internal header
    MaxRecords,    \* bound: number of records stored
    MaxDeletes     \* bound: number of deletes

ASSUME ClientAssumption ==
    /\ Length \in [Value -> Nat \ {0}]
    /\ Curves \in [Value -> Nat]
    /\ MaxRecords \in Nat /\ MaxDeletes \in Nat

VARIABLES
    file,          \* the file behind the handle
    ask            \* what each thread has been told and not yet used

vars == <<file, ask>>

\* Nothing, or the record count with the slots that were live when it was
\* told (a ghost), or the sizes of the areas of a record.
Nothing == [of |-> "nothing"]
AskedCount(n, slots) == [of |-> "count", n |-> n, live |-> slots]
AskedSizes(call, path, sizes) ==
    [of |-> "sizes", call |-> call, path |-> path, sizes |-> sizes]

\* A file from elsewhere: a record and an alias of it.
WithAlias(path, rec, alias) ==
    LET one == StoreRecord(NewFile, path, rec)
    IN  Count(EnterBin(one, Entry(alias, "ALIAS", NewFile.hdr["fileSize"], rec.type)),
              "numberAliases")

Init ==
    /\ \/ file = NewFile
       \/ \E path, alias \in Path, v \in Value :
              file = WithAlias(path, TsRecord(v, "units"), alias)
    /\ ask = [t \in Thread |-> Nothing]

-----------------------------------------------------------------------------
(* Calls that store or delete.                                             *)

Store(path, rec) ==
    /\ file.hdr["numberRecords"] < MaxRecords
    /\ file' = StoreRecord(file, path, rec)
    /\ UNCHANGED ask

\* Bytes that are no text are stored as an empty text.
TextStore(path, text) == Store(path, TextRecord(text))

\* The start of the series is not looked at.
TsStoreRegular(path, values) == Store(path, TsRecord(values, "units"))

TsStoreIregular(path, values) == Store(path, TsIrregularRecord(values))

\* header is the internal header: the units and number_curves, which is stored
\* as the caller passes it and not compared with the number of values.  Labels
\* are not passed on.
PdStore(path, ordinates, header, values) ==
    Store(path, PdRecord(ordinates, values, header, Empty))

ArrayStore(path, present, values) ==
    present # {} /\ Store(path, ArrayRecord(present, values))

LocationStore(path, loc, supplemental) ==
    Store(path, LocationRecord(loc, supplemental))

GridStore(path, data) == Store(path, GridRecord(data))

Delete(path) ==
    LET slot == FindRecord(file, path)
    IN  /\ slot # 0
        /\ file.hdr["numberDeletes"] < MaxDeletes
        /\ file' = Count(SetStatus(file, slot, "DELETED"), "numberDeletes")
        /\ UNCHANGED ask

-----------------------------------------------------------------------------
(* Sizes and data.                                                         *)

LengthOf(payload) ==
    IF payload = Empty THEN 0 ELSE IF payload \in Value THEN Length[payload] ELSE 1

\* The areas that tsRetrieve, pdRetrieve and arrayRetrieve return.
AreasOf(call) ==
    CASE call = "ts" -> {"v1"} [] call = "pd" -> {"v1", "v2"}
      [] call = "array" -> {"v1", "v2", "v3"}

\* read_array does not look at the type.
Reads(call, rec) ==
    \/ call = "ts" /\ ~ ReadTsFails(rec)
    \/ call = "pd" /\ ~ ReadPdFails(rec)
    \/ call = "array" /\ rec # NoRecord

\* As many values as the internal header of paired data has room for: its
\* number of ordinates, which write_pd has counted, times its number of curves.
HeaderSize(rec) == LengthOf(rec.content["v1"]) * Curves[rec.content["ih"]]

\* The values of paired data are sized by the internal header, other areas by
\* what is in them.
Sizes(call, rec) ==
    [a \in AreasOf(call) |-> IF call = "pd" /\ a = "v2" THEN HeaderSize(rec)
                             ELSE LengthOf(rec.content[a])]

\* tsGetSizes, pdRetrieveInfo, arrayRetrieveInfo.  Where there is no series
\* tsGetSizes tells 0, which tsRetrieve then refuses; the others fail.
GetSizes(t, call, path) ==
    LET rec == ReadRecord(file, path)
    IN  /\ ask[t] = Nothing
        /\ Reads(call, rec)
        /\ ask' = [ask EXCEPT ![t] = AskedSizes(call, path, Sizes(call, rec))]
        /\ UNCHANGED file

\* The areas of which the caller gets less than there is, or nothing.
CutOff(asked) ==
    LET rec == ReadRecord(file, asked.path)
    IN  {a \in AreasOf(asked.call) :
            \/ ~ Reads(asked.call, rec)
            \/ LengthOf(rec.content[a]) > asked.sizes[a]}

\* tsRetrieve, pdRetrieve, arrayRetrieve: the file is not changed.
Retrieve(t) ==
    /\ ask[t].of = "sizes"
    /\ ask' = [ask EXCEPT ![t] = Nothing]
    /\ UNCHANGED file

\* The slots whose entries a catalog lists, in order.
LiveSlots(f) ==
    LET slots == ReadAllBins(f)
    IN  Selected(slots, {i \in DOMAIN slots : IsLive(f.cells[slots[i]])})
AsSet(seq) == {seq[i] : i \in DOMAIN seq}

RecordCount(t) ==
    /\ ask[t] = Nothing
    /\ ask' = [ask EXCEPT ![t] = AskedCount(file.hdr["numberRecords"],
                                            AsSet(LiveSlots(file)))]
    /\ UNCHANGED file

\* Faulty: room is kept for an end mark.
ListingShort(n) ==
    {LiveSlots(file)[i] : i \in {j \in DOMAIN LiveSlots(file) : j < n}}

\* catalog writes as many entries as there is room for.
Listing(n) ==
    {LiveSlots(file)[i] : i \in {j \in DOMAIN LiveSlots(file) : j <= n}}

FillCatalog(t) ==
    /\ ask[t].of = "count"
    /\ ask' = [ask EXCEPT ![t] = Nothing]
    /\ UNCHANGED file

-----------------------------------------------------------------------------

Next ==
    \/ \E path \in Path, v \in Value :
          \/ \E text \in {v, Empty} : TextStore(path, text)
          \/ TsStoreRegular(path, v)
          \/ TsStoreIregular(path, v)
          \/ \E ordinates, header \in Value : PdStore(path, ordinates, header, v)
          \/ \E present \in SUBSET {"v1", "v2", "v3"} : ArrayStore(path, present, v)
          \/ \E supplemental \in {"supplemental", Empty} :
                 LocationStore(path, v, supplemental)
          \/ GridStore(path, v)
    \/ \E path \in Path : Delete(path)
    \/ \E t \in Thread :
          \/ \E call \in {"ts", "pd", "array"}, path \in Path : GetSizes(t, call, path)
          \/ Retrieve(t) \/ RecordCount(t) \/ FillCatalog(t)

Spec == Init /\ [][Next]_vars

-----------------------------------------------------------------------------
\* What write_pd's comment asks of its caller: n_ordinates * n_curves values.
CountsCurves(rec) == LengthOf(rec.content["v2"]) = HeaderSize(rec)

(* A caller that has asked for the sizes of a record gets all of it with   *)
(* buffers of these sizes, whatever other threads store and delete between *)
(* the two calls; if it is paired data, as long as who stored it passed    *)
(* the number of curves its values have.                                   *)
RetrievesWhole ==
    ~ file.spilled =>
        \A t \in Thread :
            /\ ask[t].of = "sizes"
            /\ ask[t].call = "pd" => CountsCurves(ReadRecord(file, ask[t].path))
            => CutOff(ask[t]) = {}

\* Live entries, then and now, that a listing of the told length leaves out.
Missed(asked) ==
    {slot \in asked.live \ Listing(asked.n) : IsLive(file.cells[slot])}

(* A caller that has asked for the record count and passes buffers of this *)
(* size to catalog gets every entry that was live when it asked and still  *)
(* is, but for as many as the file has aliases, which the count leaves     *)
(* out.                                                                    *)
CatalogMissesAliasesOnly ==
    ~ file.spilled =>
        \A t \in Thread :
            ask[t].of = "count" =>
                Cardinality(Missed(ask[t])) <= file.hdr["numberAliases"]

-----------------------------------------------------------------------------
(* What the C interface says of itself and does not keep.                  *)

(* lib.rs 490: hec_dss_pdRetrieveInfo gives "sizes and units": buffers of   *)
(* the sizes told hold what is stored, whoever has stored it.              *)
InfoTellsSizes ==
    ~ file.spilled =>
        \A t \in Thread : ask[t].of = "sizes" => CutOff(ask[t]) = {}

(* lib.rs 171: the record count includes aliases: buffers for as many      *)
(* entries miss none that was live when the count was told and still is.   *)
CountIncludesAliases ==
    ~ file.spilled =>
        \A t \in Thread : ask[t].of = "count" => Missed(ask[t]) = {}
=============================================================================
