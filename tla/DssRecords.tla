----------------------------- MODULE DssRecords -----------------------------
(***************************************************************************)
(* The records of a DSS7 file: their type codes, the data areas each write *)
(* function lays out, what each read function makes of a stored record,    *)
(* and the form in which squeeze carries a record into the new file.       *)
(*                                                                         *)
(* A record is its type code and its content, the payload of each data     *)
(* area.  A payload is abstract: a member of Value for the data of one     *)
(* write, or a token for what the write derives (the length word of a      *)
(* text, the sub-type of an array) or carries along (units, times, labels),*)
(* or Empty.                                                               *)
(***************************************************************************)
EXTENDS Integers, Sequences

CONSTANT Value      \* the data a caller may store: texts, arrays of numbers

\* The areas a record's info block can address, in the order of the file.
Area == {"ih", "h2", "v1", "v2", "v3", "uh"}

\* What a value area decodes to when it was not written as what it is read as.
Garbled == "garbled"
\* The payload of an area that is absent: its size in the info block is 0.
Empty == "empty"

Token == {"length", "subtype", "units", "times", "ordinates", "labels",
          "gridinfo", "supplemental", Garbled, Empty}
Payload == Value \cup Token
Content == [Area -> Payload]

ASSUME ValueAssumption == Value \cap Token = {}

\* The elements of a sequence at the positions in a set, in their order: a
\* loop that keeps some of what it comes by.
Selected(seq, at) ==
    LET kept[n \in Nat] ==
            IF n = 0 THEN << >>
            ELSE IF n \in at THEN Append(kept[n - 1], seq[n])
            ELSE kept[n - 1]
    IN  kept[Len(seq)]

-----------------------------------------------------------------------------
(* Type codes.                                                             *)

TEXT     == 300
RTD      == 105        \* regular time series of doubles
ITD      == 115        \* irregular time series of doubles
PDD      == 205        \* paired data of doubles
ARRAY    == 90
LOCATION == 20
GRID     == 420        \* the grid type a caller passes, one of 400..450

IsText(t)       == t \in {300, 310}
IsTimeSeries(t) == t \in 100..119
IsPairedData(t) == t \in 200..209
IsArray(t)      == t \in 90..93
IsLocation(t)   == t = 20
IsGrid(t)       == t \in 400..450

RecordType == {TEXT, RTD, ITD, PDD, ARRAY, LOCATION, GRID}
Record == [type : RecordType, content : Content]

NoArea == [a \in Area |-> Empty]

\* What record_type and the read functions report for a name they do not find.
NoRecord == [type |-> 0, content |-> NoArea]

-----------------------------------------------------------------------------
(* The record each write function stores.                                  *)

\* An empty text has an internal header but no values.
TextRecord(text) ==
    [type |-> TEXT,
     content |-> [NoArea EXCEPT !["ih"] = "length", !["v1"] = text]]

TsRecord(values, units) ==
    [type |-> RTD,
     content |-> [NoArea EXCEPT !["ih"] = units, !["v1"] = values]]

TsIrregularRecord(values) ==
    [type |-> ITD,
     content |-> [NoArea EXCEPT !["ih"] = "units", !["v1"] = values,
                                !["v2"] = "times"]]

\* labels and supplemental may be Empty.
PdRecord(ordinates, values, units, labels) ==
    [type |-> PDD,
     content |-> [NoArea EXCEPT !["ih"] = units, !["h2"] = labels,
                                !["v1"] = ordinates, !["v2"] = values]]

\* present: which of the int, float and double arrays are not empty.
ArrayRecord(present, values) ==
    [type |-> ARRAY,
     content |-> [a \in Area |-> IF a = "ih" THEN "subtype"
                                 ELSE IF a \in present THEN values ELSE Empty]]

LocationRecord(loc, supplemental) ==
    [type |-> LOCATION,
     content |-> [NoArea EXCEPT !["v1"] = loc, !["uh"] = supplemental]]

GridRecord(data) ==
    [type |-> GRID,
     content |-> [NoArea EXCEPT !["ih"] = "gridinfo", !["v1"] = data]]

-----------------------------------------------------------------------------
(* What the read functions return for a record that was found.             *)

\* read_text looks at no type code: it decodes the bytes of values1, whatever
\* they are.  Bytes that were not written as text decode to some other text.
ReadText(r) ==
    IF IsText(r.type) \/ r.content["v1"] = Empty THEN r.content["v1"]
                                              ELSE Garbled

\* read_ts refuses other types and a record without an internal header.
ReadTsFails(r) == ~ IsTimeSeries(r.type) \/ r.content["ih"] = Empty

ReadPdFails(r) == ~ IsPairedData(r.type)

\* read_array, read_location and read_grid look at no type code either; what
\* they return of a record of their type is what its write function was given.
ReadAreas(r, areas) ==
    [a \in Area |-> IF a \in areas THEN r.content[a] ELSE Empty]
ReadArray(r)    == ReadAreas(r, {"v1", "v2", "v3"})
ReadLocation(r) == ReadAreas(r, {"v1", "uh"})
ReadGrid(r)     == ReadAreas(r, {"ih", "v1"})

-----------------------------------------------------------------------------
(* squeeze reads the name of a catalog entry and writes what it read; the  *)
(* entry's type selects the reader, r is the record the reader finds.      *)

\* The reader returns an error, which ends squeeze.
SqueezeFails(type, r) ==
    /\ r # NoRecord
    /\ \/ IsTimeSeries(type) /\ ReadTsFails(r)
       \/ IsPairedData(type) /\ ReadPdFails(r)

\* Faulty: the range of types ends with the regular series.
SqueezeCopiesRegular(type, r) ==
    /\ r # NoRecord
    /\ \/ IsText(type) /\ ReadText(r) # Empty
       \/ type \in 100..109 /\ r.content["v1"] # Empty
       \/ IsPairedData(type) /\ r.content["v1"] # Empty /\ r.content["v2"] # Empty

\* A record is written for the entry.
SqueezeCopies(type, r) ==
    /\ r # NoRecord
    /\ \/ IsText(type) /\ ReadText(r) # Empty
       \/ IsTimeSeries(type) /\ r.content["v1"] # Empty
       \/ IsPairedData(type) /\ r.content["v1"] # Empty /\ r.content["v2"] # Empty

\* Faulty: ordinates and values are passed in the wrong order.
SqueezeFormSwapped(type, r) ==
    IF IsText(type) THEN TextRecord(ReadText(r))
    ELSE IF IsTimeSeries(type) THEN TsRecord(r.content["v1"], r.content["ih"])
    ELSE PdRecord(r.content["v2"], r.content["v1"], r.content["ih"], Empty)

\* The record written: read_ts has no times and squeeze passes no labels, so
\* an irregular series becomes a regular one and labels are lost.
SqueezeForm(type, r) ==
    IF IsText(type) THEN TextRecord(ReadText(r))
    ELSE IF IsTimeSeries(type) THEN TsRecord(r.content["v1"], r.content["ih"])
    ELSE PdRecord(r.content["v1"], r.content["v2"], r.content["ih"], Empty)

-----------------------------------------------------------------------------
(* copy_record selects the reader by the type of the record it finds, so   *)
(* that no reader refuses it.                                              *)

\* A record is written for the name.
CopyCopies(r) ==
    \/ IsText(r.type)
    \/ (IsTimeSeries(r.type) \/ IsPairedData(r.type)) /\ r.content["v1"] # Empty
    \/ IsArray(r.type) \/ IsLocation(r.type)
    \/ IsGrid(r.type) /\ ReadGrid(r)["v1"] # Empty

\* Faulty: an array is written with its sub-type for a type.
CopyFormSubtype(r) ==
    [type |-> IF IsArray(r.type) THEN 93 ELSE r.type, content |-> r.content]

\* The record written.
CopyForm(r) ==
    IF IsText(r.type) THEN TextRecord(ReadText(r))
    ELSE IF IsTimeSeries(r.type) THEN TsRecord(r.content["v1"], r.content["ih"])
    ELSE IF IsPairedData(r.type)
         THEN PdRecord(r.content["v1"], r.content["v2"], r.content["ih"], Empty)
    ELSE [type |-> r.type,
          content |-> IF IsArray(r.type)
                      THEN [ReadArray(r) EXCEPT !["ih"] = "subtype"]
                      ELSE IF IsLocation(r.type) THEN ReadLocation(r)
                      ELSE ReadGrid(r)]
=============================================================================
