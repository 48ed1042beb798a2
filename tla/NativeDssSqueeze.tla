-------------------------- MODULE NativeDssSqueeze --------------------------
(***************************************************************************)
(* What a caller may rely on across a squeeze.                             *)
(***************************************************************************)
EXTENDS NativeDss

(* squeeze keeps what a caller could read: a name that reads a text, a     *)
(* series or paired data, and whose live entries all are of that type,     *)
(* reads the same values afterwards.                                       *)
Carriable(path) ==
    LET rec     == ReadRecord(file, path)
        entries == Catalog(file)
        its     == {i \in DOMAIN entries : entries[i].path = path}
    IN  /\ its # {}
        /\ \A i \in its : entries[i].type = rec.type
        /\ rec.type \in {TEXT, RTD, ITD, PDD} /\ rec.content["v1"] # Empty
SqueezeKeepsReadable ==
    [][/\ pc = "squeeze" /\ pc' = "idle" /\ todo = << >>
       /\ ~ file.spilled /\ ~ tmp.spilled
       => \A path \in Path : Carriable(path) =>
              ReadRecord(file', path).content["v1"]
                = ReadRecord(file, path).content["v1"]]_vars

(* Squeezing a squeezed file would change nothing and could not fail, if   *)
(* no name was ever used for records of two types: every entry of the new  *)
(* file reads, under its own name and type, the record it leads to, in the *)
(* form squeeze would write it in again.                                   *)
OneTypeAName(f) ==
    LET slots == ReadAllBins(f)
    IN  \A i, j \in DOMAIN slots :
            f.cells[slots[i]].path = f.cells[slots[j]].path
              => f.cells[slots[i]].type = f.cells[slots[j]].type
Settled(f) ==
    LET slots == ReadAllBins(f)
    IN  \A i \in DOMAIN slots :
            LET entry == f.cells[slots[i]]
                rec   == ReadRecord(f, entry.path)
            IN  /\ ~ SqueezeFails(entry.type, rec)
                /\ SqueezeCopies(entry.type, rec)
                /\ SqueezeForm(entry.type, rec) = RecordAt(f, slots[i])
SqueezeIsIdempotent ==
    [][/\ pc = "squeeze" /\ pc' = "idle" /\ todo = << >>
       /\ ~ file.spilled /\ ~ tmp.spilled /\ OneTypeAName(file)
       => Settled(file')]_vars
=============================================================================
