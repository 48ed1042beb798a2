------------------------------- MODULE DssLog -------------------------------
(***************************************************************************)
(* What a DSS file promises once its layout is forgotten: a log of named   *)
(* entries in the order they were made.  Storing appends; delete, undelete *)
(* and alias_remove change the status of one entry; squeeze replaces the   *)
(* log by what it can carry over.  A name leads to the oldest entry of its *)
(* table hash, if that entry bears the name, and to nothing otherwise.     *)
(***************************************************************************)
EXTENDS DssRecords, Sequences

CONSTANTS
    Path,
    TableHash,
    PathHash,
    Writable      \* the records the write functions can store

VARIABLE log      \* a sequence of [path, type, content, status]

Init == log = << >>

Made(path, rec, status) ==
    [path |-> path, type |-> rec.type, content |-> rec.content,
     status |-> status]

\* The oldest entry of the table hash of a name; 0 if there is none.
Oldest(path) ==
    LET class == {i \in DOMAIN log : TableHash[log[i].path] = TableHash[path]}
    IN  IF class = {} THEN 0
        ELSE CHOOSE i \in class : \A j \in class : i <= j

Find(path) ==
    LET i == Oldest(path)
    IN  IF i # 0 /\ log[i].path = path THEN i ELSE 0

Read(path) ==
    LET i == Find(path)
    IN  IF i = 0 THEN NoRecord
        ELSE [type |-> log[i].type, content |-> log[i].content]

Live == Selected(log, {i \in DOMAIN log : log[i].status \in {"PRIMARY", "ALIAS"}})

-----------------------------------------------------------------------------

Put == \E path \in Path, rec \in Writable :
           log' = Append(log, Made(path, rec, "PRIMARY"))

AliasAdd == \E primary, alias \in Path :
                /\ Find(primary) # 0
                /\ log' = Append(log, Made(alias, Read(primary), "ALIAS"))

Mark(i, status) == log' = [log EXCEPT ![i].status = status]

Delete == \E path \in Path : Find(path) # 0 /\ Mark(Find(path), "DELETED")

\* undelete and alias_remove know a name by its pathname hash only.
Remark(from, to) ==
    \E path \in Path :
        LET i == Oldest(path)
        IN  /\ i # 0
            /\ PathHash[log[i].path] = PathHash[path]
            /\ log[i].status = from
            /\ Mark(i, to)

Undelete    == Remark("DELETED", "PRIMARY")
AliasRemove == Remark("ALIAS", "ALIAS_DELETED")

\* All or nothing: one entry that cannot be read leaves the log as it was.
Compact ==
    LET copied == Selected(Live, {i \in DOMAIN Live :
                                   SqueezeCopies(Live[i].type,
                                                 Read(Live[i].path))})
    IN  /\ Live # << >>
        /\ \A i \in DOMAIN Live : ~ SqueezeFails(Live[i].type,
                                                 Read(Live[i].path))
        /\ log' = [i \in 1..Len(copied) |->
                     Made(copied[i].path,
                          SqueezeForm(copied[i].type, Read(copied[i].path)),
                          "PRIMARY")]

Next == Put \/ AliasAdd \/ Delete \/ Undelete \/ AliasRemove \/ Compact

Spec == Init /\ [][Next]_log
=============================================================================
