------------------------------ MODULE DssFiles ------------------------------
(***************************************************************************)
(* The files behind the handles: the names path, path.tmp and path.null,   *)
(* the files they lead to, and the calls that create, replace and remove   *)
(* files, one access to the file system at a time.  A handle holds a file, *)
(* not a name: squeeze renames path.tmp over path, and who had the old     *)
(* file open keeps it.                                                     *)
(*                                                                         *)
(* Stores and deletes are single steps here (DssHandles has their writes). *)
(* What a power loss does to files that were never synced is left out.     *)
(***************************************************************************)
EXTENDS DssImage

CONSTANTS
    Handle,        \* handles of one or several processes
    Text,          \* the texts that callers store, none of them empty
    Faulty,        \* what may go wrong: see Faults
    Careful,       \* callers close a handle when a call has failed
    MaxBins,       \* bound: no record is added beyond this many bins
    MaxDeletes,    \* bound: number of deletes in one file
    MaxFaults      \* bound: number of crashes and errors

\* A process dies during a call; the file system returns an error to create
\* or squeeze; opening or reading an existing file fails.
Faults == {"crash", "error", "open"}

ASSUME FilesAssumption ==
    /\ IsFiniteSet(Handle)
    /\ Text \subseteq Value
    /\ Faulty \subseteq Faults
    /\ Careful \in BOOLEAN
    /\ MaxBins \in Nat /\ MaxDeletes \in Nat /\ MaxFaults \in Nat

Name == {"path", "tmp", "null"}

\* Files that a name or a handle leads to: as many as there can be at once.
Inode == 1..(Cardinality(Name) + 2 * Cardinality(Handle))

VARIABLES
    dir,           \* the file each name leads to, 0 for none
    disk,          \* the files
    ino,           \* the file each handle has open, 0 while it is closed
    mem,           \* the header each handle has in memory
    tmpmem,        \* the header of the handle through which it squeezes
    call,          \* the call each handle is in
    faults,        \* number of crashes and errors so far
    kept           \* ghost: the record a name was left with by a store through
                   \* a handle on the file that path led to

vars == <<dir, disk, ino, mem, tmpmem, call, faults, kept>>

-----------------------------------------------------------------------------
(* Files.  create_dss_file writes a header without addresses first and the *)
(* header with all of them last: a file is blank when it has no header     *)
(* that open accepts, half created with the first, whole with the second.  *)

Blank    == [form |-> "blank", img |-> NewFile]
Half     == [form |-> "half",  img |-> NewFile]
Whole(f) == [form |-> "whole", img |-> f]

\* Zeros, as a handle finds them that still has the header of another file.
Hollow(hdr) ==
    [hdr |-> hdr, hash |-> [h \in 0..MaxHash-1 |-> 0], cells |-> << >>,
     spilled |-> FALSE]

\* The header in memory; half: without addresses.
Memory(file) == [half |-> file.form = "half", hdr |-> file.img.hdr]
NoMemory == Memory(Blank)

\* A file behind a header that is not its own.
Behind(file, hdr) ==
    IF file.form = "whole"
    THEN [hdr |-> hdr, hash |-> file.img.hash, cells |-> file.img.cells,
          spilled |-> file.img.spilled]
    ELSE Hollow(hdr)

\* What a handle sees: its own header, everything else from its file.
View(h) ==
    Behind(disk[ino[h]], mem[h].hdr)

\* A call: its kind, the next access it makes, the file it has created, and
\* what squeeze has yet to copy.
Call(op, at, fd, todo) == [op |-> op, at |-> at, fd |-> fd, todo |-> todo]
NoCall == Call("none", "none", 0, << >>)

Init ==
    /\ dir = [n \in Name |-> 0]
    /\ disk = [i \in Inode |-> Blank]
    /\ ino = [h \in Handle |-> 0]
    /\ mem = [h \in Handle |-> NoMemory]
    /\ tmpmem = [h \in Handle |-> NoMemory]
    /\ call = [h \in Handle |-> NoCall]
    /\ faults = 0
    /\ kept = [path \in Path |-> NoRecord]

InUse ==
    {dir[n] : n \in Name} \cup {ino[h] : h \in Handle}
        \cup {call[h].fd : h \in Handle}

\* The files after a step; the file system frees those nobody leads to.
Leaving(files) ==
    disk' = [i \in Inode |-> IF i \in InUse' THEN files[i] ELSE Blank]

\* open with create and truncate: an existing file is emptied.
NewInode == CHOOSE i \in Inode \ InUse : \A j \in Inode \ InUse : i <= j
Created(name) == IF dir[name] = 0 THEN NewInode ELSE dir[name]

-----------------------------------------------------------------------------
(* Calls.                                                                  *)

Busy(h) == call[h].op # "none"
Idle(h) == ino[h] # 0 /\ ~ Busy(h)
In(h, op, at) == call[h].op = op /\ call[h].at = at
GoTo(h, at) == call' = [call EXCEPT ![h] = Call(@.op, at, @.fd, @.todo)]

Holds(h, i, memory) ==
    /\ ino' = [ino EXCEPT ![h] = i]
    /\ mem' = [mem EXCEPT ![h] = memory]
Closed(h) == Holds(h, 0, NoMemory)

\* A file that open accepts: it looks at size and identifier of the header.
\* Reading the header only, as create and squeeze do, fails for others too.
Opens(name) == dir[name] # 0 /\ disk[dir[name]].form # "blank"

\* The call returns an error.
Returns(h) ==
    /\ call' = [call EXCEPT ![h] = NoCall]
    /\ IF call[h].op = "squeeze" /\ Careful THEN Closed(h)
                                            ELSE UNCHANGED <<ino, mem>>
    /\ tmpmem' = [tmpmem EXCEPT ![h] = NoMemory]
    /\ UNCHANGED <<dir, kept>>
    /\ Leaving(disk)

\* The file that a call creates.
Target(h) == IF call[h].op = "open" THEN "path" ELSE "tmp"

\* create: create_dss_file opens the file and empties it ...
CreateTruncate(h) ==
    /\ call[h].at = "truncate"
    /\ UNCHANGED <<ino, mem, faults, kept, tmpmem>>
    /\ LET i == Created(Target(h))
       IN  /\ dir' = [dir EXCEPT ![Target(h)] = i]
           /\ call' = [call EXCEPT ![h] = Call(@.op, "first", i, @.todo)]
           /\ Leaving([disk EXCEPT ![i] = Blank])

\* ... writes the first header, then everything else and the last header.
CreateFirst(h) ==
    /\ call[h].at = "first"
    /\ GoTo(h, "last")
    /\ disk' = [disk EXCEPT ![call[h].fd] = Half]
    /\ UNCHANGED <<dir, ino, mem, faults, kept, tmpmem>>

CreateLast(h) ==
    /\ call[h].at = "last"
    /\ GoTo(h, "attach")
    /\ disk' = [disk EXCEPT ![call[h].fd] = Whole(NewFile)]
    /\ UNCHANGED <<dir, ino, mem, faults, kept, tmpmem>>

\* The file is opened again by its name.
CreateAttach(h) ==
    LET i == dir[Target(h)]
    IN  /\ call[h].at = "attach"
        /\ Opens(Target(h))
        /\ \/ /\ call[h].op = "open"
              /\ Holds(h, i, Memory(disk[i]))
              /\ call' = [call EXCEPT ![h] = NoCall]
              /\ UNCHANGED tmpmem
           \/ /\ call[h].op = "squeeze"
              /\ call' = [call EXCEPT ![h] = Call(@.op, "copy", i, @.todo)]
              /\ tmpmem' = [tmpmem EXCEPT ![h] = Memory(disk[i])]
              /\ UNCHANGED <<ino, mem>>
        /\ UNCHANGED <<dir, faults, kept>>
        /\ Leaving(disk)

\* hec_dss_open: the file is opened; if that fails for whatever reason, it is
\* created.
Open(h) ==
    /\ ino[h] = 0 /\ ~ Busy(h)
    /\ \/ /\ Opens("path")
          /\ Holds(h, dir["path"], Memory(disk[dir["path"]]))
          /\ UNCHANGED <<call, faults>>
       \/ /\ ~ Opens("path") \/ ("open" \in Faulty /\ faults < MaxFaults)
          /\ faults' = IF Opens("path") THEN faults + 1 ELSE faults
          /\ call' = [call EXCEPT ![h] = Call("open", "truncate", 0, << >>)]
          /\ UNCHANGED <<ino, mem>>
    /\ UNCHANGED <<dir, disk, kept, tmpmem>>

\* hec_dss_close, or the handle is dropped.
Close(h) ==
    /\ Idle(h)
    /\ Closed(h)
    /\ UNCHANGED <<dir, call, faults, kept, tmpmem>>
    /\ Leaving(disk)

-----------------------------------------------------------------------------
(* Stores and deletes.                                                     *)

\* What a store through a header makes of a file.  A header without addresses
\* puts the overflow pointer over the identifier and looks for the hash table
\* at the beginning of the file: either it finds the end of the file there and
\* fails, or it goes on, puts the identifier back and has stored nothing that
\* can be found.
StoreOutcomes(file, memory, path, rec) ==
    IF memory.half
    THEN {[ok |-> TRUE,  file |-> Half,  mem |-> memory],
          [ok |-> FALSE, file |-> Blank, mem |-> memory]}
    ELSE LET img == StoreRecord(Behind(file, memory.hdr), path, rec)
         IN  {[ok |-> TRUE, file |-> Whole(img),
               mem |-> [half |-> FALSE, hdr |-> img.hdr]]}

\* The last entry made in a file is the one a name is found through.
FoundThroughLast(file, path) ==
    /\ file.form = "whole"
    /\ FindRecord(file.img, path) = file.img.hdr["nextBin"] - BinSize

Store(h, path, text) ==
    /\ Idle(h)
    /\ mem[h].hdr["totalBins"] < MaxBins
    /\ \E out \in StoreOutcomes(disk[ino[h]], mem[h], path, TextRecord(text)) :
          /\ IF out.ok \/ ~ Careful THEN Holds(h, ino[h], out.mem) ELSE Closed(h)
          /\ kept' = [kept EXCEPT ![path] =
                         IF /\ out.ok /\ ino[h] = dir["path"]
                            /\ FoundThroughLast(out.file, path)
                         THEN TextRecord(text) ELSE @]
          /\ UNCHANGED <<dir, call, faults, tmpmem>>
          /\ Leaving([disk EXCEPT ![ino[h]] = out.file])

\* A name that is deleted is no longer kept.
Delete(h, path) ==
    LET slot == FindRecord(View(h), path)
        img  == Count(SetStatus(View(h), slot, "DELETED"), "numberDeletes")
    IN  /\ Idle(h)
        /\ ~ mem[h].half
        /\ slot # 0
        /\ mem[h].hdr["numberDeletes"] < MaxDeletes
        /\ disk' = [disk EXCEPT ![ino[h]] = Whole(img)]
        /\ mem' = [mem EXCEPT ![h] = [half |-> FALSE, hdr |-> img.hdr]]
        /\ kept' = [kept EXCEPT ![path] =
                       IF ino[h] = dir["path"] THEN NoRecord ELSE @]
        /\ UNCHANGED <<dir, ino, call, faults, tmpmem>>

-----------------------------------------------------------------------------
(* squeeze; hec_dss_squeeze is Open of an existing file, squeeze, Close.   *)

\* An empty catalog ends it here.
SqueezeBegin(h) ==
    /\ Idle(h)
    /\ ~ mem[h].half
    /\ Catalog(View(h)) # << >>
    /\ call' = [call EXCEPT ![h] =
                    Call("squeeze", "truncate", 0, Catalog(View(h)))]
    /\ UNCHANGED <<dir, disk, ino, mem, faults, kept, tmpmem>>

\* A turn of the loop takes the first entry from the list.
NextEntry(h) ==
    /\ In(h, "squeeze", "copy")
    /\ call[h].todo # << >>
    /\ call' = [call EXCEPT ![h] = Call(@.op, @.at, @.fd, Tail(@.todo))]

\* One record is read through the handle and stored through the new one.
SqueezeEntry(h) ==
    LET entry == Head(call[h].todo)
        rec   == ReadRecord(View(h), entry.path)
        fd    == call[h].fd
    IN  /\ NextEntry(h)
        /\ disk[ino[h]].form = "whole"
        /\ ~ SqueezeFails(entry.type, rec)
        /\ IF SqueezeCopies(entry.type, rec)
           THEN \E out \in StoreOutcomes(disk[fd], tmpmem[h], entry.path,
                                         SqueezeForm(entry.type, rec)) :
                   /\ out.ok
                   /\ disk' = [disk EXCEPT ![fd] = out.file]
                   /\ tmpmem' = [tmpmem EXCEPT ![h] = out.mem]
           ELSE UNCHANGED <<disk, tmpmem>>
        /\ UNCHANGED <<dir, ino, mem, faults, kept>>

\* Faulty: the file is removed before the new one is renamed.
SqueezeNullRemoving(h) ==
    /\ In(h, "squeeze", "copy")
    /\ call[h].todo = << >>
    /\ dir' = [dir EXCEPT !["path"] = 0]
    /\ GoTo(h, "rename")
    /\ UNCHANGED <<ino, mem, faults, kept, tmpmem>>
    /\ Leaving(disk)

\* Faulty: entries may be left to copy.
SqueezeNullEarly(h) ==
    /\ In(h, "squeeze", "copy")
    /\ LET i == Created("null")
       IN  /\ dir' = [dir EXCEPT !["null"] = i]
           /\ ino' = [ino EXCEPT ![h] = i]
           /\ call' = [call EXCEPT ![h] = Call(@.op, "rename", 0, @.todo)]
           /\ Leaving([disk EXCEPT ![i] = Blank])
    /\ tmpmem' = [tmpmem EXCEPT ![h] = NoMemory]
    /\ UNCHANGED <<mem, faults, kept>>

\* The new handle is dropped; the old one takes path.null for its file.
SqueezeNull(h) ==
    /\ In(h, "squeeze", "copy")
    /\ call[h].todo = << >>
    /\ LET i == Created("null")
       IN  /\ dir' = [dir EXCEPT !["null"] = i]
           /\ ino' = [ino EXCEPT ![h] = i]
           /\ call' = [call EXCEPT ![h] = Call(@.op, "rename", 0, @.todo)]
           /\ Leaving([disk EXCEPT ![i] = Blank])
    /\ tmpmem' = [tmpmem EXCEPT ![h] = NoMemory]
    /\ UNCHANGED <<mem, faults, kept>>

\* Faulty: path.tmp keeps its name.
SqueezeLink(h) ==
    /\ In(h, "squeeze", "rename")
    /\ dir["tmp"] # 0
    /\ dir' = [dir EXCEPT !["path"] = dir["tmp"]]
    /\ GoTo(h, "unlink")
    /\ UNCHANGED <<ino, mem, faults, kept, tmpmem>>
    /\ Leaving(disk)

SqueezeRename(h) ==
    /\ In(h, "squeeze", "rename")
    /\ dir["tmp"] # 0
    /\ dir' = [dir EXCEPT !["path"] = dir["tmp"], !["tmp"] = 0]
    /\ GoTo(h, "unlink")
    /\ UNCHANGED <<ino, mem, faults, kept, tmpmem>>
    /\ Leaving(disk)

\* Faulty: path.null stays.
SqueezeUnlinkKeeping(h) ==
    /\ In(h, "squeeze", "unlink")
    /\ GoTo(h, "reopen")
    /\ UNCHANGED <<dir, disk, ino, mem, faults, kept, tmpmem>>

\* An error is ignored here.
SqueezeUnlink(h) ==
    /\ In(h, "squeeze", "unlink")
    /\ \/ dir' = [dir EXCEPT !["null"] = 0] /\ UNCHANGED faults
       \/ /\ "error" \in Faulty /\ faults < MaxFaults
          /\ faults' = faults + 1
          /\ UNCHANGED dir
    /\ GoTo(h, "reopen")
    /\ UNCHANGED <<ino, mem, kept, tmpmem>>
    /\ Leaving(disk)

\* Faulty: the header of the old file is kept.
SqueezeReopenStale(h) ==
    /\ In(h, "squeeze", "reopen")
    /\ Opens("path")
    /\ Holds(h, dir["path"], mem[h])
    /\ call' = [call EXCEPT ![h] = NoCall]
    /\ UNCHANGED <<dir, faults, kept, tmpmem>>
    /\ Leaving(disk)

SqueezeReopen(h) ==
    /\ In(h, "squeeze", "reopen")
    /\ Opens("path")
    /\ Holds(h, dir["path"], Memory(disk[dir["path"]]))
    /\ call' = [call EXCEPT ![h] = NoCall]
    /\ UNCHANGED <<dir, faults, kept, tmpmem>>
    /\ Leaving(disk)

-----------------------------------------------------------------------------
(* Errors and crashes.                                                     *)

\* Another handle has left nothing for the next access: no file under the
\* name that open or rename needs, or a file emptied under a squeeze.
Misses(h) ==
    CASE call[h].at = "attach" -> ~ Opens(Target(h))
      [] call[h].at = "copy"   -> /\ call[h].todo # << >>
                                  /\ \/ disk[ino[h]].form # "whole"
                                     \/ tmpmem[h].half
      [] call[h].at = "rename" -> dir["tmp"] = 0
      [] call[h].at = "reopen" -> ~ Opens("path")
      [] OTHER -> FALSE

\* The next access to the file system returns an error.
Error(h) ==
    /\ Busy(h) /\ call[h].at # "unlink"
    /\ Misses(h) \/ ("error" \in Faulty /\ faults < MaxFaults)
    /\ faults' = IF Misses(h) THEN faults ELSE faults + 1
    /\ Returns(h)

\* The process dies.
Crash(h) ==
    /\ "crash" \in Faulty /\ faults < MaxFaults
    /\ Busy(h)
    /\ faults' = faults + 1
    /\ call' = [call EXCEPT ![h] = NoCall]
    /\ Closed(h)
    /\ tmpmem' = [tmpmem EXCEPT ![h] = NoMemory]
    /\ UNCHANGED <<dir, kept>>
    /\ Leaving(disk)

-----------------------------------------------------------------------------

\* The next step of a call.
Step(h) ==
    \/ CreateTruncate(h) \/ CreateFirst(h) \/ CreateLast(h)
    \/ CreateAttach(h) \/ SqueezeNull(h) \/ SqueezeRename(h)
    \/ SqueezeUnlink(h) \/ SqueezeReopen(h)

Next ==
    \E h \in Handle :
        \/ Open(h) \/ Close(h) \/ SqueezeBegin(h)
        \/ \E path \in Path, text \in Text : Store(h, path, text)
        \/ \E path \in Path : Delete(h, path)
        \/ Step(h) \/ SqueezeEntry(h) \/ Error(h) \/ Crash(h)

Spec == Init /\ [][Next]_vars

\* A call that has begun goes on: it waits for nothing.
FairSpec ==
    /\ Spec
    /\ \A h \in Handle :
           /\ WF_call(Step(h)) /\ WF_call(NextEntry(h))
           /\ WF_call(Misses(h) /\ Error(h))

-----------------------------------------------------------------------------
(* The variables have their types, and no file has two names.              *)
FileState == [form : {"blank", "half", "whole"}, img : Image]
MemoryState == [half : BOOLEAN, hdr : Header]
FilesTypeOK ==
    /\ dir \in [Name -> {0} \cup Inode]
    /\ disk \in [Inode -> FileState]
    /\ ino \in [Handle -> {0} \cup Inode]
    /\ mem \in [Handle -> MemoryState]
    /\ tmpmem \in [Handle -> MemoryState]
    /\ faults \in 0..MaxFaults
    /\ kept \in [Path -> Record \cup {NoRecord}]
    /\ \A m, n \in Name : dir[m] = dir[n] /\ dir[m] # 0 => m = n

(* Who opens path at any moment finds what was stored there: a squeeze, a  *)
(* create, a crash or an error in the middle of them never leave path      *)
(* without a file that has every record kept, not even between two steps.  *)
KeptOnPath ==
    \A path \in Path :
        kept[path] # NoRecord =>
            /\ dir["path"] # 0
            /\ disk[dir["path"]].form = "whole"
            /\ ReadRecord(disk[dir["path"]].img, path) = kept[path]

(* One handle whose caller drops it after an error is on the file that     *)
(* path leads to, with that file's header, whenever it can be used: no     *)
(* store goes to path.null or by the header of the squeezed file.          *)
HandleIsOnPath ==
    \A h \in Handle :
        Idle(h) => ino[h] = dir["path"] /\ mem[h] = Memory(disk[ino[h]])

Clean(img) ==
    \A i \in DOMAIN img.cells : HasTag(img, i, "entry") => IsLive(img.cells[i])

(* A squeeze that begins when nothing goes wrong any more ends with a file *)
(* without deleted entries under path and with path.tmp and path.null      *)
(* gone, whatever earlier calls left of them.                              *)
SqueezeReclaims ==
    \A h \in Handle :
        In(h, "squeeze", "truncate") /\ faults = MaxFaults ~>
            /\ Idle(h)
            /\ dir["tmp"] = 0 /\ dir["null"] = 0
            /\ disk[ino[h]].form = "whole" /\ Clean(disk[ino[h]].img)

Copying(h) == call[h].op = "squeeze" /\ call[h].at \in {"copy", "rename"}
PathImage ==
    IF Opens("path") THEN disk[dir["path"]].img ELSE NewFile
CopyImage ==
    IF \E h \in Handle : Copying(h) THEN disk[dir["tmp"]].img ELSE NewFile
CopyTodo ==
    IF \E h \in Handle : Copying(h)
    THEN call[CHOOSE h \in Handle : Copying(h)].todo ELSE << >>

Atomic == INSTANCE NativeDss
              WITH file <- PathImage, tmp <- CopyImage, todo <- CopyTodo,
                   pc <- IF \E h \in Handle : Copying(h)
                         THEN "squeeze" ELSE "idle",
                   Kind <- {"text"}

(* Without faults and with one handle, what path leads to is the file of   *)
(* NativeDss: creation is invisible, the steps of squeeze are those of its *)
(* loop, and renaming is the moment at which the file is replaced.         *)
FilesImplementNativeDss ==
    /\ Atomic!Init
    /\ [][faults' = 0 => Atomic!Next]_<<PathImage, CopyImage, CopyTodo>>

-----------------------------------------------------------------------------
(* What the repository says and the program does not keep.                 *)

(* dss-ffi/README.md: "Multiple threads can safely call any `hec_dss_*`    *)
(* function concurrently."  What a handle has stored and can read back is  *)
(* found by who opens the file next.                                       *)
StoredIsOnPath ==
    [][\A h \in Handle, path \in Path, text \in Text :
          /\ Store(h, path, text)
          /\ ino'[h] # 0 /\ ReadRecord(View(h)', path) # NoRecord
          => /\ Opens("path")'
             /\ ReadRecord(disk'[dir'["path"]].img, path) # NoRecord]_vars

(* is_valid_dss: "Verify this is a valid DSS7 file by checking the         *)
(* identifier."  A file that open has accepted can be written and read.    *)
OpenedIsWhole == \A h \in Handle : Idle(h) => ~ mem[h].half
=============================================================================
