--------------------------- MODULE DssFilesProofs ---------------------------
(***************************************************************************)
(* Theorems about DssFiles, for every value of its constants: what is in   *)
(* the variables for any number of handles; for one handle, that it is on  *)
(* the file the name leads to, that the name leads to every record kept,   *)
(* between any two accesses to the file system, and that without faults    *)
(* the accesses add up to the steps of NativeDss.                          *)
(***************************************************************************)
EXTENDS DssFiles, DssImageProofs, FiniteSetTheorems

-----------------------------------------------------------------------------
(* There is always a file for a name that has none.                        *)

(* A function takes no more values than it has arguments. *)
LEMMA RangeSize ==
    ASSUME NEW S, IsFiniteSet(S), NEW f
    PROVE  /\ IsFiniteSet({f[x] : x \in S})
           /\ Cardinality({f[x] : x \in S}) <= Cardinality(S)
<1> DEFINE T == {f[x] : x \in S}
           g == [x \in S |-> f[x]]
<1>1. g \in Surjection(S, T)
  BY DEF Surjection
<1>2. QED
  BY <1>1, FS_Surjection

(* Two finite sets together are no larger than the sum of their sizes. *)
LEMMA UnionSize ==
    ASSUME NEW S, IsFiniteSet(S), NEW T, IsFiniteSet(T)
    PROVE  /\ IsFiniteSet(S \cup T)
           /\ Cardinality(S) \in Nat /\ Cardinality(T) \in Nat
           /\ Cardinality(S \cup T) \in Nat
           /\ Cardinality(S \cup T) <= Cardinality(S) + Cardinality(T)
<1>1. /\ Cardinality(S) \in Nat /\ Cardinality(T) \in Nat
      /\ IsFiniteSet(S \cap T) /\ Cardinality(S \cap T) \in Nat
  BY FS_CardinalityType, FS_Intersection
<1>2. /\ IsFiniteSet(S \cup T)
      /\ Cardinality(S \cup T)
           = Cardinality(S) + Cardinality(T) - Cardinality(S \cap T)
  BY FS_Union
<1>3. Cardinality(S \cup T) \in Nat
  BY <1>2, FS_CardinalityType
<1>4. QED
  BY <1>1, <1>2, <1>3

(* One file is free when a name has none: the other two names, what the    *)
(* handles have open and what their calls have created are fewer.          *)
LEMMA InodeIsLeft ==
    ASSUME NEW name \in Name, dir[name] = 0
    PROVE  Inode \ InUse # {}
<1> DEFINE D == {dir[n] : n \in Name \ {name}}
           I == {ino[h] : h \in Handle}
           fds == [h \in Handle |-> call[h].fd]
           F == {fds[h] : h \in Handle}
           c == Cardinality(Handle)
<1>1. IsFiniteSet(Handle) /\ c \in Nat
  BY FilesAssumption, FS_CardinalityType
<1>2. IsFiniteSet(Name) /\ Cardinality(Name) = 3
  <2> DEFINE one == {"path"}
             two == one \cup {"tmp"}
             three == two \cup {"null"}
  <2>1. IsFiniteSet(one) /\ Cardinality(one) = 1
    BY FS_Singleton
  <2>2. "tmp" \notin one /\ "null" \notin two /\ Name = three
    BY DEF Name
  <2> HIDE DEF one
  <2>3. IsFiniteSet(two) /\ Cardinality(two) = 2
    BY <2>1, <2>2, FS_AddElement
  <2> HIDE DEF two
  <2>4. IsFiniteSet(three) /\ Cardinality(three) = 3
    BY <2>2, <2>3, FS_AddElement
  <2>5. QED
    BY <2>2, <2>4
<1>3. IsFiniteSet(Name \ {name}) /\ Cardinality(Name \ {name}) = 2
  BY <1>2, FS_RemoveElement
<1>4. IsFiniteSet(D) /\ Cardinality(D) <= 2
  BY <1>3, RangeSize
<1>5. IsFiniteSet(I) /\ Cardinality(I) <= c
  BY <1>1, RangeSize
<1>6. IsFiniteSet(F) /\ Cardinality(F) <= c
  BY <1>1, RangeSize
<1>7. \A i \in InUse : i = 0 \/ i \in (D \cup I) \cup F
  BY DEF InUse
<1> HIDE DEF D, I, F, c
<1>8. /\ IsFiniteSet((D \cup I) \cup F)
      /\ Cardinality((D \cup I) \cup F) \in Nat
      /\ Cardinality((D \cup I) \cup F) <= 2 + c + c
  <2>1. /\ IsFiniteSet(D \cup I) /\ Cardinality(D \cup I) \in Nat
        /\ Cardinality(I) \in Nat /\ Cardinality(D) \in Nat
        /\ Cardinality(D \cup I) <= Cardinality(D) + Cardinality(I)
    BY <1>4, <1>5, UnionSize
  <2>2. /\ IsFiniteSet((D \cup I) \cup F)
        /\ Cardinality((D \cup I) \cup F) \in Nat /\ Cardinality(F) \in Nat
        /\ Cardinality((D \cup I) \cup F) <= Cardinality(D \cup I) + Cardinality(F)
    BY <1>6, <2>1, UnionSize
  <2>3. QED
    BY <1>1, <1>4, <1>5, <1>6, <2>1, <2>2
<1>9. Inode = 1..(3 + 2 * c)
  BY <1>2 DEF Inode, c
<1>10. Cardinality(Inode) = 3 + 2 * c
  BY <1>1, <1>9, FS_Interval
<1>11. SUFFICES ASSUME Inode \subseteq InUse
                PROVE  FALSE
  OBVIOUS
<1>12. Inode \in SUBSET ((D \cup I) \cup F)
  BY <1>1, <1>7, <1>9, <1>11
<1>13. Cardinality(Inode) <= Cardinality((D \cup I) \cup F)
  BY <1>8, <1>12, FS_Subset
<1>14. QED
  BY <1>1, <1>8, <1>10, <1>13

-----------------------------------------------------------------------------
(* Types.                                                                  *)

\* A handle's call fits to its place and to the file i the handle has open.
CallOK(c, i) ==
    /\ c.op \in {"none", "open", "squeeze"}
    /\ c.op = "none" => c.at = "none"
    /\ c.fd \in {0} \cup Inode
    /\ c.at \in {"first", "last", "copy"} => c.fd # 0
    /\ c.op = "squeeze" => i # 0

\* The inductive invariant.
FilesTypes ==
    /\ FilesTypeOK
    /\ call = [h \in Handle |-> call[h]]
    /\ \A h \in Handle : CallOK(call[h], ino[h])

(* What the states of files and headers are made of. *)
LEMMA StateParts ==
    /\ Blank \in FileState /\ Half \in FileState
    /\ \A f \in Image : Whole(f) \in FileState
    /\ \A file \in FileState : file.img \in Image /\ Memory(file) \in MemoryState
    /\ NoMemory \in MemoryState
    /\ \A memory \in MemoryState : memory.hdr \in Header
<1>1. NewFile \in Image
  BY NewFileType
<1>2. \A file \in FileState : file.img \in Image /\ file.img.hdr \in Header
  BY ImageFields DEF FileState
<1>3. \A file \in FileState : Memory(file) \in MemoryState
  BY <1>2 DEF Memory, MemoryState
<1>4. Blank \in FileState /\ Half \in FileState
      /\ \A f \in Image : Whole(f) \in FileState
  BY <1>1 DEF Blank, Half, Whole, FileState
<1>5. QED
  BY <1>2, <1>3, <1>4 DEF NoMemory, MemoryState

(* Whatever is behind a header is an image with that header. *)
LEMMA BehindType ==
    ASSUME NEW file \in FileState, NEW hdr \in Header
    PROVE  Behind(file, hdr) \in Image
<1>1. file.img \in Image
  BY StateParts
<1>2. /\ file.img.hash \in [0..MaxHash-1 -> Nat]
      /\ file.img.cells \in Seq(Cell) /\ file.img.spilled \in BOOLEAN
  BY <1>1, ImageFields
<1>3. [h \in 0..MaxHash-1 |-> 0] \in [0..MaxHash-1 -> Nat] /\ << >> \in Seq(Cell)
  OBVIOUS
<1>4. CASE file.form = "whole"
  BY <1>2, <1>4, ImageParts DEF Behind
<1>5. CASE file.form # "whole"
  <2>1. Hollow(hdr) \in Image
    BY <1>3, ImageParts DEF Hollow
  <2>2. QED
    BY <1>5, <2>1 DEF Behind
<1>6. QED
  BY <1>4, <1>5

(* A file that is created or emptied is one that no other name leads to. *)
LEMMA CreatedInode ==
    ASSUME FilesTypes, NEW name \in Name
    PROVE  /\ Created(name) \in Inode
           /\ \A n \in Name : n # name => dir[n] # Created(name)
<1>1. CASE dir[name] # 0
  BY <1>1 DEF FilesTypes, FilesTypeOK, Created
<1>2. CASE dir[name] = 0
  <2> DEFINE T == Inode \ InUse
  <2>1. T # {} /\ T \subseteq Nat
    BY <1>2, InodeIsLeft DEF Inode
  <2>2. \E i \in T : \A j \in T : i <= j
    BY <2>1, LeastNatural
  <2>3. NewInode \in T
    BY <2>2 DEF NewInode
  <2>4. \A n \in Name : dir[n] \in InUse
    BY DEF InUse
  <2>5. QED
    BY <1>2, <2>3, <2>4 DEF Created
<1>3. QED
  BY <1>1, <1>2

(* Freeing files that nobody leads to leaves files. *)
LEMMA LeavingFiles ==
    ASSUME NEW files \in [Inode -> FileState], Leaving(files)
    PROVE  /\ disk' \in [Inode -> FileState]
           /\ \A i \in Inode : i \in InUse' => disk'[i] = files[i]
  BY StateParts DEF Leaving

(* What a store makes of a file and of the header it goes through. *)
LEMMA StoreOutcomeType ==
    ASSUME NEW file \in FileState, NEW memory \in MemoryState,
           NEW path \in Path, NEW rec \in Record,
           NEW out \in StoreOutcomes(file, memory, path, rec)
    PROVE  out.file \in FileState /\ out.mem \in MemoryState
<1> DEFINE img == StoreRecord(Behind(file, memory.hdr), path, rec)
<1>1. img \in Image
  BY StateParts, BehindType, StoreRecordType
<1>2. Whole(img) \in FileState /\ [half |-> FALSE, hdr |-> img.hdr] \in MemoryState
  BY <1>1, StateParts, ImageFields DEF MemoryState
<1> HIDE DEF img
<1>3. CASE memory.half
  BY <1>3, StateParts DEF StoreOutcomes
<1>4. CASE ~ memory.half
  <2>1. out = [ok |-> TRUE, file |-> Whole(img),
               mem |-> [half |-> FALSE, hdr |-> img.hdr]]
    BY <1>4 DEF StoreOutcomes, img
  <2>2. QED
    BY <1>2, <2>1
<1>5. QED
  BY <1>3, <1>4

(* A step of one handle keeps the types of what handles have when what it  *)
(* leaves this handle with is right.                                       *)
LEMMA HandleTypes ==
    ASSUME FilesTypes, NEW h \in Handle,
           \/ UNCHANGED call
           \/ \E c : call' = [call EXCEPT ![h] = c],
           \/ UNCHANGED ino
           \/ \E i \in {0} \cup Inode : ino' = [ino EXCEPT ![h] = i],
           \/ UNCHANGED mem
           \/ \E m \in MemoryState : mem' = [mem EXCEPT ![h] = m],
           \/ UNCHANGED tmpmem
           \/ \E m \in MemoryState : tmpmem' = [tmpmem EXCEPT ![h] = m],
           CallOK(call'[h], ino'[h])
    PROVE  /\ call' = [g \in Handle |-> call'[g]]
           /\ \A g \in Handle : CallOK(call'[g], ino'[g])
           /\ ino' \in [Handle -> {0} \cup Inode]
           /\ mem' \in [Handle -> MemoryState]
           /\ tmpmem' \in [Handle -> MemoryState]
<1> USE DEF FilesTypes, FilesTypeOK
<1>1. call' = [g \in Handle |-> call'[g]]
  OBVIOUS
<1>2. ino' \in [Handle -> {0} \cup Inode]
  OBVIOUS
<1>3. mem' \in [Handle -> MemoryState]
  OBVIOUS
<1>4. tmpmem' \in [Handle -> MemoryState]
  OBVIOUS
<1>5. ASSUME NEW g \in Handle, g # h
      PROVE  CallOK(call'[g], ino'[g])
  <2>1. call'[g] = call[g]
    BY <1>5
  <2>2. ino'[g] = ino[g]
    BY <1>5
  <2>3. QED
    BY <2>1, <2>2
<1>6. QED
  BY <1>1, <1>2, <1>3, <1>4, <1>5

(* A name is given a file that no other name leads to, or none. *)
LEMMA NameTypes ==
    ASSUME FilesTypes, NEW name \in Name, NEW i \in {0} \cup Inode,
           i = 0 \/ \A n \in Name : n # name => dir[n] # i,
           dir' = [dir EXCEPT ![name] = i]
    PROVE  /\ dir' \in [Name -> {0} \cup Inode]
           /\ \A m, n \in Name : dir'[m] = dir'[n] /\ dir'[m] # 0 => m = n
  BY DEF FilesTypes, FilesTypeOK

(* The calls of create and squeeze keep the types. *)
LEMMA StepTypes ==
    ASSUME FilesTypes, NEW h \in Handle, Step(h)
    PROVE  FilesTypes'
<1> USE DEF FilesTypes, FilesTypeOK, CallOK, Call, NoCall
<1>1. 0 \notin Inode /\ {"path", "tmp", "null"} = Name
  BY DEF Inode, Name
<1>2. CASE CreateTruncate(h)
  <2> DEFINE i == Created(Target(h))
  <2>1. Target(h) \in Name
    BY <1>1 DEF Target
  <2>2. i \in Inode /\ \A n \in Name : n # Target(h) => dir[n] # i
    BY <2>1, CreatedInode
  <2>3. /\ dir' = [dir EXCEPT ![Target(h)] = i]
        /\ call' = [call EXCEPT ![h] = Call(call[h].op, "first", i, call[h].todo)]
        /\ Leaving([disk EXCEPT ![i] = Blank])
        /\ UNCHANGED <<ino, mem, faults, kept, tmpmem>>
        /\ call[h].at = "truncate"
    BY <1>2 DEF CreateTruncate
  <2> HIDE DEF i
  <2>4. /\ dir' \in [Name -> {0} \cup Inode]
        /\ \A m, n \in Name : dir'[m] = dir'[n] /\ dir'[m] # 0 => m = n
    BY <2>1, <2>2, <2>3, NameTypes
  <2>5. disk' \in [Inode -> FileState]
    BY <2>3, LeavingFiles, StateParts
  <2>6. CallOK(call'[h], ino'[h])
    BY <1>1, <2>2, <2>3
  <2>7. QED
    BY <2>3, <2>4, <2>5, <2>6, HandleTypes
<1>3. CASE CreateFirst(h)
  <2>1. /\ call' = [call EXCEPT ![h] = Call(call[h].op, "last", call[h].fd, call[h].todo)]
        /\ disk' = [disk EXCEPT ![call[h].fd] = Half]
        /\ UNCHANGED <<dir, ino, mem, faults, kept, tmpmem>>
        /\ call[h].at = "first"
    BY <1>3 DEF CreateFirst, GoTo
  <2>2. disk' \in [Inode -> FileState]
    BY <2>1, StateParts
  <2>3. CallOK(call'[h], ino'[h])
    BY <2>1
  <2>4. QED
    BY <2>1, <2>2, <2>3, HandleTypes
<1>4. CASE CreateLast(h)
  <2>1. /\ call' = [call EXCEPT ![h] = Call(call[h].op, "attach", call[h].fd, call[h].todo)]
        /\ disk' = [disk EXCEPT ![call[h].fd] = Whole(NewFile)]
        /\ UNCHANGED <<dir, ino, mem, faults, kept, tmpmem>>
        /\ call[h].at = "last"
    BY <1>4 DEF CreateLast, GoTo
  <2>2. disk' \in [Inode -> FileState]
    BY <2>1, StateParts, NewFileType
  <2>3. CallOK(call'[h], ino'[h])
    BY <2>1
  <2>4. QED
    BY <2>1, <2>2, <2>3, HandleTypes
<1>5. CASE CreateAttach(h)
  <2> DEFINE i == dir[Target(h)]
  <2>1. Target(h) \in Name
    BY <1>1 DEF Target
  <2>2. i \in Inode /\ Memory(disk[i]) \in MemoryState
    <3>1. i # 0
      BY <1>5 DEF CreateAttach, Opens
    <3>2. QED
      BY <2>1, <3>1, StateParts
  <2>3. /\ UNCHANGED <<dir, faults, kept>> /\ Leaving(disk)
        /\ \/ /\ call' = [call EXCEPT ![h] = NoCall]
              /\ ino' = [ino EXCEPT ![h] = i]
              /\ mem' = [mem EXCEPT ![h] = Memory(disk[i])]
              /\ UNCHANGED tmpmem
           \/ /\ call[h].op = "squeeze"
              /\ call' = [call EXCEPT ![h] = Call(call[h].op, "copy", i, call[h].todo)]
              /\ tmpmem' = [tmpmem EXCEPT ![h] = Memory(disk[i])]
              /\ UNCHANGED <<ino, mem>>
    BY <1>5 DEF CreateAttach, Holds
  <2> HIDE DEF i
  <2>4. disk' \in [Inode -> FileState]
    BY <2>3, LeavingFiles
  <2>5. CallOK(call'[h], ino'[h])
    BY <1>1, <2>2, <2>3
  <2>6. QED
    BY <2>2, <2>3, <2>4, <2>5, HandleTypes
<1>6. CASE SqueezeNull(h)
  <2> DEFINE i == Created("null")
  <2>1. i \in Inode /\ \A n \in Name : n # "null" => dir[n] # i
    BY <1>1, CreatedInode
  <2>2. /\ dir' = [dir EXCEPT !["null"] = i]
        /\ ino' = [ino EXCEPT ![h] = i]
        /\ call' = [call EXCEPT ![h] = Call(call[h].op, "rename", 0, call[h].todo)]
        /\ Leaving([disk EXCEPT ![i] = Blank])
        /\ tmpmem' = [tmpmem EXCEPT ![h] = NoMemory]
        /\ UNCHANGED <<mem, faults, kept>>
        /\ call[h].op = "squeeze"
    BY <1>6 DEF SqueezeNull, In
  <2> HIDE DEF i
  <2>3. /\ dir' \in [Name -> {0} \cup Inode]
        /\ \A m, n \in Name : dir'[m] = dir'[n] /\ dir'[m] # 0 => m = n
    BY <1>1, <2>1, <2>2, NameTypes
  <2>4. disk' \in [Inode -> FileState]
    BY <2>2, LeavingFiles, StateParts
  <2>5. CallOK(call'[h], ino'[h])
    BY <1>1, <2>1, <2>2
  <2>6. QED
    BY <2>1, <2>2, <2>3, <2>4, <2>5, StateParts, HandleTypes
<1>7. CASE SqueezeRename(h)
  <2>1. /\ dir' = [dir EXCEPT !["path"] = dir["tmp"], !["tmp"] = 0]
        /\ call' = [call EXCEPT ![h] = Call(call[h].op, "unlink", call[h].fd, call[h].todo)]
        /\ UNCHANGED <<ino, mem, faults, kept, tmpmem>>
        /\ Leaving(disk)
        /\ call[h].op = "squeeze"
    BY <1>7 DEF SqueezeRename, In, GoTo
  <2>2. dir' \in [Name -> {0} \cup Inode]
    BY <1>1, <2>1
  <2>3. \A m, n \in Name : dir'[m] = dir'[n] /\ dir'[m] # 0 => m = n
    BY <1>1, <2>1
  <2>4. disk' \in [Inode -> FileState]
    BY <2>1, LeavingFiles
  <2>5. CallOK(call'[h], ino'[h])
    BY <2>1
  <2>6. QED
    BY <2>1, <2>2, <2>3, <2>4, <2>5, HandleTypes
<1>8. CASE SqueezeUnlink(h)
  <2>1. /\ \/ dir' = [dir EXCEPT !["null"] = 0] /\ UNCHANGED faults
           \/ faults < MaxFaults /\ faults' = faults + 1 /\ UNCHANGED dir
        /\ call' = [call EXCEPT ![h] = Call(call[h].op, "reopen", call[h].fd, call[h].todo)]
        /\ UNCHANGED <<ino, mem, kept, tmpmem>>
        /\ Leaving(disk)
        /\ call[h].op = "squeeze"
    BY <1>8 DEF SqueezeUnlink, In, GoTo
  <2>2. /\ dir' \in [Name -> {0} \cup Inode]
        /\ \A m, n \in Name : dir'[m] = dir'[n] /\ dir'[m] # 0 => m = n
    BY <1>1, <2>1, NameTypes
  <2>3. faults' \in 0..MaxFaults
    BY <2>1, FilesAssumption
  <2>4. disk' \in [Inode -> FileState]
    BY <2>1, LeavingFiles
  <2>5. CallOK(call'[h], ino'[h])
    BY <2>1
  <2>6. QED
    BY <2>1, <2>2, <2>3, <2>4, <2>5, HandleTypes
<1>9. CASE SqueezeReopen(h)
  <2> DEFINE i == dir["path"]
  <2>1. /\ ino' = [ino EXCEPT ![h] = i]
        /\ mem' = [mem EXCEPT ![h] = Memory(disk[i])]
        /\ call' = [call EXCEPT ![h] = NoCall]
        /\ UNCHANGED <<dir, faults, kept, tmpmem>>
        /\ Leaving(disk)
        /\ i # 0
    BY <1>9 DEF SqueezeReopen, Holds, Opens
  <2>2. i \in Inode /\ Memory(disk[i]) \in MemoryState
    BY <1>1, <2>1, StateParts
  <2> HIDE DEF i
  <2>3. disk' \in [Inode -> FileState]
    BY <2>1, LeavingFiles
  <2>4. CallOK(call'[h], ino'[h])
    BY <2>1
  <2>5. QED
    BY <2>1, <2>2, <2>3, <2>4, HandleTypes
<1>10. QED
  BY <1>2, <1>3, <1>4, <1>5, <1>6, <1>7, <1>8, <1>9 DEF Step

(* An error or a crash ends the call of a handle. *)
LEMMA EndTypes ==
    ASSUME FilesTypes, NEW h \in Handle, Error(h) \/ Crash(h)
    PROVE  FilesTypes'
<1> USE DEF FilesTypes, FilesTypeOK
<1>1. CallOK(NoCall, ino[h]) /\ CallOK(NoCall, 0)
  BY DEF CallOK, NoCall, Call
<1>2. /\ call' = [call EXCEPT ![h] = NoCall]
      /\ \/ ino' = [ino EXCEPT ![h] = 0] /\ mem' = [mem EXCEPT ![h] = NoMemory]
         \/ UNCHANGED <<ino, mem>>
      /\ tmpmem' = [tmpmem EXCEPT ![h] = NoMemory]
      /\ UNCHANGED <<dir, kept>>
      /\ Leaving(disk)
  BY DEF Error, Crash, Returns, Closed, Holds
<1>3. faults' \in 0..MaxFaults
  BY FilesAssumption DEF Error, Crash
<1>4. disk' \in [Inode -> FileState]
  BY <1>2, LeavingFiles
<1>5. CallOK(call'[h], ino'[h])
  BY <1>1, <1>2
<1>6. QED
  BY <1>2, <1>3, <1>4, <1>5, StateParts, HandleTypes

(* What a caller does with a handle keeps the types. *)
LEMMA UseTypes ==
    ASSUME FilesTypes, NEW h \in Handle,
           \/ Open(h) \/ Close(h) \/ SqueezeBegin(h) \/ SqueezeEntry(h)
           \/ \E path \in Path, text \in Text : Store(h, path, text)
           \/ \E path \in Path : Delete(h, path)
    PROVE  FilesTypes'
<1> USE DEF FilesTypes, FilesTypeOK
<1>1. /\ 0 \notin Inode /\ {"path", "tmp", "null"} = Name
      /\ CallOK(call[h], ino[h]) /\ (Idle(h) => call[h].at = "none")
      /\ mem[h] \in MemoryState /\ tmpmem[h] \in MemoryState
      /\ ino[h] \in {0} \cup Inode
  BY DEF Inode, Name, CallOK, Idle, Busy
<1>2. CASE Open(h)
  <2> DEFINE i == dir["path"]
             c == Call("open", "truncate", 0, << >>)
  <2>1. /\ UNCHANGED <<dir, disk, kept, tmpmem>>
        /\ \/ /\ i # 0
              /\ ino' = [ino EXCEPT ![h] = i]
              /\ mem' = [mem EXCEPT ![h] = Memory(disk[i])]
              /\ UNCHANGED <<call, faults>>
           \/ /\ call' = [call EXCEPT ![h] = c]
              /\ UNCHANGED <<ino, mem>>
        /\ faults' = faults \/ (faults' = faults + 1 /\ faults < MaxFaults)
        /\ ino[h] = 0
    BY <1>2 DEF Open, Holds, Opens
  <2>2. i # 0 => i \in Inode /\ Memory(disk[i]) \in MemoryState
    BY <1>1, StateParts
  <2>3. CallOK(c, 0) /\ \A j \in Inode : ino[h] = 0 => CallOK(call[h], j)
    BY <1>1 DEF CallOK, Call
  <2> HIDE DEF i, c
  <2>4. CallOK(call'[h], ino'[h])
    BY <1>1, <2>1, <2>2, <2>3
  <2>5. faults' \in 0..MaxFaults
    BY <2>1, FilesAssumption
  <2>6. QED
    BY <2>1, <2>2, <2>4, <2>5, HandleTypes
<1>3. CASE Close(h)
  <2>1. /\ ino' = [ino EXCEPT ![h] = 0] /\ mem' = [mem EXCEPT ![h] = NoMemory]
        /\ UNCHANGED <<dir, call, faults, kept, tmpmem>>
        /\ Leaving(disk)
        /\ call[h].op = "none"
    BY <1>3 DEF Close, Closed, Holds, Idle, Busy
  <2>2. CallOK(call'[h], ino'[h])
    BY <1>1, <2>1 DEF CallOK
  <2>3. disk' \in [Inode -> FileState]
    BY <2>1, LeavingFiles
  <2>4. QED
    BY <2>1, <2>2, <2>3, StateParts, HandleTypes
<1>4. CASE SqueezeBegin(h)
  <2> DEFINE c == Call("squeeze", "truncate", 0, Catalog(View(h)))
  <2>1. /\ call' = [call EXCEPT ![h] = c]
        /\ UNCHANGED <<dir, disk, ino, mem, faults, kept, tmpmem>>
        /\ ino[h] # 0
    BY <1>4 DEF SqueezeBegin, Idle
  <2>2. CallOK(c, ino[h])
    BY <2>1 DEF CallOK, Call
  <2> HIDE DEF c
  <2>3. CallOK(call'[h], ino'[h])
    BY <2>1, <2>2
  <2>4. QED
    BY <2>1, <2>3, HandleTypes
<1>5. CASE SqueezeEntry(h)
  <2> DEFINE entry == Head(call[h].todo)
             rec   == ReadRecord(View(h), entry.path)
             new   == SqueezeForm(entry.type, rec)
             fd    == call[h].fd
             c     == Call(call[h].op, call[h].at, fd, Tail(call[h].todo))
  <2>1. /\ call' = [call EXCEPT ![h] = c]
        /\ UNCHANGED <<dir, ino, mem, faults, kept>>
        /\ call[h].op = "squeeze" /\ call[h].at = "copy"
        /\ \/ UNCHANGED <<disk, tmpmem>>
           \/ /\ rec # NoRecord
              /\ \E out \in StoreOutcomes(disk[fd], tmpmem[h], entry.path, new) :
                   /\ disk' = [disk EXCEPT ![fd] = out.file]
                   /\ tmpmem' = [tmpmem EXCEPT ![h] = out.mem]
    BY <1>5 DEF SqueezeEntry, NextEntry, In, SqueezeCopies
  <2>2. fd \in Inode /\ CallOK(c, ino[h])
    BY <1>1, <2>1 DEF CallOK, Call
  <2>3. View(h) \in Image
    <3>1. ino[h] \in Inode
      BY <1>1, <2>1 DEF CallOK
    <3>2. QED
      BY <1>1, <3>1, StateParts, BehindType DEF View
  <2>4. rec # NoRecord => entry.path \in Path /\ new \in Record
    BY <2>3, ReadRecordType, SqueezeFormType
  <2> HIDE DEF entry, rec, new, fd, c
  <2>5. /\ disk' \in [Inode -> FileState]
        /\ UNCHANGED tmpmem \/ \E m \in MemoryState : tmpmem' = [tmpmem EXCEPT ![h] = m]
    <3>1. CASE UNCHANGED <<disk, tmpmem>>
      BY <3>1
    <3>2. CASE /\ rec # NoRecord
               /\ \E out \in StoreOutcomes(disk[fd], tmpmem[h], entry.path, new) :
                     /\ disk' = [disk EXCEPT ![fd] = out.file]
                     /\ tmpmem' = [tmpmem EXCEPT ![h] = out.mem]
      <4>1. PICK out \in StoreOutcomes(disk[fd], tmpmem[h], entry.path, new) :
                     /\ disk' = [disk EXCEPT ![fd] = out.file]
                     /\ tmpmem' = [tmpmem EXCEPT ![h] = out.mem]
        BY <3>2
      <4>2. disk[fd] \in FileState /\ entry.path \in Path /\ new \in Record
        BY <2>2, <2>4, <3>2
      <4>3. out.file \in FileState /\ out.mem \in MemoryState
        BY <1>1, <4>2, StoreOutcomeType
      <4>4. QED
        BY <4>1, <4>3
    <3>3. QED
      BY <2>1, <3>1, <3>2
  <2>6. CallOK(call'[h], ino'[h])
    BY <2>1, <2>2
  <2>7. QED
    BY <2>1, <2>5, <2>6, HandleTypes
<1>6. ASSUME NEW path \in Path, NEW text \in Text, Store(h, path, text)
      PROVE  FilesTypes'
  <2> DEFINE i == ino[h]
  <2>1. PICK out \in StoreOutcomes(disk[i], mem[h], path, TextRecord(text)) :
          /\ \/ /\ ino' = [ino EXCEPT ![h] = i]
                /\ mem' = [mem EXCEPT ![h] = out.mem]
             \/ /\ ino' = [ino EXCEPT ![h] = 0]
                /\ mem' = [mem EXCEPT ![h] = NoMemory]
          /\ \/ UNCHANGED kept
             \/ kept' = [kept EXCEPT ![path] = TextRecord(text)]
          /\ UNCHANGED <<dir, call, faults, tmpmem>>
          /\ Leaving([disk EXCEPT ![i] = out.file])
    <3>1. PICK out \in StoreOutcomes(disk[i], mem[h], path, TextRecord(text)) :
            /\ IF out.ok \/ ~ Careful THEN Holds(h, ino[h], out.mem) ELSE Closed(h)
            /\ kept' = [kept EXCEPT ![path] =
                           IF /\ out.ok /\ ino[h] = dir["path"]
                              /\ FoundThroughLast(out.file, path)
                           THEN TextRecord(text) ELSE @]
            /\ UNCHANGED <<dir, call, faults, tmpmem>>
            /\ Leaving([disk EXCEPT ![ino[h]] = out.file])
      BY <1>6 DEF Store
    <3>2. \/ /\ ino' = [ino EXCEPT ![h] = i]
             /\ mem' = [mem EXCEPT ![h] = out.mem]
          \/ /\ ino' = [ino EXCEPT ![h] = 0]
             /\ mem' = [mem EXCEPT ![h] = NoMemory]
      BY <3>1 DEF Holds, Closed
    <3> DEFINE last == /\ out.ok /\ ino[h] = dir["path"]
                       /\ FoundThroughLast(out.file, path)
               new == TextRecord(text)
    <3>3. kept' = [kept EXCEPT ![path] = IF last THEN new ELSE kept[path]]
      BY <3>1
    <3> HIDE DEF last, new
    <3>4. UNCHANGED kept \/ kept' = [kept EXCEPT ![path] = new]
      BY <3>3
    <3>5. QED
      BY <3>1, <3>2, <3>4 DEF new
  <2>2. i \in Inode /\ call[h].op = "none"
    BY <1>1, <1>6 DEF Store, Idle, Busy
  <2>3. TextRecord(text) \in Record
    BY FilesAssumption, RecordTypes DEF Payload
  <2>4. disk[i] \in FileState
    BY <2>2
  <2>5. out.file \in FileState /\ out.mem \in MemoryState
    BY <1>1, <2>3, <2>4, StoreOutcomeType
  <2> HIDE DEF i
  <2>6. kept' \in [Path -> Record \cup {NoRecord}]
    BY <2>1, <2>3
  <2>7. disk' \in [Inode -> FileState]
    <3>1. [disk EXCEPT ![i] = out.file] \in [Inode -> FileState]
      BY <2>5
    <3>2. QED
      BY <2>1, <3>1, LeavingFiles
  <2>8. CallOK(call'[h], ino'[h])
    BY <1>1, <2>1, <2>2 DEF CallOK
  <2>9. QED
    BY <2>1, <2>2, <2>5, <2>6, <2>7, <2>8, StateParts, HandleTypes
<1>7. ASSUME NEW path \in Path, Delete(h, path)
      PROVE  FilesTypes'
  <2> DEFINE view == View(h)
             slot == FindRecord(view, path)
             img  == Count(SetStatus(view, slot, "DELETED"), "numberDeletes")
             m    == [half |-> FALSE, hdr |-> img.hdr]
  <2>1. /\ ino[h] \in Inode /\ slot # 0
        /\ disk' = [disk EXCEPT ![ino[h]] = Whole(img)]
        /\ mem' = [mem EXCEPT ![h] = m]
        /\ kept' = [kept EXCEPT ![path] =
                       IF ino[h] = dir["path"] THEN NoRecord ELSE kept[path]]
        /\ UNCHANGED <<dir, ino, call, faults, tmpmem>>
    BY <1>1, <1>7 DEF Delete, Idle
  <2>2. view \in Image
    BY <1>1, <2>1, StateParts, BehindType DEF View
  <2>3. /\ slot \in DOMAIN view.cells /\ HasTag(view, slot, "entry")
    BY <2>1, <2>2, FoundRecord, FoundEntry
  <2>4. SetStatus(view, slot, "DELETED") \in Image
    BY <2>2, <2>3, SetStatusType DEF Status
  <2>5. img \in Image
    BY <2>4, CountType DEF HeaderWord
  <2>6. Whole(img) \in FileState /\ m \in MemoryState
    BY <2>5, StateParts, ImageFields DEF MemoryState
  <2> HIDE DEF img, m
  <2>7. disk' \in [Inode -> FileState] /\ kept' \in [Path -> Record \cup {NoRecord}]
    BY <2>1, <2>6
  <2>8. CallOK(call'[h], ino'[h])
    BY <1>1, <2>1
  <2>9. QED
    BY <2>1, <2>6, <2>7, <2>8, HandleTypes
<1>8. QED
  BY <1>2, <1>3, <1>4, <1>5, <1>6, <1>7

(* The first state has the types. *)
LEMMA TypesInit == Init => FilesTypes
<1> SUFFICES ASSUME Init PROVE FilesTypes
  OBVIOUS
<1>1. FilesTypeOK
  BY StateParts, FilesAssumption DEF Init, FilesTypeOK
<1>2. CallOK(NoCall, 0)
  BY DEF CallOK, NoCall, Call
<1>3. QED
  BY <1>1, <1>2 DEF Init, FilesTypes

(* Every step keeps the types. *)
LEMMA TypesStep ==
    ASSUME FilesTypes, [Next]_vars
    PROVE  FilesTypes'
<1>1. CASE UNCHANGED vars
  BY <1>1 DEF vars, FilesTypes, FilesTypeOK
<1>2. CASE Next
  <2>1. PICK h \in Handle :
          \/ Open(h) \/ Close(h) \/ SqueezeBegin(h)
          \/ \E path \in Path, text \in Text : Store(h, path, text)
          \/ \E path \in Path : Delete(h, path)
          \/ Step(h) \/ SqueezeEntry(h) \/ Error(h) \/ Crash(h)
    BY <1>2 DEF Next
  <2>2. QED
    BY <2>1, StepTypes, EndTypes, UseTypes
<1>3. QED
  BY <1>1, <1>2

(* FilesTypeOK: the variables have their types and no file has two names,  *)
(* for any number of handles, whatever fails.  In particular there is      *)
(* always a file left to create.                                           *)
THEOREM FilesTypesCorrect == Spec => []FilesTypeOK
<1>1. FilesTypes => FilesTypeOK
  BY DEF FilesTypes
<1>2. QED
  BY <1>1, TypesInit, TypesStep, PTL DEF Spec

-----------------------------------------------------------------------------
(* One handle is on the file that path leads to.                           *)

\* A handle is on the file of path, with the header of that file.
OnPath(h) == ino[h] = dir["path"] /\ mem[h] = Memory(disk[ino[h]])

\* A file whose header has no addresses has nothing else.
HalfIsHalf == \A i \in Inode : disk[i].form = "half" => disk[i] = Half

\* The inductive invariant: a handle that is opening has no file yet.
OnPathInv(h) ==
    /\ FilesTypes
    /\ HalfIsHalf
    /\ Idle(h) => OnPath(h)
    /\ call[h].op = "open" => ino[h] = 0

(* Whatever files a step leaves, those that are half created have nothing. *)
LEMMA LeavesHalf ==
    ASSUME NEW files \in [Inode -> FileState], Leaving(files),
           \A i \in Inode : files[i].form = "half" => files[i] = Half
    PROVE  HalfIsHalf'
  BY StateParts DEF Leaving, HalfIsHalf, Blank

(* What a store writes is a file that is not half created or has nothing,  *)
(* and a caller that goes on has the header of that file.                  *)
LEMMA StoreOutcomeHeader ==
    ASSUME NEW file \in FileState, file.form = "half" => file = Half,
           NEW memory, NEW path, NEW rec,
           NEW out \in StoreOutcomes(file, memory, path, rec)
    PROVE  /\ out.file.form = "half" => out.file = Half
           /\ memory = Memory(file) /\ out.ok => out.mem = Memory(out.file)
<1> DEFINE img == StoreRecord(Behind(file, memory.hdr), path, rec)
<1>1. CASE memory.half
  <2>1. memory = Memory(file) => file = Half
    <3>1. Memory(file).half <=> file.form = "half"
      BY DEF Memory
    <3>2. QED
      BY <1>1, <3>1
  <2>2. \/ out = [ok |-> TRUE,  file |-> Half,  mem |-> memory]
        \/ out = [ok |-> FALSE, file |-> Blank, mem |-> memory]
    BY <1>1 DEF StoreOutcomes
  <2>3. QED
    BY <2>1, <2>2 DEF Blank
<1>2. CASE ~ memory.half
  <2>1. out = [ok |-> TRUE, file |-> Whole(img),
               mem |-> [half |-> FALSE, hdr |-> img.hdr]]
    BY <1>2 DEF StoreOutcomes
  <2> HIDE DEF img
  <2>2. QED
    BY <2>1 DEF Whole, Memory
<1>3. QED
  BY <1>1, <1>2

(* Every step of the only handle leaves it on the file of path. *)
LEMMA OnPathStep ==
    ASSUME NEW h, Handle = {h}, Careful, OnPathInv(h), [Next]_vars
    PROVE  OnPathInv(h)'
<1> USE DEF OnPathInv
<1>1. FilesTypes'
  BY TypesStep
<1>2. /\ FilesTypeOK /\ FilesTypeOK' /\ h \in Handle
      /\ call = [g \in Handle |-> call[g]]
      /\ CallOK(call[h], ino[h])
      /\ dir \in [Name -> {0} \cup Inode] /\ ino \in [Handle -> {0} \cup Inode]
      /\ mem \in [Handle -> MemoryState] /\ disk \in [Inode -> FileState]
      /\ 0 \notin Inode /\ {"path", "tmp", "null"} = Name
  <2>1. FilesTypeOK /\ FilesTypeOK' /\ h \in Handle
        /\ call = [g \in Handle |-> call[g]]
        /\ CallOK(call[h], ino[h])
    BY <1>1 DEF FilesTypes
  <2>2. 0 \notin Inode /\ {"path", "tmp", "null"} = Name
    BY DEF Name, Inode
  <2>3. QED
    BY <2>1, <2>2 DEF FilesTypeOK
<1>3. /\ dir'["path"] \in InUse' /\ dir'["tmp"] \in InUse' /\ ino'[h] \in InUse'
  BY <1>2 DEF InUse, Name
<1>4. CASE UNCHANGED vars
  BY <1>1, <1>4 DEF vars, HalfIsHalf, Idle, Busy, OnPath
<1>5. CASE Open(h)
  <2>1. HalfIsHalf'
    BY <1>5 DEF Open, HalfIsHalf
  <2>2. QED
    BY <1>1, <1>2, <1>5, <2>1
    DEF Open, Holds, Opens, OnPath, Idle, Busy, Call, FilesTypeOK
<1>6. CASE Close(h)
  <2>1. Leaving(disk) /\ disk \in [Inode -> FileState]
    BY <1>2, <1>6 DEF Close, FilesTypeOK
  <2>2. HalfIsHalf'
    BY <2>1, LeavesHalf DEF HalfIsHalf
  <2>3. ino'[h] = 0
    BY <1>2, <1>6 DEF Close, Closed, Holds, FilesTypeOK
  <2>4. QED
    BY <1>1, <2>2, <2>3 DEF Idle
<1>7. CASE SqueezeBegin(h)
  <2>1. HalfIsHalf'
    BY <1>7 DEF SqueezeBegin, HalfIsHalf
  <2>2. call'[h].op = "squeeze"
    BY <1>2, <1>7 DEF SqueezeBegin, Call
  <2>3. QED
    BY <1>1, <2>1, <2>2 DEF Idle, Busy
<1>8. CASE SqueezeEntry(h)
  <2>1. /\ call'[h].op = "squeeze"
        /\ call[h].fd \in Inode
    BY <1>2, <1>8 DEF SqueezeEntry, NextEntry, In, Call, CallOK
  <2> DEFINE fd == call[h].fd
             new == SqueezeForm(Head(call[h].todo).type,
                                ReadRecord(View(h), Head(call[h].todo).path))
  <2>2. \/ disk' = disk
        \/ \E out \in StoreOutcomes(disk[fd], tmpmem[h], Head(call[h].todo).path, new) :
               disk' = [disk EXCEPT ![fd] = out.file]
    BY <1>8 DEF SqueezeEntry
  <2>3. disk[fd] \in FileState /\ (disk[fd].form = "half" => disk[fd] = Half)
    BY <1>2, <2>1 DEF HalfIsHalf
  <2> HIDE DEF fd, new
  <2>4. HalfIsHalf'
    BY <1>2, <2>2, <2>3, StoreOutcomeHeader DEF HalfIsHalf
  <2>5. QED
    BY <1>1, <2>1, <2>4 DEF Idle, Busy
<1>9. ASSUME NEW path \in Path, NEW text \in Text, Store(h, path, text)
      PROVE  OnPathInv(h)'
  <2> DEFINE i == ino[h]
             rec == TextRecord(text)
  <2>1. PICK out \in StoreOutcomes(disk[i], mem[h], path, rec) :
          /\ IF out.ok \/ ~ Careful THEN Holds(h, i, out.mem) ELSE Closed(h)
          /\ UNCHANGED <<dir, call, faults, tmpmem>>
          /\ Leaving([disk EXCEPT ![i] = out.file])
    BY <1>9 DEF Store
  <2>2. i \in Inode /\ i = dir["path"] /\ mem[h] = Memory(disk[i]) /\ call[h].op = "none"
    BY <1>2, <1>9 DEF Store, Idle, Busy, OnPath
  <2>3. disk[i] \in FileState /\ (disk[i].form = "half" => disk[i] = Half)
    BY <1>2, <2>2 DEF HalfIsHalf
  <2> HIDE DEF i, rec
  <2>4. /\ out.file.form = "half" => out.file = Half
        /\ out.ok => out.mem = Memory(out.file)
    BY <2>2, <2>3, StoreOutcomeHeader
  <2> DEFINE files == [disk EXCEPT ![i] = out.file]
  <2>5. /\ \A j \in Inode : files[j].form = "half" => files[j] = Half
        /\ files[i] = out.file
    BY <1>2, <2>2, <2>4 DEF HalfIsHalf
  <2> HIDE DEF files
  <2>6. /\ HalfIsHalf'
        /\ i \in InUse' => disk'[i] = out.file
    BY <1>2, <2>1, <2>2, <2>5 DEF Leaving, HalfIsHalf, Blank, files
  <2>7. CASE out.ok
    <3>1. ino'[h] = i /\ mem'[h] = out.mem
      BY <1>2, <2>1, <2>7 DEF Holds
    <3>2. OnPath(h)'
      BY <1>3, <2>1, <2>2, <2>4, <2>6, <2>7, <3>1 DEF OnPath
    <3>3. QED
      BY <1>1, <2>1, <2>2, <2>6, <3>2
  <2>8. CASE ~ out.ok
    <3>1. ino'[h] = 0
      BY <1>2, <2>1, <2>8 DEF Closed, Holds
    <3>2. QED
      BY <1>1, <2>6, <3>1 DEF Idle
  <2>9. QED
    BY <2>7, <2>8
<1>10. ASSUME NEW path \in Path, Delete(h, path)
       PROVE  OnPathInv(h)'
  <2> DEFINE img == Count(SetStatus(View(h), FindRecord(View(h), path), "DELETED"),
                          "numberDeletes")
  <2>1. /\ ino[h] \in Inode /\ call[h].op = "none" /\ OnPath(h)
        /\ disk' = [disk EXCEPT ![ino[h]] = Whole(img)]
        /\ mem' = [mem EXCEPT ![h] = [half |-> FALSE, hdr |-> img.hdr]]
        /\ UNCHANGED <<dir, ino, call, faults, tmpmem>>
    BY <1>2, <1>10 DEF Delete, Idle, Busy
  <2> HIDE DEF img
  <2>2. Memory(Whole(img)) = [half |-> FALSE, hdr |-> img.hdr]
        /\ Whole(img).form # "half"
    BY DEF Memory, Whole
  <2>3. HalfIsHalf' /\ OnPath(h)'
    BY <1>2, <2>1, <2>2 DEF HalfIsHalf, OnPath
  <2>4. QED
    BY <1>1, <2>1, <2>3
<1>11. CASE CreateTruncate(h)
  <2> DEFINE i == Created(Target(h))
             files == [disk EXCEPT ![i] = Blank]
  <2>1. /\ call' = [call EXCEPT ![h] = Call(call[h].op, "first", i, call[h].todo)]
        /\ call[h].at = "truncate"
        /\ UNCHANGED <<ino, mem, faults, kept, tmpmem>>
        /\ Leaving(files)
    BY <1>11 DEF CreateTruncate
  <2>2. /\ files \in [Inode -> FileState]
        /\ \A j \in Inode : files[j].form = "half" => files[j] = Half
    BY <1>2, StateParts DEF HalfIsHalf, Blank
  <2> HIDE DEF i, files
  <2>3. HalfIsHalf'
    BY <2>1, <2>2, LeavesHalf
  <2>4. call'[h].op = call[h].op /\ call[h].op # "none"
    BY <1>2, <2>1 DEF Call, CallOK
  <2>5. QED
    BY <1>1, <2>1, <2>3, <2>4 DEF Idle, Busy
<1>12. CASE CreateFirst(h) \/ CreateLast(h)
  <2>1. /\ call'[h].op = call[h].op /\ call[h].op # "none"
        /\ UNCHANGED ino
        /\ \/ disk' = [disk EXCEPT ![call[h].fd] = Half]
           \/ disk' = [disk EXCEPT ![call[h].fd] = Whole(NewFile)]
    BY <1>2, <1>12 DEF CreateFirst, CreateLast, GoTo, Call, CallOK
  <2>2. HalfIsHalf'
    BY <1>2, <2>1 DEF HalfIsHalf, Whole
  <2>3. QED
    BY <1>1, <2>1, <2>2 DEF Idle, Busy
<1>13. CASE CreateAttach(h)
  <2> DEFINE i == dir[Target(h)]
  <2>1. /\ UNCHANGED dir /\ Leaving(disk)
        /\ \/ /\ call[h].op = "open" /\ i # 0
              /\ call' = [call EXCEPT ![h] = NoCall]
              /\ ino' = [ino EXCEPT ![h] = i]
              /\ mem' = [mem EXCEPT ![h] = Memory(disk[i])]
           \/ /\ call[h].op = "squeeze"
              /\ call' = [call EXCEPT ![h] = Call(call[h].op, "copy", i, call[h].todo)]
    BY <1>13 DEF CreateAttach, Holds, Opens
  <2>2. HalfIsHalf'
    BY <1>2, <2>1, LeavesHalf DEF HalfIsHalf
  <2>3. CASE call[h].op = "open"
    <3>1. i = dir["path"]
      BY <2>3 DEF Target
    <3>2. /\ i \in Inode /\ call'[h].op = "none"
          /\ ino'[h] = i /\ mem'[h] = Memory(disk[i]) /\ dir' = dir
      BY <1>2, <2>1, <2>3, <3>1 DEF NoCall, Call
    <3>3. disk'[i] = disk[i]
      BY <1>2, <1>3, <2>1, <3>2, LeavingFiles
    <3>4. QED
      BY <1>1, <2>2, <3>1, <3>2, <3>3 DEF OnPath
  <2>4. CASE call[h].op # "open"
    <3>1. call'[h].op = "squeeze"
      BY <1>2, <2>1, <2>4 DEF Call
    <3>2. QED
      BY <1>1, <2>2, <3>1 DEF Idle, Busy
  <2>5. QED
    BY <2>3, <2>4
<1>14. CASE SqueezeNull(h)
  <2> DEFINE i == Created("null")
             files == [disk EXCEPT ![i] = Blank]
  <2>1. /\ call' = [call EXCEPT ![h] = Call(call[h].op, "rename", 0, call[h].todo)]
        /\ call[h].op = "squeeze" /\ Leaving(files)
    BY <1>14 DEF SqueezeNull, In
  <2>2. /\ files \in [Inode -> FileState]
        /\ \A j \in Inode : files[j].form = "half" => files[j] = Half
    BY <1>2, StateParts DEF HalfIsHalf, Blank
  <2> HIDE DEF i, files
  <2>3. HalfIsHalf' /\ call'[h].op = "squeeze"
    BY <1>2, <2>1, <2>2, LeavesHalf DEF Call
  <2>4. QED
    BY <1>1, <2>3 DEF Idle, Busy
<1>15. CASE SqueezeRename(h) \/ SqueezeUnlink(h)
  <2>1. call'[h].op = "squeeze" /\ Leaving(disk)
    BY <1>2, <1>15 DEF SqueezeRename, SqueezeUnlink, In, GoTo, Call
  <2>2. HalfIsHalf'
    BY <1>2, <2>1, LeavesHalf DEF HalfIsHalf
  <2>3. QED
    BY <1>1, <2>1, <2>2 DEF Idle, Busy
<1>16. CASE SqueezeReopen(h)
  <2> DEFINE i == dir["path"]
  <2>1. /\ UNCHANGED dir /\ Leaving(disk) /\ i # 0
        /\ call' = [call EXCEPT ![h] = NoCall]
        /\ ino' = [ino EXCEPT ![h] = i]
        /\ mem' = [mem EXCEPT ![h] = Memory(disk[i])]
    BY <1>16 DEF SqueezeReopen, Holds, Opens
  <2>2. HalfIsHalf'
    BY <1>2, <2>1, LeavesHalf DEF HalfIsHalf
  <2>3. /\ i \in Inode /\ call'[h].op = "none" /\ dir'["path"] = i
        /\ ino'[h] = i /\ mem'[h] = Memory(disk[i])
    BY <1>2, <2>1 DEF NoCall, Call
  <2>4. disk'[i] = disk[i]
    BY <1>2, <1>3, <2>1, <2>3, LeavingFiles
  <2>5. QED
    BY <1>1, <2>2, <2>3, <2>4 DEF OnPath
<1>17. CASE Error(h) \/ Crash(h)
  <2>1. /\ Leaving(disk)
        /\ call' = [call EXCEPT ![h] = NoCall]
        /\ \/ call[h].op = "open" /\ UNCHANGED ino
           \/ ino' = [ino EXCEPT ![h] = 0]
    BY <1>2, <1>17
    DEF Error, Crash, Returns, Closed, Holds, Busy, CallOK
  <2>2. HalfIsHalf'
    BY <1>2, <2>1, LeavesHalf DEF HalfIsHalf
  <2>3. ino'[h] = 0
    BY <1>2, <2>1
  <2>4. QED
    BY <1>1, <2>2, <2>3 DEF Idle
<1>18. QED
  <2>1. CASE Next
    <3>1. \/ Open(h) \/ Close(h) \/ SqueezeBegin(h)
          \/ \E path \in Path, text \in Text : Store(h, path, text)
          \/ \E path \in Path : Delete(h, path)
          \/ Step(h) \/ SqueezeEntry(h) \/ Error(h) \/ Crash(h)
      BY <2>1 DEF Next
    <3>2. QED
      BY <1>5, <1>6, <1>7, <1>8, <1>9, <1>10, <1>11, <1>12, <1>13, <1>14, <1>15,
         <1>16, <1>17, <3>1 DEF Step
  <2>2. QED
    BY <1>4, <2>1

(* HandleIsOnPath: a handle that is alone, and that is dropped when a call *)
(* has failed, is on the file path leads to, with that file's header,      *)
(* whenever it can be used, whatever has failed or crashed before.         *)
THEOREM HandleStaysOnPath ==
    ASSUME NEW h, Handle = {h}, Careful
    PROVE  Spec => []HandleIsOnPath
<1>1. Init => OnPathInv(h)
  <2> SUFFICES ASSUME Init PROVE OnPathInv(h)
    OBVIOUS
  <2>1. FilesTypes
    BY TypesInit
  <2>2. h \in Handle
    OBVIOUS
  <2>3. HalfIsHalf
    BY DEF Init, HalfIsHalf, Blank
  <2>4. ino[h] = 0
    BY <2>2 DEF Init
  <2>5. QED
    BY <2>1, <2>3, <2>4 DEF OnPathInv, Idle
<1>2. OnPathInv(h) /\ [Next]_vars => OnPathInv(h)'
  BY OnPathStep
<1>3. OnPathInv(h) => HandleIsOnPath
  BY DEF OnPathInv, HandleIsOnPath, OnPath
<1>4. QED
  BY <1>1, <1>2, <1>3, PTL DEF Spec

-----------------------------------------------------------------------------
(* The entries of a file as a list, and what operations make of them.      *)

EntriesOf(f) ==
    LET slots == ReadAllBins(f)
    IN  [k \in 1..Len(slots) |-> Logged(f, slots[k])]

\* A file that can be walked and has not had a block allocated by a store.
Sound(f) == Walkable(f) /\ ~ f.spilled

\* The entry that a store makes, or that is left of one when its status changes.
ItemOf(path, rec, status) ==
    [path |-> path, type |-> rec.type, content |-> rec.content, status |-> status]
RecordOf(item) == [type |-> item.type, content |-> item.content]

(* They are those the walk comes by, whatever chain it is said to follow. *)
LEMMA EntriesAreLogs ==
    ASSUME NEW f, Sound(f), NEW chain, Walked(f, chain)
    PROVE  EntriesOf(f) = Logs(f, chain)
<1> DEFINE m == f.hdr["totalBins"]
           slots == SlotsOf(chain, m)
<1>1. f \in Image /\ LaidOut(f)
  BY DEF Sound, Walkable, Safe, LaidOut, LaidTo
<1>2. ReadAllBins(f) = slots /\ m \in Nat
  BY <1>1, WalkFinds
<1>3. Len(slots) = m /\ \A k \in 1..m : slots[k] = SlotAt(chain, k)
  BY <1>2 DEF SlotsOf
<1> HIDE DEF slots
<1>4. EntriesOf(f) = [k \in 1..m |-> Logged(f, slots[k])]
  BY <1>2, <1>3 DEF EntriesOf
<1>5. QED
  BY <1>3, <1>4 DEF Logs

(* A chain can be chosen, and the list has a length. *)
LEMMA EntriesChain ==
    ASSUME NEW f, Sound(f)
    PROVE  /\ f \in Image
           /\ Len(EntriesOf(f)) = f.hdr["totalBins"]
           /\ Len(EntriesOf(f)) \in Nat
           /\ \E chain : Walked(f, chain) /\ EntriesOf(f) = Logs(f, chain)
<1>1. f \in Image
  BY DEF Sound, Walkable, Safe
<1>2. PICK chain : Walked(f, chain)
  BY DEF Sound, Walkable
<1>3. EntriesOf(f) = Logs(f, chain)
  BY <1>2, EntriesAreLogs
<1>4. Len(Logs(f, chain)) = f.hdr["totalBins"] /\ f.hdr["totalBins"] \in Nat
  BY <1>1, <1>2, LogsFields
<1>5. QED
  BY <1>1, <1>2, <1>3, <1>4

(* What a list with one more entry has. *)
LEMMA AppendedEntry ==
    ASSUME NEW f, Sound(f), NEW item, NEW list, list = Append(EntriesOf(f), item)
    PROVE  LET n == Len(EntriesOf(f))
           IN  /\ Len(list) = n + 1
               /\ list[n + 1] = item
               /\ \A k \in 1..n : list[k] = EntriesOf(f)[k]
<1> DEFINE old == EntriesOf(f)
           n == Len(old)
           V == {old[k] : k \in 1..n} \cup {item}
<1>1. n \in Nat /\ old = [k \in 1..n |-> old[k]]
  <2>1. n \in Nat /\ \E chain : Walked(f, chain) /\ old = Logs(f, chain)
    BY EntriesChain
  <2>2. n = f.hdr["totalBins"]
    BY EntriesChain
  <2> HIDE DEF old, n
  <2>3. QED
    BY <2>1, <2>2 DEF Logs
<1>2. old \in [1..n -> V] /\ item \in V
  BY <1>1
<1> HIDE DEF old, V
<1>3. old \in Seq(V)
  BY <1>1, <1>2, FunctionIsSeq
<1>4. Len(Append(old, item)) = n + 1 /\ Append(old, item)[n + 1] = item
      /\ \A k \in 1..n : Append(old, item)[k] = old[k]
  BY <1>1, <1>2, <1>3
<1>5. QED
  BY <1>4 DEF old

(* A new file has none. *)
LEMMA NewEntries == Sound(NewFile) /\ Len(EntriesOf(NewFile)) = 0
<1>1. Sound(NewFile)
  BY NewFileWalkable DEF Sound, NewFile
<1>2. NewFile.hdr["totalBins"] = 0
  BY DEF NewFile, HeaderWord
<1>3. QED
  BY <1>1, <1>2, EntriesChain

(* A store adds one at the end. *)
LEMMA StoredEntries ==
    ASSUME NEW f, Sound(f), NEW path \in Path, NEW rec \in Record,
           ~ StoreRecord(f, path, rec).spilled
    PROVE  /\ Sound(StoreRecord(f, path, rec))
           /\ EntriesOf(StoreRecord(f, path, rec))
                = Append(EntriesOf(f), ItemOf(path, rec, "PRIMARY"))
<1> DEFINE g == StoreRecord(f, path, rec)
<1>1. Safe(f) /\ ~ f.spilled
  BY DEF Sound, Walkable
<1>2. PICK chain : Walked(f, chain) /\ EntriesOf(f) = Logs(f, chain)
  BY EntriesChain
<1>3. /\ Walked(g, chain)
      /\ Logs(g, chain) = Append(Logs(f, chain), ItemOf(path, rec, "PRIMARY"))
  BY <1>1, <1>2, StoredWalk DEF ItemOf
<1>4. Walkable(g)
  BY WalkableChange DEF Change, Stored, Sound
<1>5. Sound(g)
  BY <1>4 DEF Sound
<1> HIDE DEF g
<1>6. EntriesOf(g) = Logs(g, chain)
  BY <1>3, <1>5, EntriesAreLogs
<1>7. QED
  BY <1>2, <1>3, <1>5, <1>6 DEF g

(* A name that is found through the slot a store has taken is the one that *)
(* was stored, and it is found through the new entry.                      *)
LEMMA FoundLast ==
    ASSUME NEW f, Sound(f), NEW path \in Path, NEW rec \in Record,
           ~ StoreRecord(f, path, rec).spilled,
           NEW g, g = StoreRecord(f, path, rec), NEW x \in Path,
           FindRecord(g, x) = g.hdr["nextBin"] - BinSize
    PROVE  /\ FirstFor(EntriesOf(g), Len(EntriesOf(f)) + 1, x)
           /\ x = path
<1> DEFINE n == f.hdr["totalBins"]
           m == g.hdr["totalBins"]
           h == TableHash[x]
           list == EntriesOf(g)
<1>1. Safe(f) /\ ~ f.spilled
  BY DEF Sound, Walkable
<1>2. PICK chain : Walked(f, chain)
  BY EntriesChain
<1>3. Walked(g, chain)
  BY <1>1, <1>2, StoredWalk
<1>4. /\ Sound(g) /\ f \in Image /\ g \in Image
      /\ list = Append(EntriesOf(f), ItemOf(path, rec, "PRIMARY"))
  BY StoredEntries, EntriesChain
<1>5. /\ m = n + 1 /\ n \in Nat /\ Len(EntriesOf(f)) = n /\ Len(list) = m
  BY <1>4, EntriesChain, StoreRecordWords
<1>6. list = Logs(g, chain)
  BY <1>3, <1>4, EntriesAreLogs
<1>7. /\ \A k \in 1..m : /\ SlotAt(chain, k) # 0
                         /\ list[k].path = g.cells[SlotAt(chain, k)].path
      /\ \/ g.hash[h] = 0 /\ \A k \in 1..m : TableHash[list[k].path] # h
         \/ \E k \in 1..m :
                /\ g.hash[h] = SlotAt(chain, k)
                /\ TableHash[list[k].path] = h
                /\ \A j \in 1..(k - 1) : TableHash[list[j].path] # h
  <2>1. h \in 0..MaxHash-1
    BY ImageAssumption
  <2> HIDE DEF h, list, m
  <2>2. \A k \in 1..m : /\ SlotAt(chain, k) # 0
                        /\ list[k].path = g.cells[SlotAt(chain, k)].path
    BY <1>3, <1>4, <1>6, LogsFields DEF m
  <2>3. \/ g.hash[h] = 0 /\ \A k \in 1..m : TableHash[list[k].path] # h
        \/ \E k \in 1..m :
               /\ g.hash[h] = SlotAt(chain, k)
               /\ TableHash[list[k].path] = h
               /\ \A j \in 1..(k - 1) : TableHash[list[j].path] # h
    <3> DEFINE logs == Logs(g, chain)
    <3>1. \A t \in 0..MaxHash-1 :
             \/ /\ g.hash[t] = 0
                /\ \A k \in 1..g.hdr["totalBins"] : TableHash[logs[k].path] # t
             \/ \E k \in 1..g.hdr["totalBins"] :
                    /\ g.hash[t] = SlotAt(chain, k)
                    /\ TableHash[logs[k].path] = t
                    /\ \A j \in 1..(k - 1) : TableHash[logs[j].path] # t
      BY <1>3, <1>4, LogsFields
    <3> HIDE DEF logs
    <3>2. logs = list
      BY <1>6 DEF logs
    <3>3. QED
      BY <2>1, <3>1, <3>2 DEF m
  <2>4. QED
    BY <2>2, <2>3
<1>8. SlotAt(chain, m) = g.hdr["nextBin"] - BinSize
  <2> DEFINE l == Len(chain)
             whole == BinsPerBlock * (l - 1)
  <2>1. /\ chain \in Seq(Nat) /\ l # 0
        /\ whole <= n /\ m <= BinsPerBlock * l
        /\ g.hdr["nextBin"] = chain[l] + (m - whole) * BinSize
    BY <1>2, <1>3 DEF Walked, Chained, Filled, EndsAt
  <2>2. l \in Nat /\ chain[l] \in Nat /\ BinsPerBlock \in Nat /\ BinSize \in Nat
    BY <2>1, ImageAssumption
  <2>3. whole \in Nat
    BY <2>1, <2>2
  <2>4. SlotAt(chain, m) = chain[l] + (m - 1 - whole) * BinSize
    <3>1. m \in Nat \ {0} /\ whole < m
      BY <1>5, <2>1, <2>3
    <3>2. QED
      BY <2>1, <2>2, <3>1, SlotInBlock
  <2> HIDE DEF whole, m, n, l
  <2>5. (m - 1 - whole) * BinSize = (m - whole) * BinSize - BinSize
    BY <1>5, <2>2, <2>3
  <2>6. QED
    BY <1>5, <2>1, <2>2, <2>3, <2>4, <2>5
<1>9. g.hash[h] = SlotAt(chain, m) /\ g.cells[SlotAt(chain, m)].path = x
  <2>1. FindRecord(g, x) # 0
    BY <1>5, <1>7, <1>8
  <2>2. QED
    BY <1>8, <2>1 DEF FindRecord, HashSlot
<1>10. PICK k \in 1..m : /\ g.hash[h] = SlotAt(chain, k)
                         /\ TableHash[list[k].path] = h
                         /\ \A j \in 1..(k - 1) : TableHash[list[j].path] # h
  <2> HIDE DEF h, m, list
  <2>1. g.hash[h] # 0
    BY <1>5, <1>7, <1>9
  <2>2. QED
    BY <1>7, <2>1
<1>11. k = m
  <2>1. \A i, j \in 1..m : SlotAt(chain, i) = SlotAt(chain, j) => i = j
    BY <1>3 DEF Walked, Filled
  <2> HIDE DEF m
  <2>2. m \in 1..m
    BY <1>5
  <2>3. QED
    BY <1>9, <1>10, <2>1, <2>2
<1>12. FirstFor(list, m, x)
  <2> HIDE DEF m, list
  <2>1. QED
    BY <1>5, <1>10, <1>11 DEF FirstFor
<1>13. list[m].path = x
  <2> HIDE DEF m, list
  <2>1. m \in 1..m
    BY <1>5
  <2>2. QED
    BY <1>7, <1>9, <2>1
<1>14. list[m].path = path
  <2>1. list[m] = ItemOf(path, rec, "PRIMARY")
    BY <1>4, <1>5, AppendedEntry
  <2>2. QED
    BY <2>1 DEF ItemOf
<1>15. QED
  BY <1>5, <1>12, <1>13, <1>14

\* x is found in a list, with this record, through an entry that is live.
HasLive(list, x, rec) ==
    \E k \in 1..Len(list) :
        /\ FirstFor(list, k, x) /\ list[k].path = x
        /\ list[k].status \in {"PRIMARY", "ALIAS"}
        /\ RecordOf(list[k]) = rec

(* It is what the file's reader finds, and no other name of x's table hash *)
(* is found.                                                               *)
LEMMA LiveIsRead ==
    ASSUME NEW f, Sound(f), NEW x \in Path, NEW rec, HasLive(EntriesOf(f), x, rec)
    PROVE  /\ ReadRecord(f, x) = rec
           /\ \A y \in Path : TableHash[y] = TableHash[x] /\ y # x
                                => ReadRecord(f, y) = NoRecord
<1>1. PICK chain : Walked(f, chain) /\ EntriesOf(f) = Logs(f, chain)
  BY EntriesChain
<1> DEFINE list == EntriesOf(f)
<1>2. f \in Image /\ Len(list) \in Nat
  BY EntriesChain
<1>3. \A y \in Path : SaidOf(f, list, y)
  BY <1>1, <1>2, ListIsRead
<1> HIDE DEF list
<1>4. PICK k \in 1..Len(list) :
        /\ FirstFor(list, k, x) /\ list[k].path = x /\ RecordOf(list[k]) = rec
  BY DEF HasLive, list
<1>5. ASSUME NEW y \in Path, TableHash[y] = TableHash[x]
      PROVE  ReadRecord(f, y) = ReadThrough(list, k, y)
  <2>1. ~ NoneOf(list, y)
    BY <1>4, <1>5 DEF NoneOf, FirstFor
  <2>2. PICK j \in 1..Len(list) :
          FirstFor(list, j, y) /\ ReadRecord(f, y) = ReadThrough(list, j, y)
    BY <1>3, <2>1 DEF SaidOf
  <2>3. j = k
    BY <1>2, <1>4, <1>5, <2>2 DEF FirstFor
  <2>4. QED
    BY <2>2, <2>3
<1>6. ReadRecord(f, x) = rec
  BY <1>4, <1>5 DEF ReadThrough, RecordOf
<1>7. QED
  BY <1>4, <1>5, <1>6 DEF ReadThrough

(* A store leaves every live name and what is found under it. *)
LEMMA LiveIsKept ==
    ASSUME NEW f, Sound(f), NEW item, NEW list, list = Append(EntriesOf(f), item),
           NEW x, NEW rec, HasLive(EntriesOf(f), x, rec)
    PROVE  HasLive(list, x, rec)
<1> DEFINE old == EntriesOf(f)
<1>1. /\ Len(old) \in Nat /\ Len(list) = Len(old) + 1
      /\ \A k \in 1..Len(old) : list[k] = old[k]
  BY EntriesChain, AppendedEntry
<1> HIDE DEF old
<1>2. PICK k \in 1..Len(old) :
        /\ FirstFor(old, k, x) /\ old[k].path = x
        /\ old[k].status \in {"PRIMARY", "ALIAS"}
        /\ RecordOf(old[k]) = rec
  BY DEF HasLive, old
<1>3. k \in 1..Len(list) /\ list[k] = old[k] /\ FirstFor(list, k, x)
  BY <1>1, <1>2 DEF FirstFor
<1>4. QED
  BY <1>2, <1>3 DEF HasLive

(* Deleting a name changes the status of the entry it is found through.    *)
LEMMA DeletedEntries ==
    ASSUME NEW f, Sound(f), NEW x \in Path, FindRecord(f, x) # 0,
           NEW g, g = Count(SetStatus(f, FindRecord(f, x), "DELETED"), "numberDeletes")
    PROVE  /\ Sound(g)
           /\ Len(EntriesOf(g)) = Len(EntriesOf(f))
           /\ \E i \in 1..Len(EntriesOf(f)) :
                 /\ EntriesOf(f)[i].path = x
                 /\ \A k \in 1..Len(EntriesOf(f)) :
                       /\ EntriesOf(g)[k].path = EntriesOf(f)[k].path
                       /\ RecordOf(EntriesOf(g)[k]) = RecordOf(EntriesOf(f)[k])
                       /\ k # i => EntriesOf(g)[k] = EntriesOf(f)[k]
<1> DEFINE m == f.hdr["totalBins"]
           h == TableHash[x]
           slot == FindRecord(f, x)
<1>1. Safe(f) /\ ~ f.spilled /\ f \in Image
  BY DEF Sound, Walkable, Safe
<1>2. PICK chain : Walked(f, chain) /\ EntriesOf(f) = Logs(f, chain)
  BY EntriesChain
<1>3. m \in Nat /\ Len(EntriesOf(f)) = m /\ Len(Logs(f, chain)) = m
  BY <1>2, EntriesChain
<1>4. slot = f.hash[h] /\ HasTag(f, slot, "entry") /\ f.cells[slot].path = x
  BY DEF FindRecord, HashSlot
<1>5. PICK i \in 1..m : slot = SlotAt(chain, i)
  <2>1. h \in 0..MaxHash-1
    BY ImageAssumption
  <2> HIDE DEF h, m, slot
  <2>2. \/ f.hash[h] = 0
        \/ \E k \in 1..m : f.hash[h] = SlotAt(chain, k)
    BY <1>1, <1>2, <2>1, LogsFields DEF m
  <2>3. slot # 0
    BY DEF slot
  <2>4. QED
    BY <1>4, <2>2, <2>3
<1>6. Logs(f, chain)[i].path = x
  <2> HIDE DEF m, slot
  <2>1. Logs(f, chain)[i].path = f.cells[SlotAt(chain, i)].path
    BY <1>1, <1>2, LogsFields DEF m
  <2>2. QED
    BY <1>4, <1>5, <2>1
<1> DEFINE old == Logs(f, chain)
           new == [path |-> old[i].path, type |-> old[i].type,
                   content |-> old[i].content, status |-> "DELETED"]
<1>7. /\ Walked(g, chain)
      /\ Logs(g, chain) = [old EXCEPT ![i] = new]
  <2>1. LET marked == SetStatus(f, SlotAt(chain, i), "DELETED")
        IN  \/ g = marked
            \/ \E word \in {"numberDeletes", "numberAliasDeletes"} :
                   g = Count(marked, word)
    BY <1>5
  <2>2. "DELETED" \in Status
    BY DEF Status
  <2> HIDE DEF slot
  <2>3. QED
    BY <1>1, <1>2, <2>1, <2>2, MarkedWalk
<1>8. Sound(g)
  <2>1. slot \in DOMAIN f.cells
    BY <1>4 DEF HasTag
  <2>2. Marked(f, g)
    BY <1>4, <2>1 DEF Marked, Status
  <2>3. Walkable(g)
    BY <2>2, WalkableChange DEF Change, Sound
  <2>4. g.spilled = f.spilled
    BY DEF Count, SetStatus
  <2>5. QED
    BY <1>1, <2>3, <2>4 DEF Sound
<1>9. EntriesOf(g) = Logs(g, chain)
  BY <1>7, <1>8, EntriesAreLogs
<1>10. old = [k \in 1..m |-> old[k]]
  BY DEF Logs
<1> HIDE DEF old, new, m, slot, h
<1>11. /\ Logs(g, chain) = [k \in 1..m |-> IF k = i THEN new ELSE old[k]]
       /\ Len(Logs(g, chain)) = m
  BY <1>3, <1>7, <1>10
<1>12. /\ new.path = old[i].path /\ RecordOf(new) = RecordOf(old[i])
  BY DEF new, RecordOf
<1>13. \A k \in 1..m : /\ EntriesOf(g)[k].path = old[k].path
                       /\ RecordOf(EntriesOf(g)[k]) = RecordOf(old[k])
                       /\ k # i => EntriesOf(g)[k] = old[k]
  BY <1>9, <1>11, <1>12
<1>14. EntriesOf(f) = old /\ old[i].path = x
  BY <1>2, <1>6 DEF old
<1>15. QED
  BY <1>3, <1>5, <1>8, <1>9, <1>11, <1>13, <1>14

(* The catalog has the live entries of the list, and every name that is    *)
(* found through a live entry.                                             *)
LEMMA CatalogOfEntries ==
    ASSUME NEW f, Sound(f)
    PROVE  /\ Catalog(f) \in Seq(Cell)
           /\ \A i \in 1..Len(Catalog(f)) :
                 /\ Catalog(f)[i].path \in Path
                 /\ \E k \in 1..Len(EntriesOf(f)) :
                       Catalog(f)[i].type = EntriesOf(f)[k].type
           /\ \A x, rec : HasLive(EntriesOf(f), x, rec) =>
                 \E i \in 1..Len(Catalog(f)) : Catalog(f)[i].path = x
<1> DEFINE m == f.hdr["totalBins"]
<1>1. Safe(f) /\ ~ f.spilled /\ f \in Image
  BY DEF Sound, Walkable, Safe
<1>2. PICK chain : Walked(f, chain) /\ EntriesOf(f) = Logs(f, chain)
  BY EntriesChain
<1> DEFINE at == LiveAt(f, chain)
           list == EntriesOf(f)
           place == Positions(at, m)
<1>3. m \in Nat /\ Len(list) = m
  BY <1>2, EntriesChain
<1>4. \A k \in 1..m : /\ HasTag(f, SlotAt(chain, k), "entry")
                      /\ list[k] = Logged(f, SlotAt(chain, k))
                      /\ list[k].path = f.cells[SlotAt(chain, k)].path
                      /\ list[k].status = f.cells[SlotAt(chain, k)].status
  BY <1>1, <1>2, LogsFields
<1>5. /\ Catalog(f) \in Seq(Cell)
      /\ Enumerates(place, at, m)
      /\ Len(Catalog(f)) = Len(place)
      /\ \A i \in 1..Len(Catalog(f)) : Catalog(f)[i] = f.cells[SlotAt(chain, place[i])]
  BY <1>1, <1>2, CatalogPlaces
<1>6. at \subseteq 1..m
  BY DEF LiveAt
<1>7. ASSUME NEW k \in 1..m
      PROVE  /\ f.cells[SlotAt(chain, k)].path \in Path
             /\ f.cells[SlotAt(chain, k)].type = list[k].type
  <2> DEFINE slot == SlotAt(chain, k)
             info == f.cells[slot].info
  <2> HIDE DEF m, list, slot
  <2>1. HasTag(f, slot, "entry") /\ list[k] = Logged(f, slot)
    BY <1>4 DEF slot
  <2>2. EntriesLead(f.cells, f.hdr["fileSize"])
    BY <1>1 DEF Safe, Laid
  <2>3. Leads(f.cells, info, f.cells[slot].type, f.hdr["fileSize"])
    BY <2>1, <2>2 DEF EntriesLead, HasTag
  <2>4. /\ HasInfo(f, slot)
        /\ f.cells[info].type = f.cells[slot].type
    BY <2>1, <2>3 DEF Leads, HasInfo, HasTag
  <2>5. list[k].type = f.cells[info].type
    BY <2>1, <2>4 DEF Logged, RecordAt
  <2>6. f.cells[slot].path \in Path
    BY <1>1, <2>1, FoundEntry
  <2>7. QED
    BY <2>4, <2>5, <2>6 DEF slot
<1>8. ASSUME NEW i \in 1..Len(Catalog(f))
      PROVE  /\ Catalog(f)[i].path \in Path
             /\ \E k \in 1..m : Catalog(f)[i].type = list[k].type
  <2> HIDE DEF at, place, m, list
  <2>1. place[i] \in 1..m
    BY <1>5, <1>6 DEF Enumerates
  <2>2. QED
    BY <1>5, <1>7, <2>1
<1>9. ASSUME NEW x, NEW rec, HasLive(list, x, rec)
      PROVE  \E i \in 1..Len(Catalog(f)) : Catalog(f)[i].path = x
  <2>1. PICK k \in 1..m : /\ list[k].path = x
                          /\ list[k].status \in {"PRIMARY", "ALIAS"}
    <3> HIDE DEF list, m
    <3>1. QED
      BY <1>3, <1>9 DEF HasLive
  <2>2. k \in at
    BY <1>4, <2>1 DEF LiveAt
  <2> HIDE DEF at, place, m, list
  <2>3. PICK i \in 1..Len(place) : place[i] = k
    BY <1>5, <2>1, <2>2 DEF Enumerates
  <2>4. QED
    BY <1>4, <1>5, <2>1, <2>3
<1>10. QED
  BY <1>3, <1>5, <1>8, <1>9

-----------------------------------------------------------------------------
(* What is kept is on path.                                                *)

\* No file has had a block allocated by a store.
NothingSpilled == \A i \in Inode : ~ disk[i].img.spilled

\* A file that can be walked and has texts only.
IsTextItem(item) == \E text \in Text : RecordOf(item) = TextRecord(text)
TextFile(f) ==
    /\ Sound(f)
    /\ \A k \in 1..Len(EntriesOf(f)) : IsTextItem(EntriesOf(f)[k])
TextFiles == \A i \in Inode : disk[i].form = "whole" => TextFile(disk[i].img)

KeptNames == {x \in Path : kept[x] # NoRecord}
KeptIn(file, x) == file.form = "whole" /\ HasLive(EntriesOf(file.img), x, kept[x])
KeptThere == \A x \in KeptNames : dir["path"] # 0 /\ KeptIn(disk[dir["path"]], x)

\* A handle that can be used has opened a file with a header.
Opened(h) == Idle(h) => disk[ino[h]].form # "blank"

\* A handle that creates path has found nothing there.
Opening(h) ==
    call[h].op = "open" =>
        /\ KeptNames = {}
        /\ call[h].at \in {"first", "last"} => call[h].fd = dir["path"]

\* Until it has copied all, squeeze has a file, and a list of names of texts ...
Listed(todo) ==
    /\ todo \in Seq(Cell)
    /\ \A i \in 1..Len(todo) : todo[i].path \in Path /\ todo[i].type = TEXT
Ahead(todo, x) == \E i \in 1..Len(todo) : todo[i].path = x
Preparing(h) ==
    \E at \in {"truncate", "first", "last", "attach"} : In(h, "squeeze", at)
Listing(h) ==
    Preparing(h) \/ In(h, "squeeze", "copy") =>
        OnPath(h) /\ disk[ino[h]].form = "whole" /\ Listed(call[h].todo)

\* ... which has every name kept while the new file is created ...
Creating(h) ==
    Preparing(h) =>
        /\ \A x \in KeptNames : Ahead(call[h].todo, x)
        /\ call[h].at \in {"first", "last"} => call[h].fd = dir["tmp"]
        /\ call[h].at = "attach" => disk[dir["tmp"]] = Whole(NewFile)

\* ... and every one that the new file does not have while it is filled, ...
Filling(h) ==
    In(h, "squeeze", "copy") =>
        LET file == disk[call[h].fd]
        IN  /\ call[h].fd = dir["tmp"]
            /\ file.form = "whole" /\ tmpmem[h] = Memory(file)
            /\ \A x \in KeptNames :
                  \/ KeptIn(file, x)
                  \/ NoneOf(EntriesOf(file.img), x) /\ Ahead(call[h].todo, x)

\* ... so that the file that is renamed has them all.
Renaming(h) ==
    In(h, "squeeze", "rename") =>
        /\ dir["tmp"] # 0
        /\ \A x \in KeptNames : KeptIn(disk[dir["tmp"]], x)

\* The inductive invariant.
Keeping(h) ==
    /\ TextFiles /\ KeptThere
    /\ Opened(h) /\ Opening(h)
    /\ Listing(h) /\ Creating(h) /\ Filling(h) /\ Renaming(h)
KeptInv(h) == OnPathInv(h) /\ Keeping(h)

(* A handle that has the header of its file sees its file. *)
LEMMA SeesFile ==
    ASSUME NEW file \in FileState, file.form = "whole"
    PROVE  Behind(file, Memory(file).hdr) = file.img
<1>1. file.img = [hdr |-> file.img.hdr, hash |-> file.img.hash,
                  cells |-> file.img.cells, spilled |-> file.img.spilled]
  BY DEF FileState, Image
<1>2. QED
  BY <1>1 DEF Behind, Memory

(* What the types say of a handle and of the directory. *)
LEMMA TypesGive ==
    ASSUME FilesTypes, NEW h \in Handle
    PROVE  /\ call = [g \in Handle |-> call[g]]
           /\ CallOK(call[h], ino[h])
           /\ dir \in [Name -> {0} \cup Inode]
           /\ ino \in [Handle -> {0} \cup Inode]
           /\ mem \in [Handle -> MemoryState]
           /\ tmpmem \in [Handle -> MemoryState]
           /\ disk \in [Inode -> FileState]
           /\ kept \in [Path -> Record \cup {NoRecord}]
           /\ \A m, n \in Name : dir[m] = dir[n] /\ dir[m] # 0 => m = n
           /\ 0 \notin Inode /\ {"path", "tmp", "null"} = Name
<1>1. 0 \notin Inode /\ {"path", "tmp", "null"} = Name
  BY DEF Inode, Name
<1>2. QED
  BY <1>1 DEF FilesTypes, FilesTypeOK

(* What a step leaves where a name leads or a handle has its file. *)
LEMMA LeavesUsed ==
    ASSUME NEW files \in [Inode -> FileState], Leaving(files), NEW h \in Handle
    PROVE  /\ \A n \in Name : dir'[n] \in Inode => disk'[dir'[n]] = files[dir'[n]]
           /\ ino'[h] \in Inode => disk'[ino'[h]] = files[ino'[h]]
  BY LeavingFiles DEF InUse

(* The files a step leaves have texts only if those it made have. *)
LEMMA LeavesTexts ==
    ASSUME NEW files \in [Inode -> FileState], Leaving(files),
           \A i \in Inode : files[i].form = "whole" => TextFile(files[i].img)
    PROVE  TextFiles'
  BY DEF Leaving, TextFiles, Blank

(* What is on path stays if path leads to the same file, and this is kept. *)
LEMMA ThereStays ==
    ASSUME KeptThere, UNCHANGED kept, dir'["path"] = dir["path"],
           dir["path"] # 0 => disk'[dir["path"]] = disk[dir["path"]]
    PROVE  KeptThere'
  BY DEF KeptThere, KeptNames, KeptIn

(* A new file has no entries. *)
LEMMA NewFileTexts == TextFile(NewFile) /\ \A x : NoneOf(EntriesOf(NewFile), x)
  BY NewEntries DEF TextFile, NoneOf

(* Opening an existing file, closing and beginning to squeeze keep what is *)
(* kept, and squeeze begins with all of it in its list.                    *)
LEMMA CallerKeeps ==
    ASSUME NEW h \in Handle, "open" \notin Faulty, KeptInv(h),
           Open(h) \/ Close(h) \/ SqueezeBegin(h)
    PROVE  Keeping(h)'
<1> USE DEF KeptInv
<1>1. /\ call = [g \in Handle |-> call[g]] /\ CallOK(call[h], ino[h])
      /\ dir \in [Name -> {0} \cup Inode] /\ ino \in [Handle -> {0} \cup Inode]
      /\ mem \in [Handle -> MemoryState] /\ disk \in [Inode -> FileState]
      /\ 0 \notin Inode /\ {"path", "tmp", "null"} = Name
      /\ OnPathInv(h) /\ Keeping(h)
  BY TypesGive DEF OnPathInv
<1>2. CASE Open(h)
  <2>1. UNCHANGED <<dir, disk, kept>> /\ ino[h] = 0 /\ ~ Busy(h)
    BY <1>2 DEF Open
  <2>2. TextFiles' /\ KeptThere'
    BY <1>1, <2>1 DEF Keeping, TextFiles, KeptThere, KeptNames, KeptIn
  <2>3. CASE UNCHANGED call /\ Opens("path") /\ Holds(h, dir["path"], Memory(disk[dir["path"]]))
    <3>1. call'[h].op = "none" /\ ino'[h] = dir["path"]
      BY <1>1, <2>1, <2>3 DEF Busy, Holds
    <3>2. Opened(h)'
      BY <2>1, <2>3, <3>1 DEF Opened, Opens
    <3>3. QED
      BY <2>2, <3>1, <3>2
      DEF Keeping, Opening, Listing, Creating, Filling, Renaming, Preparing, In
  <2>4. CASE ~ Opens("path") /\ call' = [call EXCEPT ![h] = Call("open", "truncate", 0, << >>)]
    <3>1. call'[h].op = "open" /\ call'[h].at = "truncate"
      BY <1>1, <2>4 DEF Call
    <3>2. KeptNames' = {}
      BY <1>1, <2>1, <2>4 DEF Keeping, KeptThere, KeptNames, KeptIn, Opens
    <3>3. QED
      BY <2>2, <3>1, <3>2
      DEF Keeping, Opened, Idle, Busy, Opening, Listing, Creating, Filling, Renaming, Preparing, In
  <2>5. QED
    BY <1>2, <2>3, <2>4 DEF Open
<1>3. CASE Close(h)
  <2>1. /\ Leaving(disk) /\ UNCHANGED <<dir, kept, call>> /\ ino'[h] = 0
        /\ call[h].op = "none"
    BY <1>1, <1>3 DEF Close, Closed, Holds, Idle, Busy
  <2>2. TextFiles'
    BY <1>1, <2>1, LeavesTexts DEF Keeping, TextFiles
  <2>3. dir["path"] # 0 => disk'[dir["path"]] = disk[dir["path"]]
    BY <1>1, <2>1, LeavesUsed
  <2>4. KeptThere'
    BY <1>1, <2>1, <2>3, ThereStays DEF Keeping
  <2>5. QED
    BY <2>1, <2>2, <2>4
    DEF Keeping, Opened, Idle, Opening, Listing, Creating, Filling, Renaming, Preparing, In
<1>4. CASE SqueezeBegin(h)
  <2> DEFINE i == ino[h]
             f == disk[i].img
             todo == Catalog(f)
  <2>1. i \in Inode /\ i = dir["path"] /\ mem[h] = Memory(disk[i]) /\ disk[i].form # "blank"
        /\ disk[i] \in FileState
    BY <1>1, <1>4 DEF SqueezeBegin, Idle, OnPathInv, OnPath, Keeping, Opened
  <2>2. disk[i].form = "whole"
    <3>1. Memory(disk[i]).half <=> disk[i].form = "half"
      BY DEF Memory
    <3>2. ~ mem[h].half
      BY <1>4 DEF SqueezeBegin
    <3>3. disk[i].form \in {"blank", "half", "whole"}
      BY <2>1 DEF FileState
    <3>4. QED
      BY <2>1, <3>1, <3>2, <3>3
  <2>3. View(h) = f
    BY <2>1, <2>2, SeesFile DEF View
  <2>4. /\ call' = [call EXCEPT ![h] = Call("squeeze", "truncate", 0, todo)]
        /\ UNCHANGED <<dir, disk, ino, mem, faults, kept, tmpmem>>
    BY <1>4, <2>3 DEF SqueezeBegin
  <2>5. TextFile(f)
    BY <1>1, <2>1, <2>2 DEF Keeping, TextFiles
  <2> HIDE DEF f
  <2>6. /\ todo \in Seq(Cell)
        /\ \A k \in 1..Len(todo) :
              /\ todo[k].path \in Path
              /\ \E j \in 1..Len(EntriesOf(f)) : todo[k].type = EntriesOf(f)[j].type
        /\ \A x, rec : HasLive(EntriesOf(f), x, rec) =>
              \E k \in 1..Len(todo) : todo[k].path = x
    BY <2>5, CatalogOfEntries DEF TextFile
  <2>7. \A j \in 1..Len(EntriesOf(f)) : EntriesOf(f)[j].type = TEXT
    BY <2>5 DEF TextFile, IsTextItem, RecordOf, TextRecord
  <2> HIDE DEF todo
  <2>8. Listed(todo)
    BY <2>6, <2>7 DEF Listed
  <2>9. \A x \in KeptNames : Ahead(todo, x)
    BY <1>1, <2>1, <2>6 DEF Keeping, KeptThere, KeptIn, Ahead, f
  <2>10. call'[h].op = "squeeze" /\ call'[h].at = "truncate" /\ call'[h].todo = todo
    BY <1>1, <2>4 DEF Call
  <2>11. TextFiles' /\ KeptThere' /\ KeptNames' = KeptNames
    BY <1>1, <2>4 DEF Keeping, TextFiles, KeptThere, KeptNames, KeptIn
  <2>12. Listing(h)'
    BY <2>1, <2>2, <2>4, <2>8, <2>10 DEF Listing, OnPath
  <2>13. Creating(h)'
    BY <2>9, <2>10, <2>11 DEF Creating
  <2>14. QED
    BY <2>10, <2>11, <2>12, <2>13
    DEF Keeping, Opened, Idle, Busy, Opening, Filling, Renaming, Preparing, In
<1>5. QED
  BY <1>2, <1>3, <1>4

(* The steps of create keep it: path is created only where nothing was.    *)
LEMMA CreateKeeps ==
    ASSUME NEW h \in Handle, KeptInv(h),
           CreateTruncate(h) \/ CreateFirst(h) \/ CreateLast(h) \/ CreateAttach(h)
    PROVE  Keeping(h)'
<1> USE DEF KeptInv
<1>1. /\ call = [g \in Handle |-> call[g]] /\ CallOK(call[h], ino[h])
      /\ dir \in [Name -> {0} \cup Inode] /\ ino \in [Handle -> {0} \cup Inode]
      /\ mem \in [Handle -> MemoryState] /\ disk \in [Inode -> FileState]
      /\ tmpmem \in [Handle -> MemoryState]
      /\ \A m, n \in Name : dir[m] = dir[n] /\ dir[m] # 0 => m = n
      /\ 0 \notin Inode /\ {"path", "tmp", "null"} = Name
      /\ OnPathInv(h) /\ Keeping(h)
  BY TypesGive DEF OnPathInv
<1>2. /\ call[h].op = "open" => KeptNames = {}
      /\ call[h].op \in {"open", "squeeze"} \/ call[h].at = "none"
  BY <1>1 DEF Keeping, Opening, CallOK
<1>3. CASE CreateTruncate(h)
  <2> DEFINE i == Created(Target(h))
             files == [disk EXCEPT ![i] = Blank]
  <2>1. /\ dir' = [dir EXCEPT ![Target(h)] = i]
        /\ call' = [call EXCEPT ![h] = Call(call[h].op, "first", i, call[h].todo)]
        /\ call[h].at = "truncate"
        /\ UNCHANGED <<ino, mem, faults, kept, tmpmem>>
        /\ Leaving(files)
    BY <1>3 DEF CreateTruncate
  <2>2. /\ i \in Inode /\ Target(h) \in Name
        /\ \A n \in Name : n # Target(h) => dir[n] # i
    <3>1. Target(h) \in Name
      BY <1>1 DEF Target
    <3>2. QED
      BY <1>1, <3>1, CreatedInode DEF OnPathInv
  <2> HIDE DEF i
  <2>3. /\ files \in [Inode -> FileState]
        /\ \A j \in Inode : files[j].form = "whole" => TextFile(files[j].img)
        /\ \A j \in Inode : j # i => files[j] = disk[j]
    BY <1>1, StateParts DEF Keeping, TextFiles, Blank
  <2> HIDE DEF files
  <2>4. TextFiles'
    BY <2>1, <2>3, LeavesTexts
  <2>5. call'[h].op = call[h].op /\ call'[h].at = "first" /\ call'[h].fd = i
        /\ call'[h].todo = call[h].todo /\ KeptNames' = KeptNames
    BY <1>1, <2>1 DEF Call, KeptNames
  <2>6. CASE call[h].op = "open"
    <3>1. KeptThere'
      BY <1>2, <2>5, <2>6 DEF KeptThere
    <3>2. dir'["path"] = i
      BY <1>1, <2>1, <2>6 DEF Target
    <3>3. Opening(h)'
      BY <1>2, <2>5, <2>6, <3>2 DEF Opening
    <3>4. QED
      BY <2>4, <2>5, <2>6, <3>1, <3>3
      DEF Keeping, Opened, Idle, Busy, Listing, Creating, Filling, Renaming, Preparing, In
  <2>7. CASE call[h].op = "squeeze"
    <3>1. /\ dir'["path"] = dir["path"] /\ dir'["tmp"] = i /\ dir["path"] # i
          /\ dir'["path"] \in {0} \cup Inode
      BY <1>1, <2>1, <2>2, <2>7 DEF Target
    <3>2. dir["path"] # 0 => disk'[dir["path"]] = disk[dir["path"]]
      BY <1>1, <2>1, <2>3, <3>1, LeavesUsed
    <3>3. KeptThere'
      BY <1>1, <2>1, <3>1, <3>2, ThereStays DEF Keeping
    <3>4. OnPath(h) /\ disk[ino[h]].form = "whole" /\ Listed(call[h].todo)
      BY <1>1, <2>1, <2>7 DEF Keeping, Listing, Preparing, In
    <3>5. ino[h] # 0 /\ disk'[ino[h]] = disk[ino[h]]
      BY <1>1, <2>7, <3>2, <3>4 DEF OnPath, CallOK
    <3>6. Listing(h)'
      BY <2>1, <2>5, <3>1, <3>4, <3>5 DEF Listing, OnPath
    <3>7. Creating(h)'
      BY <1>1, <2>1, <2>5, <2>7, <3>1 DEF Keeping, Creating, Preparing, In
    <3>8. QED
      BY <2>4, <2>5, <2>7, <3>3, <3>6, <3>7
      DEF Keeping, Opened, Idle, Busy, Opening, Filling, Renaming, Preparing, In
  <2>8. QED
    BY <1>2, <2>1, <2>6, <2>7
<1>4. CASE CreateFirst(h) \/ CreateLast(h)
  <2> DEFINE fd == call[h].fd
             new == disk'[fd]
  <2>1. /\ \/ /\ call[h].at = "first" /\ disk' = [disk EXCEPT ![fd] = Half]
              /\ call' = [call EXCEPT ![h] = Call(call[h].op, "last", fd, call[h].todo)]
           \/ /\ call[h].at = "last" /\ disk' = [disk EXCEPT ![fd] = Whole(NewFile)]
              /\ call' = [call EXCEPT ![h] = Call(call[h].op, "attach", fd, call[h].todo)]
        /\ UNCHANGED <<dir, ino, mem, faults, kept, tmpmem>>
    BY <1>4 DEF CreateFirst, CreateLast, GoTo
  <2>2. fd \in Inode
    BY <1>1, <2>1 DEF CallOK
  <2>3. TextFiles'
    BY <1>1, <2>1, <2>2, NewFileTexts DEF Keeping, TextFiles, Half, Whole
  <2>4. /\ call'[h].op = call[h].op /\ call'[h].at \in {"last", "attach"}
        /\ call'[h].fd = fd /\ call'[h].todo = call[h].todo /\ KeptNames' = KeptNames
        /\ call'[h].at = "attach" => disk'[fd] = Whole(NewFile)
    BY <1>1, <2>1, <2>2 DEF Call, KeptNames
  <2>5. CASE call[h].op = "open"
    <3>1. KeptThere'
      BY <1>2, <2>4, <2>5 DEF KeptThere
    <3>2. Opening(h)'
      BY <1>1, <1>2, <2>1, <2>4, <2>5 DEF Keeping, Opening
    <3>3. QED
      BY <2>3, <2>4, <2>5, <3>1, <3>2
      DEF Keeping, Opened, Idle, Busy, Listing, Creating, Filling, Renaming, Preparing, In
  <2>6. CASE call[h].op = "squeeze"
    <3>1. fd = dir["tmp"] /\ dir["path"] # fd
      BY <1>1, <2>1, <2>2, <2>6 DEF Keeping, Creating, Preparing, In
    <3>2. dir["path"] # 0 => disk'[dir["path"]] = disk[dir["path"]]
      BY <1>1, <2>1, <2>2, <3>1
    <3>3. KeptThere'
      BY <1>1, <2>1, <3>2, ThereStays DEF Keeping
    <3>4. OnPath(h) /\ disk[ino[h]].form = "whole" /\ Listed(call[h].todo)
      BY <1>1, <2>1, <2>6 DEF Keeping, Listing, Preparing, In
    <3>5. ino[h] # 0 /\ disk'[ino[h]] = disk[ino[h]]
      BY <1>1, <2>6, <3>2, <3>4 DEF OnPath, CallOK
    <3>6. Listing(h)'
      BY <2>1, <2>4, <3>4, <3>5 DEF Listing, OnPath
    <3>7. \A x \in KeptNames : Ahead(call[h].todo, x)
      BY <1>1, <2>1, <2>6 DEF Keeping, Creating, Preparing, In
    <3>8. Creating(h)'
      BY <2>1, <2>4, <3>1, <3>7 DEF Creating
    <3>9. QED
      BY <2>3, <2>4, <2>6, <3>3, <3>6, <3>8
      DEF Keeping, Opened, Idle, Busy, Opening, Filling, Renaming, Preparing, In
  <2>7. QED
    BY <1>2, <2>1, <2>5, <2>6
<1>5. CASE CreateAttach(h)
  <2> DEFINE i == dir[Target(h)]
  <2>1. /\ call[h].at = "attach" /\ i # 0 /\ disk[i].form # "blank"
        /\ \/ /\ call[h].op = "open"
              /\ ino' = [ino EXCEPT ![h] = i]
              /\ call' = [call EXCEPT ![h] = NoCall]
           \/ /\ call[h].op = "squeeze"
              /\ call' = [call EXCEPT ![h] = Call(call[h].op, "copy", i, call[h].todo)]
              /\ tmpmem' = [tmpmem EXCEPT ![h] = Memory(disk[i])]
              /\ UNCHANGED <<ino, mem>>
        /\ UNCHANGED <<dir, faults, kept>>
        /\ Leaving(disk)
    BY <1>5 DEF CreateAttach, Opens, Holds
  <2>2. i \in Inode /\ Target(h) \in Name
    BY <1>1, <2>1 DEF Target
  <2>3. disk'[i] = disk[i] /\ (dir["path"] # 0 => disk'[dir["path"]] = disk[dir["path"]])
    BY <1>1, <2>1, <2>2, LeavesUsed
  <2>4. TextFiles' /\ KeptNames' = KeptNames
    BY <1>1, <2>1, LeavesTexts DEF Keeping, TextFiles, KeptNames
  <2>5. KeptThere'
    BY <1>1, <2>1, <2>3, ThereStays DEF Keeping
  <2>6. CASE call[h].op = "open"
    <3>1. call'[h].op = "none" /\ ino'[h] = i
      BY <1>1, <2>1, <2>6 DEF NoCall, Call
    <3>2. Opened(h)'
      BY <2>1, <2>3, <3>1 DEF Opened
    <3>3. QED
      BY <2>4, <2>5, <3>1, <3>2
      DEF Keeping, Opening, Listing, Creating, Filling, Renaming, Preparing, In
  <2>7. CASE call[h].op = "squeeze"
    <3>1. /\ i = dir["tmp"] /\ disk[i] = Whole(NewFile)
          /\ \A x \in KeptNames : Ahead(call[h].todo, x)
      BY <1>1, <2>1, <2>7 DEF Keeping, Creating, Preparing, In, Target
    <3>2. OnPath(h) /\ disk[ino[h]].form = "whole" /\ Listed(call[h].todo)
      BY <1>1, <2>1, <2>7 DEF Keeping, Listing, Preparing, In
    <3>3. ino[h] # 0 /\ disk'[ino[h]] = disk[ino[h]]
      BY <1>1, <2>3, <2>7, <3>2 DEF OnPath, CallOK
    <3> HIDE DEF i
    <3>4. /\ call'[h].op = "squeeze" /\ call'[h].at = "copy"
          /\ call'[h].fd = i /\ call'[h].todo = call[h].todo
          /\ tmpmem'[h] = Memory(disk[i]) /\ UNCHANGED <<ino, mem, dir>>
      BY <1>1, <2>1, <2>7 DEF Call
    <3>5. Listing(h)'
      BY <3>2, <3>3, <3>4 DEF Listing, OnPath
    <3>6. \A x : NoneOf(EntriesOf(Whole(NewFile).img), x)
      BY NewFileTexts DEF Whole
    <3>7. Whole(NewFile).form = "whole"
      BY DEF Whole
    <3>8. Filling(h)'
      BY <2>3, <2>4, <3>1, <3>4, <3>6, <3>7 DEF Filling
    <3>9. QED
      BY <2>4, <2>5, <3>4, <3>5, <3>8
      DEF Keeping, Opened, Idle, Busy, Opening, Creating, Renaming, Preparing, In
  <2>8. QED
    BY <2>1, <2>6, <2>7
<1>6. QED
  BY <1>3, <1>4, <1>5

(* Replacing the file keeps it: the new one is complete, and there is no   *)
(* moment without one.  Ending a call keeps it, wherever it ends.          *)
LEMMA ReplaceKeeps ==
    ASSUME NEW h \in Handle, Careful, KeptInv(h),
           \/ SqueezeNull(h) \/ SqueezeRename(h) \/ SqueezeUnlink(h)
           \/ SqueezeReopen(h) \/ Error(h) \/ Crash(h)
    PROVE  Keeping(h)'
<1> USE DEF KeptInv
<1>1. /\ call = [g \in Handle |-> call[g]] /\ CallOK(call[h], ino[h])
      /\ dir \in [Name -> {0} \cup Inode] /\ ino \in [Handle -> {0} \cup Inode]
      /\ mem \in [Handle -> MemoryState] /\ disk \in [Inode -> FileState]
      /\ \A m, n \in Name : dir[m] = dir[n] /\ dir[m] # 0 => m = n
      /\ 0 \notin Inode /\ {"path", "tmp", "null"} = Name
      /\ OnPathInv(h) /\ Keeping(h)
  BY TypesGive DEF OnPathInv
<1>2. CASE SqueezeNull(h)
  <2> DEFINE i == Created("null")
             files == [disk EXCEPT ![i] = Blank]
  <2>1. /\ In(h, "squeeze", "copy") /\ call[h].todo = << >>
        /\ dir' = [dir EXCEPT !["null"] = i]
        /\ call' = [call EXCEPT ![h] = Call(call[h].op, "rename", 0, call[h].todo)]
        /\ UNCHANGED <<mem, faults, kept>>
        /\ Leaving(files)
    BY <1>2 DEF SqueezeNull
  <2>2. i \in Inode /\ \A n \in Name : n # "null" => dir[n] # i
    BY <1>1, CreatedInode DEF OnPathInv
  <2> HIDE DEF i
  <2>3. /\ files \in [Inode -> FileState]
        /\ \A j \in Inode : files[j].form = "whole" => TextFile(files[j].img)
        /\ \A j \in Inode : j # i => files[j] = disk[j]
    BY <1>1, StateParts DEF Keeping, TextFiles, Blank
  <2> HIDE DEF files
  <2>4. TextFiles' /\ KeptNames' = KeptNames
    BY <2>1, <2>3, LeavesTexts DEF KeptNames
  <2>5. /\ dir'["path"] = dir["path"] /\ dir'["tmp"] = dir["tmp"]
        /\ dir["path"] # i /\ dir["tmp"] # i
    BY <1>1, <2>1, <2>2
  <2>6. /\ dir["path"] # 0 => disk'[dir["path"]] = disk[dir["path"]]
        /\ dir["tmp"] # 0 => disk'[dir["tmp"]] = disk[dir["tmp"]]
    BY <1>1, <2>1, <2>3, <2>5, LeavesUsed
  <2>7. KeptThere'
    BY <1>1, <2>1, <2>5, <2>6, ThereStays DEF Keeping
  <2>8. /\ dir["tmp"] # 0
        /\ \A x \in KeptNames : KeptIn(disk[dir["tmp"]], x)
    <3>1. /\ call[h].fd = dir["tmp"]
          /\ \A x \in KeptNames :
                KeptIn(disk[call[h].fd], x) \/ Ahead(call[h].todo, x)
      BY <1>1, <2>1 DEF Keeping, Filling
    <3>2. \A x : ~ Ahead(call[h].todo, x)
      BY <2>1 DEF Ahead
    <3>3. call[h].fd # 0
      BY <1>1, <2>1 DEF CallOK, In
    <3>4. QED
      BY <3>1, <3>2, <3>3
  <2>9. call'[h].op = "squeeze" /\ call'[h].at = "rename"
    BY <1>1, <2>1 DEF Call, In
  <2>10. Renaming(h)'
    BY <2>1, <2>4, <2>5, <2>6, <2>8 DEF Renaming, KeptIn
  <2>11. QED
    BY <2>4, <2>7, <2>9, <2>10
    DEF Keeping, Opened, Idle, Busy, Opening, Listing, Creating, Filling, Preparing, In
<1>3. CASE SqueezeRename(h)
  <2>1. /\ In(h, "squeeze", "rename") /\ dir["tmp"] # 0
        /\ dir' = [dir EXCEPT !["path"] = dir["tmp"], !["tmp"] = 0]
        /\ call' = [call EXCEPT ![h] = Call(call[h].op, "unlink", call[h].fd, call[h].todo)]
        /\ UNCHANGED <<ino, mem, faults, kept, tmpmem>>
        /\ Leaving(disk)
    BY <1>3 DEF SqueezeRename, GoTo
  <2>2. TextFiles' /\ KeptNames' = KeptNames
    BY <1>1, <2>1, LeavesTexts DEF Keeping, TextFiles, KeptNames
  <2>3. dir'["path"] = dir["tmp"] /\ dir["tmp"] \in Inode
    BY <1>1, <2>1
  <2>4. disk'[dir["tmp"]] = disk[dir["tmp"]]
    BY <1>1, <2>1, <2>3, LeavesUsed
  <2>5. \A x \in KeptNames : KeptIn(disk[dir["tmp"]], x)
    BY <1>1, <2>1 DEF Keeping, Renaming
  <2>6. KeptThere'
    BY <2>1, <2>2, <2>3, <2>4, <2>5 DEF KeptThere, KeptIn
  <2>7. call'[h].op = "squeeze" /\ call'[h].at = "unlink"
    BY <1>1, <2>1 DEF Call, In
  <2>8. QED
    BY <2>2, <2>6, <2>7
    DEF Keeping, Opened, Idle, Busy, Opening, Listing, Creating, Filling,
        Renaming, Preparing, In
<1>4. CASE SqueezeUnlink(h)
  <2>1. /\ In(h, "squeeze", "unlink")
        /\ dir' = [dir EXCEPT !["null"] = 0] \/ UNCHANGED dir
        /\ call' = [call EXCEPT ![h] = Call(call[h].op, "reopen", call[h].fd, call[h].todo)]
        /\ UNCHANGED <<ino, mem, kept, tmpmem>>
        /\ Leaving(disk)
    BY <1>4 DEF SqueezeUnlink, GoTo
  <2>2. TextFiles'
    BY <1>1, <2>1, LeavesTexts DEF Keeping, TextFiles
  <2>3. dir'["path"] = dir["path"]
    BY <1>1, <2>1
  <2>4. dir["path"] # 0 => disk'[dir["path"]] = disk[dir["path"]]
    BY <1>1, <2>1, <2>3, LeavesUsed
  <2>5. KeptThere'
    BY <1>1, <2>1, <2>3, <2>4, ThereStays DEF Keeping
  <2>6. call'[h].op = "squeeze" /\ call'[h].at = "reopen"
    BY <1>1, <2>1 DEF Call, In
  <2>7. QED
    BY <2>2, <2>5, <2>6
    DEF Keeping, Opened, Idle, Busy, Opening, Listing, Creating, Filling,
        Renaming, Preparing, In
<1>5. CASE SqueezeReopen(h) \/ Error(h) \/ Crash(h)
  <2> DEFINE i == dir["path"]
  <2>1. /\ call' = [call EXCEPT ![h] = NoCall]
        /\ UNCHANGED <<dir, kept>> /\ Leaving(disk)
        /\ \/ /\ ino' = [ino EXCEPT ![h] = i] /\ i # 0 /\ disk[i].form # "blank"
           \/ call[h].op = "open" /\ UNCHANGED ino
           \/ ino' = [ino EXCEPT ![h] = 0]
    BY <1>1, <1>5 DEF SqueezeReopen, Opens, Error, Crash, Returns, Closed,
                      Holds, Busy, CallOK
  <2>2. TextFiles'
    BY <1>1, <2>1, LeavesTexts DEF Keeping, TextFiles
  <2>3. i # 0 => disk'[i] = disk[i]
    BY <1>1, <2>1, LeavesUsed
  <2>4. KeptThere'
    BY <1>1, <2>1, <2>3, ThereStays DEF Keeping
  <2>5. call'[h].op = "none"
    BY <1>1, <2>1 DEF NoCall, Call
  <2>6. Opened(h)'
    BY <1>1, <2>1, <2>3 DEF Opened, Idle, OnPathInv
  <2>7. QED
    BY <2>2, <2>4, <2>5, <2>6
    DEF Keeping, Opening, Listing, Creating, Filling, Renaming, Preparing, In
<1>6. QED
  BY <1>2, <1>3, <1>4, <1>5

(* What a store makes of a file with texts, through its own header: a file *)
(* with one text more, behind all the others, or nothing that is found.    *)
LEMMA StoredTexts ==
    ASSUME NEW f, TextFile(f), NEW path \in Path, NEW text \in Text,
           NEW rec, rec = TextRecord(text),
           NEW g, g = StoreRecord(f, path, rec), ~ g.spilled
    PROVE  /\ TextFile(g)
           /\ EntriesOf(g) = Append(EntriesOf(f), ItemOf(path, rec, "PRIMARY"))
           /\ \A x, r : HasLive(EntriesOf(f), x, r) => HasLive(EntriesOf(g), x, r)
<1>1. rec \in Record
  BY FilesAssumption, RecordTypes DEF Payload
<1> DEFINE item == ItemOf(path, rec, "PRIMARY")
           old == EntriesOf(f)
           list == EntriesOf(g)
<1>2. Sound(f) /\ Sound(g) /\ list = Append(old, item)
  BY <1>1, StoredEntries DEF TextFile
<1>3. /\ Len(list) = Len(old) + 1 /\ list[Len(old) + 1] = item
      /\ \A k \in 1..Len(old) : list[k] = old[k]
      /\ Len(old) \in Nat
  BY <1>2, AppendedEntry, EntriesChain
<1>4. IsTextItem(item)
  BY DEF IsTextItem, ItemOf, RecordOf, TextRecord
<1>5. \A k \in 1..Len(old) : IsTextItem(old[k])
  BY DEF TextFile
<1>6. \A x, r : HasLive(old, x, r) => HasLive(list, x, r)
  BY <1>2, LiveIsKept
<1> HIDE DEF item, old, list
<1>7. \A k \in 1..Len(list) : IsTextItem(list[k])
  BY <1>3, <1>4, <1>5
<1>8. QED
  BY <1>2, <1>6, <1>7 DEF TextFile, item, old, list

(* A store keeps what is kept and what it stored if it is found.           *)
LEMMA StoreKeeps ==
    ASSUME NEW h \in Handle, Careful, KeptInv(h), NothingSpilled',
           NEW path \in Path, NEW text \in Text, Store(h, path, text)
    PROVE  Keeping(h)'
<1> USE DEF KeptInv
<1>1. /\ call = [g \in Handle |-> call[g]] /\ CallOK(call[h], ino[h])
      /\ dir \in [Name -> {0} \cup Inode] /\ ino \in [Handle -> {0} \cup Inode]
      /\ disk \in [Inode -> FileState] /\ mem \in [Handle -> MemoryState]
      /\ kept \in [Path -> Record \cup {NoRecord}]
      /\ 0 \notin Inode /\ {"path", "tmp", "null"} = Name
      /\ OnPathInv(h) /\ Keeping(h)
  BY TypesGive DEF OnPathInv
<1> DEFINE i == ino[h]
           rec == TextRecord(text)
<1>2. PICK out \in StoreOutcomes(disk[i], mem[h], path, rec) :
        /\ IF out.ok \/ ~ Careful THEN Holds(h, i, out.mem) ELSE Closed(h)
        /\ kept' = [kept EXCEPT ![path] =
                       IF out.ok /\ i = dir["path"] /\ FoundThroughLast(out.file, path)
                       THEN rec ELSE kept[path]]
        /\ UNCHANGED <<dir, call, faults, tmpmem>>
        /\ Leaving([disk EXCEPT ![i] = out.file])
  BY DEF Store
<1>3. i \in Inode /\ i = dir["path"] /\ mem[h] = Memory(disk[i])
      /\ call[h].op = "none" /\ disk[i].form # "blank" /\ disk[i] \in FileState
  BY <1>1 DEF Store, Idle, Busy, OnPathInv, OnPath, Keeping, Opened
<1>4. rec \in Record
  BY FilesAssumption, RecordTypes DEF Payload
<1> DEFINE files == [disk EXCEPT ![i] = out.file]
<1>5. disk'[i] = out.file /\ files \in [Inode -> FileState] /\ Leaving(files)
  <2>1. out.file \in FileState
    BY <1>1, <1>3, <1>4, StoreOutcomeType
  <2> HIDE DEF rec
  <2>2. files \in [Inode -> FileState] /\ files[i] = out.file /\ Leaving(files)
    BY <1>1, <1>2, <1>3, <2>1
  <2>3. dir'["path"] = i /\ "path" \in Name
    BY <1>1, <1>2, <1>3
  <2> HIDE DEF files
  <2>4. QED
    BY <1>3, <2>2, <2>3, LeavesUsed
<1>6. /\ out.ok => ino'[h] = i /\ out.file.form # "blank"
      /\ ~ out.ok => ino'[h] = 0
      /\ dir'["path"] = i /\ call'[h].op = "none"
  <2>1. out.ok => out.file.form # "blank"
    <3>1. CASE mem[h].half
      BY <1>2, <3>1 DEF StoreOutcomes, Half, Blank
    <3>2. CASE ~ mem[h].half
      BY <1>2, <3>2 DEF StoreOutcomes, Whole
    <3>3. QED
      BY <3>1, <3>2
  <2> HIDE DEF rec
  <2>2. QED
    BY <1>1, <1>2, <1>3, <2>1 DEF Holds, Closed
<1>7. Opened(h)'
  BY <1>1, <1>5, <1>6 DEF Opened, Idle
<1>8. SUFFICES TextFiles' /\ KeptThere'
  BY <1>6, <1>7
  DEF Keeping, Opening, Listing, Creating, Filling, Renaming, Preparing, In
<1>9. CASE mem[h].half
  <2>1. disk[i].form # "whole"
    <3>1. Memory(disk[i]).half <=> disk[i].form = "half"
      BY DEF Memory
    <3>2. QED
      BY <1>3, <1>9, <3>1
  <2>2. KeptNames = {}
    BY <1>1, <1>3, <2>1 DEF Keeping, KeptThere, KeptIn
  <2>3. out.file \in {Half, Blank}
    BY <1>9 DEF StoreOutcomes
  <2>4. ~ FoundThroughLast(out.file, path)
    BY <2>3 DEF FoundThroughLast, Half, Blank
  <2> HIDE DEF rec
  <2>5. kept' = kept
    BY <1>1, <1>2, <2>4
  <2>6. \A j \in Inode : files[j].form = "whole" => TextFile(files[j].img)
    BY <1>1, <1>3, <2>3 DEF Keeping, TextFiles, Half, Blank
  <2> HIDE DEF files
  <2>7. TextFiles'
    BY <1>5, <2>6, LeavesTexts
  <2>8. QED
    BY <2>2, <2>5, <2>7 DEF KeptThere, KeptNames
<1>10. CASE ~ mem[h].half
  <2> DEFINE f == disk[i].img
             g == StoreRecord(f, path, rec)
  <2>1. disk[i].form = "whole"
    <3>1. Memory(disk[i]).half <=> disk[i].form = "half"
      BY DEF Memory
    <3>2. QED
      BY <1>3, <1>10, <3>1 DEF FileState
  <2>2. Behind(disk[i], mem[h].hdr) = f
    BY <1>3, <2>1, SeesFile
  <2>3. out.file = Whole(g) /\ out.ok
    BY <1>10, <2>2 DEF StoreOutcomes
  <2>4. TextFile(f) /\ out.file.img = g /\ out.file.form = "whole"
    BY <1>1, <1>3, <2>1, <2>3 DEF Keeping, TextFiles, Whole
  <2>5. ~ g.spilled
    BY <1>3, <1>5, <2>4 DEF NothingSpilled
  <2> HIDE DEF f
  <2>6. /\ TextFile(g) /\ rec = TextRecord(text)
        /\ EntriesOf(g) = Append(EntriesOf(f), ItemOf(path, rec, "PRIMARY"))
        /\ \A x, r : HasLive(EntriesOf(f), x, r) => HasLive(EntriesOf(g), x, r)
    BY <2>4, <2>5, StoredTexts
  <2>7. TextFiles'
    <3> HIDE DEF rec, g
    <3>1. \A j \in Inode : files[j].form = "whole" => TextFile(files[j].img)
      BY <1>1, <1>3, <2>4, <2>6 DEF Keeping, TextFiles
    <3> HIDE DEF files
    <3>2. QED
      BY <1>5, <3>1, LeavesTexts
  <2>8. FoundThroughLast(out.file, path) => HasLive(EntriesOf(g), path, rec)
    <3>1. SUFFICES ASSUME FindRecord(g, path) = g.hdr["nextBin"] - BinSize
                   PROVE  HasLive(EntriesOf(g), path, rec)
      BY <2>4 DEF FoundThroughLast
    <3> DEFINE n == Len(EntriesOf(f))
               list == EntriesOf(g)
               item == ItemOf(path, rec, "PRIMARY")
    <3>2. FirstFor(list, n + 1, path)
      BY <1>4, <2>4, <2>5, <3>1, FoundLast DEF TextFile
    <3>3. Len(list) = n + 1 /\ list[n + 1] = item /\ n \in Nat
      BY <2>4, <2>6, AppendedEntry, EntriesChain DEF TextFile
    <3>4. item.path = path /\ item.status = "PRIMARY" /\ RecordOf(item) = rec
      BY DEF ItemOf, RecordOf, TextRecord
    <3> HIDE DEF n, list, item, g, rec
    <3>5. HasLive(list, path, rec)
      BY <3>2, <3>3, <3>4 DEF HasLive
    <3>6. QED
      BY <3>5 DEF list
  <2> HIDE DEF g, rec
  <2>9. ASSUME NEW x \in Path, kept'[x] # NoRecord
        PROVE  HasLive(EntriesOf(g), x, kept'[x])
    <3>1. CASE kept'[x] = kept[x]
      <4>1. HasLive(EntriesOf(f), x, kept[x])
        BY <1>1, <1>3, <2>9, <3>1 DEF Keeping, KeptThere, KeptNames, KeptIn, f
      <4>2. QED
        BY <2>6, <3>1, <4>1
    <3>2. CASE kept'[x] # kept[x]
      <4>1. x = path /\ kept'[x] = rec /\ FoundThroughLast(out.file, path)
        BY <1>1, <1>2, <3>2
      <4>2. QED
        BY <2>8, <4>1
    <3>3. QED
      BY <3>1, <3>2
  <2>10. KeptThere'
    BY <1>1, <1>3, <1>5, <1>6, <2>4, <2>9 DEF KeptThere, KeptNames, KeptIn
  <2>11. QED
    BY <2>7, <2>10
<1>11. QED
  BY <1>9, <1>10

(* A delete keeps every other name.                                        *)
LEMMA DeleteKeeps ==
    ASSUME NEW h \in Handle, KeptInv(h), NEW path \in Path, Delete(h, path)
    PROVE  Keeping(h)'
<1> USE DEF KeptInv
<1>1. /\ call = [g \in Handle |-> call[g]] /\ CallOK(call[h], ino[h])
      /\ dir \in [Name -> {0} \cup Inode] /\ ino \in [Handle -> {0} \cup Inode]
      /\ disk \in [Inode -> FileState] /\ mem \in [Handle -> MemoryState]
      /\ kept \in [Path -> Record \cup {NoRecord}]
      /\ OnPathInv(h) /\ Keeping(h) /\ 0 \notin Inode
  BY TypesGive DEF OnPathInv
<1> DEFINE i == ino[h]
           f == disk[i].img
           slot == FindRecord(f, path)
           g == Count(SetStatus(f, slot, "DELETED"), "numberDeletes")
<1>2. i \in Inode /\ i = dir["path"] /\ mem[h] = Memory(disk[i])
      /\ call[h].op = "none" /\ disk[i].form # "blank" /\ disk[i] \in FileState
      /\ ~ mem[h].half
  BY <1>1 DEF Delete, Idle, Busy, OnPathInv, OnPath, Keeping, Opened
<1>3. disk[i].form = "whole"
  <2>1. Memory(disk[i]).half <=> disk[i].form = "half"
    BY DEF Memory
  <2>2. QED
    BY <1>2, <2>1 DEF FileState
<1>4. View(h) = f
  BY <1>2, <1>3, SeesFile DEF View
<1>5. /\ slot # 0
      /\ disk' = [disk EXCEPT ![i] = Whole(g)]
      /\ kept' = [kept EXCEPT ![path] = NoRecord]
      /\ UNCHANGED <<dir, ino, call, faults, tmpmem>>
  BY <1>2, <1>4 DEF Delete
<1>6. TextFile(f)
  BY <1>1, <1>2, <1>3 DEF Keeping, TextFiles
<1> HIDE DEF f
<1> DEFINE old == EntriesOf(f)
           new == EntriesOf(g)
           n == Len(old)
<1>7. /\ Sound(g) /\ Len(new) = n
      /\ \E j \in 1..n :
            /\ old[j].path = path
            /\ \A k \in 1..n : /\ new[k].path = old[k].path
                               /\ RecordOf(new[k]) = RecordOf(old[k])
                               /\ k # j => new[k] = old[k]
  BY <1>5, <1>6, DeletedEntries DEF TextFile
<1>8. n \in Nat /\ \A k \in 1..n : IsTextItem(old[k])
  BY <1>6, EntriesChain DEF TextFile
<1> HIDE DEF old, new, n, slot, g
<1>9. TextFile(g)
  <2>1. \A k \in 1..n : IsTextItem(new[k])
    BY <1>7, <1>8 DEF IsTextItem
  <2>2. QED
    BY <1>7, <2>1 DEF TextFile, new
<1>10. Whole(g).form = "whole" /\ Whole(g).img = g
  BY DEF Whole
<1>11. TextFiles'
  BY <1>1, <1>2, <1>5, <1>9, <1>10 DEF Keeping, TextFiles
<1>12. ASSUME NEW x \in Path, kept'[x] # NoRecord
       PROVE  HasLive(new, x, kept'[x])
  <2>1. x # path /\ kept'[x] = kept[x]
    BY <1>1, <1>5, <1>12
  <2>2. HasLive(old, x, kept[x])
    BY <1>1, <1>2, <1>12, <2>1 DEF Keeping, KeptThere, KeptNames, KeptIn, old, f
  <2>3. PICK k \in 1..n : /\ FirstFor(old, k, x) /\ old[k].path = x
                          /\ old[k].status \in {"PRIMARY", "ALIAS"}
                          /\ RecordOf(old[k]) = kept[x]
    BY <2>2 DEF HasLive, n
  <2>4. new[k] = old[k] /\ \A j \in 1..n : new[j].path = old[j].path
    BY <1>7, <2>1, <2>3
  <2>5. FirstFor(new, k, x)
    BY <1>7, <1>8, <2>3, <2>4 DEF FirstFor, n
  <2>6. QED
    BY <1>7, <2>1, <2>3, <2>4, <2>5 DEF HasLive
<1>13. KeptThere'
  BY <1>1, <1>2, <1>5, <1>10, <1>12 DEF KeptThere, KeptNames, KeptIn, new
<1>14. Opened(h)'
  BY <1>1, <1>2, <1>5, <1>10 DEF Opened
<1>15. call'[h].op = "none"
  BY <1>2, <1>5
<1>16. QED
  BY <1>11, <1>13, <1>14, <1>15
  DEF Keeping, Opening, Listing, Creating, Filling, Renaming, Preparing, In

(* What is read of a file with texts is one of the texts.                  *)
LEMMA TextIsRead ==
    ASSUME NEW f, TextFile(f), NEW y \in Path, ReadRecord(f, y) # NoRecord
    PROVE  \E text \in Text : ReadRecord(f, y) = TextRecord(text)
<1>1. Sound(f)
  BY DEF TextFile
<1>2. PICK chain : Walked(f, chain) /\ EntriesOf(f) = Logs(f, chain)
  BY <1>1, EntriesChain
<1>3. SaidOf(f, EntriesOf(f), y)
  BY <1>1, <1>2, EntriesChain, ListIsRead
<1>4. PICK k \in 1..Len(EntriesOf(f)) :
        ReadRecord(f, y) = ReadThrough(EntriesOf(f), k, y)
  BY <1>3 DEF SaidOf
<1>5. ReadRecord(f, y) = RecordOf(EntriesOf(f)[k])
  BY <1>4 DEF ReadThrough, RecordOf
<1>6. QED
  BY <1>5 DEF TextFile, IsTextItem

(* squeeze copies a text as it is.                                         *)
LEMMA TextIsCopied ==
    ASSUME NEW text \in Text
    PROVE  /\ SqueezeCopies(TEXT, TextRecord(text))
           /\ SqueezeForm(TEXT, TextRecord(text)) = TextRecord(text)
<1>1. text # Empty
  BY FilesAssumption, ValueAssumption DEF Token
<1>2. IsText(TEXT) /\ TextRecord(text) # NoRecord
  BY DEF IsText, TEXT, TextRecord, NoRecord
<1>3. ReadText(TextRecord(text)) = text
  <2>1. TextRecord(text).type = TEXT /\ TextRecord(text).content["v1"] = text
    BY DEF TextRecord, NoArea, Area
  <2>2. QED
    BY <1>2, <2>1 DEF ReadText
<1>4. QED
  BY <1>1, <1>2, <1>3 DEF SqueezeCopies, SqueezeForm

(* A turn of squeeze's loop takes a name from the list only when the new   *)
(* file has what is kept of it.                                            *)
LEMMA EntryKeeps ==
    ASSUME NEW h \in Handle, KeptInv(h), NothingSpilled', SqueezeEntry(h)
    PROVE  Keeping(h)'
<1> USE DEF KeptInv
<1>1. /\ call = [g \in Handle |-> call[g]] /\ CallOK(call[h], ino[h])
      /\ dir \in [Name -> {0} \cup Inode] /\ ino \in [Handle -> {0} \cup Inode]
      /\ disk \in [Inode -> FileState] /\ tmpmem \in [Handle -> MemoryState]
      /\ \A m, n \in Name : dir[m] = dir[n] /\ dir[m] # 0 => m = n
      /\ 0 \notin Inode /\ {"path", "tmp", "null"} = Name
      /\ OnPathInv(h) /\ Keeping(h)
  BY TypesGive DEF OnPathInv
<1> DEFINE i == ino[h]
           f == disk[i].img
           todo == call[h].todo
           y == Head(todo).path
           rec == ReadRecord(f, y)
           fd == call[h].fd
           file == disk[fd]
<1>2. /\ In(h, "squeeze", "copy") /\ todo # << >>
      /\ call' = [call EXCEPT ![h] = Call(call[h].op, call[h].at, fd, Tail(todo))]
      /\ disk[i].form = "whole"
      /\ UNCHANGED <<dir, ino, mem, faults, kept>>
  BY DEF SqueezeEntry, NextEntry
<1>3. /\ OnPath(h) /\ Listed(todo)
      /\ fd = dir["tmp"] /\ fd \in Inode /\ i \in Inode /\ fd # i
      /\ file.form = "whole" /\ tmpmem[h] = Memory(file) /\ file \in FileState
      /\ disk[i] \in FileState
  BY <1>1, <1>2 DEF Keeping, Listing, Filling, CallOK, In, OnPath
<1>4. View(h) = f
  BY <1>2, <1>3, SeesFile DEF View, OnPath
<1>5. TextFile(f) /\ TextFile(file.img)
  BY <1>1, <1>2, <1>3 DEF Keeping, TextFiles
<1>6. /\ todo \in Seq(Cell) /\ Len(todo) \in Nat \ {0}
      /\ Head(todo) = todo[1] /\ y \in Path /\ Head(todo).type = TEXT
      /\ Tail(todo) \in Seq(Cell) /\ Len(Tail(todo)) = Len(todo) - 1
      /\ \A k \in 1..(Len(todo) - 1) : Tail(todo)[k] = todo[k + 1]
  <2>1. todo \in Seq(Cell)
    BY <1>3 DEF Listed
  <2>2. /\ Len(todo) \in Nat \ {0} /\ Head(todo) = todo[1] /\ Tail(todo) \in Seq(Cell)
        /\ Len(Tail(todo)) = Len(todo) - 1
        /\ \A k \in 1..(Len(todo) - 1) : Tail(todo)[k] = todo[k + 1]
    <3> HIDE DEF todo
    <3>1. QED
      BY <1>2, <2>1
  <2>3. QED
    BY <1>3, <2>1, <2>2 DEF Listed
<1>7. IF SqueezeCopies(TEXT, rec)
      THEN \E out \in StoreOutcomes(file, tmpmem[h], y, SqueezeForm(TEXT, rec)) :
              /\ out.ok
              /\ disk' = [disk EXCEPT ![fd] = out.file]
              /\ tmpmem' = [tmpmem EXCEPT ![h] = out.mem]
      ELSE UNCHANGED <<disk, tmpmem>>
  BY <1>4, <1>6 DEF SqueezeEntry
<1> DEFINE there(x) == KeptIn(file, x)
           still(x) == NoneOf(EntriesOf(file.img), x) /\ Ahead(todo, x)
<1>8. \A x \in KeptNames : there(x) \/ still(x)
  BY <1>1, <1>2 DEF Keeping, Filling
<1>9. \A x \in KeptNames :
         /\ x \in Path /\ kept[x] # NoRecord
         /\ HasLive(EntriesOf(f), x, kept[x])
         /\ ReadRecord(f, x) = kept[x]
         /\ TableHash[y] = TableHash[x] /\ y # x => rec = NoRecord
  <2>1. \A x \in KeptNames : x \in Path /\ kept[x] # NoRecord
                             /\ HasLive(EntriesOf(f), x, kept[x])
    BY <1>1, <1>3 DEF Keeping, KeptThere, KeptNames, KeptIn, OnPath
  <2> HIDE DEF f, y
  <2>2. QED
    BY <1>5, <1>6, <2>1, LiveIsRead DEF TextFile
<1>10. Listed(Tail(todo)) /\ \A x \in KeptNames : Ahead(todo, x) /\ x # y => Ahead(Tail(todo), x)
  <2>1. \A k \in 1..Len(Tail(todo)) : k + 1 \in 1..Len(todo) /\ Tail(todo)[k] = todo[k + 1]
    BY <1>6
  <2>2. Listed(Tail(todo))
    BY <1>3, <1>6, <2>1 DEF Listed
  <2>3. ASSUME NEW x, Ahead(todo, x), x # y
        PROVE  Ahead(Tail(todo), x)
    <3>1. PICK k \in 1..Len(todo) : todo[k].path = x
      BY <2>3 DEF Ahead
    <3>2. k # 1
      BY <1>6, <2>3, <3>1
    <3>3. k - 1 \in 1..Len(Tail(todo)) /\ Tail(todo)[k - 1] = todo[k]
      BY <1>6, <3>2
    <3>4. QED
      BY <3>1, <3>3 DEF Ahead
  <2>4. QED
    BY <2>2, <2>3
<1>11. /\ call'[h].op = "squeeze" /\ call'[h].at = "copy"
       /\ call'[h].fd = fd /\ call'[h].todo = Tail(todo) /\ KeptNames' = KeptNames
  BY <1>1, <1>2 DEF Call, In, KeptNames
\* It is enough to look at the new file.
<1>12. ASSUME NEW new, disk' = [disk EXCEPT ![fd] = new],
              tmpmem'[h] = Memory(new), new.form = "whole", TextFile(new.img),
              \A x \in KeptNames :
                  \/ HasLive(EntriesOf(new.img), x, kept[x])
                  \/ NoneOf(EntriesOf(new.img), x) /\ Ahead(Tail(todo), x)
       PROVE  Keeping(h)'
  <2> HIDE DEF todo, fd, rec, y, f
  <2>1. TextFiles'
    BY <1>1, <1>3, <1>12 DEF Keeping, TextFiles
  <2>2. dir["path"] # 0 => disk'[dir["path"]] = disk[dir["path"]]
    BY <1>1, <1>3, <1>12 DEF OnPath
  <2>3. KeptThere'
    BY <1>1, <1>2, <2>2, ThereStays DEF Keeping
  <2>4. disk'[i] = disk[i] /\ disk'[fd] = new
    BY <1>1, <1>3, <1>12
  <2>5. Listing(h)'
    BY <1>2, <1>3, <1>10, <1>11, <2>4 DEF Listing, OnPath
  <2>6. dir' = dir /\ \A x \in KeptNames : kept'[x] = kept[x]
    BY <1>2
  <2>7. Filling(h)'
    BY <1>3, <1>11, <1>12, <2>4, <2>6 DEF Filling, KeptIn
  <2>8. QED
    BY <1>11, <2>1, <2>3, <2>5, <2>7
    DEF Keeping, Opened, Idle, Busy, Opening, Creating, Renaming, Preparing, In
<1>13. CASE rec = NoRecord
  <2>1. ~ SqueezeCopies(TEXT, rec)
    BY <1>13 DEF SqueezeCopies
  <2>2. UNCHANGED <<disk, tmpmem>>
    BY <1>7, <2>1
  <2>3. ASSUME NEW x \in KeptNames
        PROVE  \/ HasLive(EntriesOf(file.img), x, kept[x])
               \/ NoneOf(EntriesOf(file.img), x) /\ Ahead(Tail(todo), x)
    <3>1. x # y
      BY <1>9, <1>13
    <3> HIDE DEF todo, y, rec, f
    <3>2. QED
      BY <1>8, <1>10, <3>1 DEF KeptIn
  <2> HIDE DEF file, todo, y, rec, f, fd
  <2>4. disk' = [disk EXCEPT ![fd] = file] /\ tmpmem'[h] = Memory(file)
    BY <1>1, <1>3, <2>2 DEF file
  <2>5. QED
    BY <1>3, <1>5, <1>12, <2>3, <2>4
<1>14. CASE rec # NoRecord
  <2> HIDE DEF f
  <2>1. PICK text \in Text : rec = TextRecord(text)
    BY <1>5, <1>6, <1>14, TextIsRead
  <2>2. SqueezeCopies(TEXT, rec) /\ SqueezeForm(TEXT, rec) = rec
    BY <2>1, TextIsCopied
  <2> HIDE DEF rec
  <2>3. PICK out \in StoreOutcomes(file, tmpmem[h], y, rec) :
          /\ disk' = [disk EXCEPT ![fd] = out.file]
          /\ tmpmem' = [tmpmem EXCEPT ![h] = out.mem]
    BY <1>7, <2>2
  <2> DEFINE old == file.img
             g == StoreRecord(old, y, rec)
             new == out.file
  <2>4. ~ tmpmem[h].half /\ Behind(file, tmpmem[h].hdr) = old
    <3>1. Memory(file).half <=> file.form = "half"
      BY DEF Memory
    <3>2. QED
      BY <1>3, <3>1, SeesFile
  <2>5. out = [ok |-> TRUE, file |-> Whole(g), mem |-> [half |-> FALSE, hdr |-> g.hdr]]
    BY <2>3, <2>4 DEF StoreOutcomes
  <2> HIDE DEF g
  <2>6. new.form = "whole" /\ new.img = g /\ out.mem = Memory(new)
    BY <2>5 DEF Whole, Memory
  <2>7. ~ g.spilled
    <3>1. disk'[fd] = new
      BY <1>1, <1>3, <2>3
    <3>2. QED
      BY <1>3, <2>6, <3>1 DEF NothingSpilled
  <2> DEFINE item == ItemOf(y, rec, "PRIMARY")
             list == EntriesOf(old)
  <2>8. /\ TextFile(g)
        /\ EntriesOf(g) = Append(list, item)
        /\ \A x, r : HasLive(list, x, r) => HasLive(EntriesOf(g), x, r)
    <3> HIDE DEF y, file, fd
    <3>1. QED
      BY <1>5, <1>6, <2>1, <2>7, StoredTexts DEF g
  <2>9. /\ Len(EntriesOf(g)) = Len(list) + 1 /\ Len(list) \in Nat
        /\ EntriesOf(g)[Len(list) + 1] = item
        /\ \A k \in 1..Len(list) : EntriesOf(g)[k] = list[k]
    <3> HIDE DEF item
    <3>1. QED
      BY <1>5, <2>8, AppendedEntry, EntriesChain DEF TextFile
  <2>10. item.path = y /\ item.status = "PRIMARY" /\ RecordOf(item) = rec
    BY <2>1 DEF ItemOf, RecordOf, TextRecord
  <2> HIDE DEF item, list, new, old, file, fd, y, todo
  <2>11. ASSUME NEW x \in KeptNames
         PROVE  \/ HasLive(EntriesOf(g), x, kept[x])
                \/ NoneOf(EntriesOf(g), x) /\ Ahead(Tail(todo), x)
    <3>1. CASE KeptIn(file, x)
      BY <2>8, <3>1 DEF KeptIn, list, old
    <3>2. CASE NoneOf(list, x) /\ Ahead(todo, x) /\ TableHash[y] # TableHash[x]
      <4>1. NoneOf(EntriesOf(g), x)
        BY <2>9, <2>10, <3>2 DEF NoneOf
      <4>2. Ahead(Tail(todo), x)
        BY <1>10, <3>2
      <4>3. QED
        BY <4>1, <4>2
    <3>3. CASE NoneOf(list, x) /\ TableHash[y] = TableHash[x]
      <4>1. y = x /\ rec = kept[x]
        BY <1>9, <1>14, <3>3 DEF rec
      <4>2. FirstFor(EntriesOf(g), Len(list) + 1, x)
        BY <2>9, <2>10, <3>3, <4>1 DEF NoneOf, FirstFor
      <4>3. HasLive(EntriesOf(g), x, kept[x])
        BY <2>9, <2>10, <4>1, <4>2 DEF HasLive
      <4>4. QED
        BY <4>3
    <3>4. QED
      BY <1>8, <3>1, <3>2, <3>3 DEF list, old
  <2>12. disk' = [disk EXCEPT ![fd] = new] /\ tmpmem'[h] = Memory(new)
    BY <1>1, <2>3, <2>6 DEF new
  <2>13. QED
    BY <1>12, <2>6, <2>8, <2>11, <2>12
<1>15. QED
  BY <1>13, <1>14

(* Every step of the only handle keeps what is kept. *)
LEMMA KeptStep ==
    ASSUME NEW h, Handle = {h}, Careful, "open" \notin Faulty,
           KeptInv(h), NothingSpilled', [Next]_vars
    PROVE  KeptInv(h)'
<1>1. h \in Handle
  OBVIOUS
<1>2. OnPathInv(h)'
  BY OnPathStep DEF KeptInv
<1>3. SUFFICES Keeping(h)'
  BY <1>2 DEF KeptInv
<1>4. CASE UNCHANGED vars
  BY <1>4 DEF KeptInv, Keeping, vars, TextFiles, KeptThere, KeptNames, KeptIn,
              Opened, Idle, Busy, Opening, Listing, Creating, Preparing, In,
              OnPath, Filling, Renaming
<1>5. CASE Next
  <2>1. \/ Open(h) \/ Close(h) \/ SqueezeBegin(h)
        \/ \E path \in Path, text \in Text : Store(h, path, text)
        \/ \E path \in Path : Delete(h, path)
        \/ Step(h) \/ SqueezeEntry(h) \/ Error(h) \/ Crash(h)
    BY <1>5 DEF Next
  <2>2. QED
    BY <1>1, <2>1, CallerKeeps, CreateKeeps, ReplaceKeeps, StoreKeeps,
       DeleteKeeps, EntryKeeps DEF Step
<1>6. QED
  BY <1>4, <1>5

(* Nothing is kept at the beginning. *)
LEMMA KeptInit ==
    ASSUME NEW h, Handle = {h}, Init
    PROVE  KeptInv(h)
<1>1. FilesTypes /\ h \in Handle
  BY TypesInit
<1>2. /\ \A i \in Inode : disk[i] = Blank
      /\ ino[h] = 0 /\ call[h] = NoCall /\ KeptNames = {}
  BY <1>1 DEF Init, KeptNames
<1>3. OnPathInv(h)
  BY <1>1, <1>2 DEF OnPathInv, HalfIsHalf, Blank, Idle, NoCall, Call
<1>4. Keeping(h)
  BY <1>2 DEF Keeping, TextFiles, Blank, KeptThere, Opened, Idle, Opening,
     NoCall, Call, Listing, Creating, Filling, Renaming, Preparing, In
<1>5. QED
  BY <1>3, <1>4 DEF KeptInv

(* What is kept is on path. *)
LEMMA KeptIsOnPath ==
    ASSUME NEW h \in Handle, KeptInv(h)
    PROVE  KeptOnPath
<1> SUFFICES ASSUME NEW x \in Path, kept[x] # NoRecord
             PROVE  /\ dir["path"] # 0
                    /\ disk[dir["path"]].form = "whole"
                    /\ ReadRecord(disk[dir["path"]].img, x) = kept[x]
  BY DEF KeptOnPath
<1> DEFINE file == disk[dir["path"]]
<1>1. dir["path"] # 0 /\ file.form = "whole"
      /\ HasLive(EntriesOf(file.img), x, kept[x])
  BY DEF KeptInv, Keeping, KeptThere, KeptNames, KeptIn
<1>2. dir["path"] \in Inode
  BY <1>1, TypesGive DEF KeptInv, OnPathInv
<1>3. Sound(file.img)
  BY <1>1, <1>2 DEF KeptInv, Keeping, TextFiles, TextFile
<1> HIDE DEF file
<1>4. ReadRecord(file.img, x) = kept[x]
  BY <1>1, <1>3, LiveIsRead
<1>5. QED
  BY <1>1, <1>4 DEF file

(* KeptOnPath: with one handle, what path leads to has every record that   *)
(* was stored and is found, between any two accesses to the file system:   *)
(* no squeeze, create, error or crash leaves path without a file that has  *)
(* them.  Two things can: an error of open that is taken for a missing     *)
(* file, and a bin block that a store allocates.                           *)
THEOREM KeptStaysOnPath ==
    ASSUME NEW h, Handle = {h}, Careful, "open" \notin Faulty
    PROVE  Spec /\ []NothingSpilled => []KeptOnPath
<1>1. Init => KeptInv(h)
  BY KeptInit
<1>2. KeptInv(h) /\ NothingSpilled' /\ [Next]_vars => KeptInv(h)'
  BY KeptStep
<1>3. KeptInv(h) => KeptOnPath
  BY KeptIsOnPath
<1>4. QED
  BY <1>1, <1>2, <1>3, PTL DEF Spec

-----------------------------------------------------------------------------
(* Files of one block have nothing spilled.                                *)

(* The catalog is no longer than the bins. *)
LEMMA CatalogLength ==
    ASSUME NEW f, Sound(f)
    PROVE  Len(Catalog(f)) \in Nat /\ Len(Catalog(f)) <= f.hdr["totalBins"]
<1> DEFINE m == f.hdr["totalBins"]
<1>1. Safe(f) /\ ~ f.spilled
  BY DEF Sound, Walkable
<1>2. PICK chain : Walked(f, chain)
  BY EntriesChain
<1> DEFINE at == LiveAt(f, chain)
           place == Positions(at, m)
           n == Len(place)
<1>3. /\ m \in Nat /\ Catalog(f) \in Seq(Cell)
      /\ Enumerates(place, at, m) /\ Len(Catalog(f)) = n
  BY <1>1, <1>2, CatalogPlaces
<1> HIDE DEF at, place, m
<1>4. /\ n \in Nat
      /\ \A i \in 1..n : place[i] \in Nat /\ place[i] <= m
      /\ \A i, j \in 1..n : i < j => place[i] < place[j]
  BY <1>3 DEF Enumerates
<1> HIDE DEF n
<1> DEFINE S == {i \in Nat : i \in 1..n => i <= place[i]}
<1>5. \A i \in 1..n : place[i] >= 1
  <2>1. at \subseteq 1..m
    BY DEF at, m, LiveAt
  <2>2. QED
    BY <1>3, <1>4, <2>1 DEF Enumerates, n
<1>6. 0 \in S /\ \A i \in Nat : i \in S => i + 1 \in S
  <2>1. 0 \in S
    BY <1>4
  <2>2. ASSUME NEW i \in Nat, i \in S, i + 1 \in 1..n
        PROVE  i + 1 <= place[i + 1]
    <3>1. CASE i = 0
      BY <1>5, <2>2, <3>1
    <3>2. CASE i # 0
      <4>1. i \in 1..n /\ place[i] < place[i + 1] /\ i <= place[i]
        BY <1>4, <2>2, <3>2
      <4>2. QED
        BY <1>4, <2>2, <4>1
    <3>3. QED
      BY <3>1, <3>2
  <2>3. QED
    BY <2>1, <2>2
<1>7. n # 0 => n <= place[n] /\ place[n] <= m
  <2>1. Nat \subseteq S
    BY <1>6, SetInduction
  <2>2. QED
    BY <1>4, <2>1
<1>8. n <= m
  BY <1>3, <1>4, <1>7
<1>9. QED
  BY <1>3, <1>4, <1>8 DEF m

\* A file of a single block: what its free slots and its entries amount to.
OneBlock(f) ==
    /\ ~ f.spilled
    /\ f.hdr["totalBins"] + f.hdr["binsRemain"] = BinsPerBlock

\* Squeeze copies no more than the block holds.
Counted(h) ==
    /\ \A i \in Inode : OneBlock(disk[i].img)
    /\ Preparing(h) => Len(call[h].todo) <= BinsPerBlock
    /\ In(h, "squeeze", "copy") =>
           disk[call[h].fd].img.hdr["totalBins"] + Len(call[h].todo) <= BinsPerBlock
BlockInv(h) == KeptInv(h) /\ Counted(h)

(* A new file is a single block. *)
LEMMA NewFileBlock == OneBlock(NewFile) /\ NewFile.hdr["totalBins"] = 0
<1>1. BinsPerBlock \in Nat
  BY ImageAssumption
<1>2. QED
  BY <1>1 DEF OneBlock, NewFile, HeaderWord

(* A store that finds a free slot allocates no block. *)
LEMMA StoreInBlock ==
    ASSUME NEW f \in Image, OneBlock(f), f.hdr["totalBins"] < BinsPerBlock,
           NEW path \in Path, NEW rec \in Record,
           NEW g, g = StoreRecord(f, path, rec)
    PROVE  OneBlock(g) /\ g.hdr["totalBins"] = f.hdr["totalBins"] + 1
<1> DEFINE base == f.hdr.fileSize
           eof == base + Size(rec.content)
           written == [hdr |-> f.hdr, hash |-> f.hash,
                       cells |-> WriteRecord(f.cells, base, path, rec),
                       spilled |-> f.spilled \/ f.hdr.binsRemain <= 0]
           entry == Entry(path, "PRIMARY", base, rec.type)
           taken == TakeSlot(written, entry)
<1>1. base \in Nat /\ rec.type \in RecordType /\ BinsPerBlock \in Nat
  BY ImageFields, ImageAssumption DEF HeaderWord, Record
<1>2. /\ f.hdr["totalBins"] \in Nat /\ f.hdr["binsRemain"] \in Nat
      /\ f.hdr \in [HeaderWord -> Nat]
  BY ImageFields DEF HeaderWord, Header
<1>3. ~ (f.hdr["binsRemain"] <= 0)
  BY <1>1, <1>2 DEF OneBlock
<1>4. written \in Image /\ written.hdr = f.hdr /\ ~ written.spilled
  BY <1>1, <1>3, WriteRecordType DEF Image, OneBlock
<1>5. taken = EnterBin(written, entry)
  BY <1>3 DEF EnterBin
<1>6. /\ g.hdr = [taken.hdr EXCEPT !["numberRecords"] = @ + 1,
                                   !["fileSize"] = eof]
      /\ g.spilled = taken.spilled
  BY <1>5 DEF StoreRecord, WriteBinEntry
<1>7. taken \in Image
  BY <1>1, <1>4, <1>5, EnterBinType DEF Status, Address
<1> HIDE DEF written, entry
<1>8. /\ taken.hdr["binsRemain"] = f.hdr["binsRemain"] - 1
      /\ taken.hdr["totalBins"] = f.hdr["totalBins"] + 1
  <2>1. {"binsRemain", "totalBins"} \subseteq HeaderWord
    BY DEF HeaderWord
  <2>2. /\ taken.hdr["binsRemain"] = written.hdr["binsRemain"] - 1
        /\ taken.hdr["totalBins"] = written.hdr["totalBins"] + 1
    BY <1>4, <2>1, TakeSlotWords
  <2>3. QED
    BY <1>4, <2>2
<1>9. taken.spilled = written.spilled
  BY DEF TakeSlot
<1> DEFINE k == taken.hdr
<1>10. k \in [HeaderWord -> Nat]
  BY <1>7, ImageFields DEF Header
<1>11. /\ g.hdr = [k EXCEPT !["numberRecords"] = @ + 1, !["fileSize"] = eof]
       /\ k["binsRemain"] = f.hdr["binsRemain"] - 1
       /\ k["totalBins"] = f.hdr["totalBins"] + 1
       /\ ~ g.spilled
  BY <1>4, <1>6, <1>8, <1>9
<1> HIDE DEF k, eof, taken, base
<1>12. /\ g.hdr["binsRemain"] = k["binsRemain"]
       /\ g.hdr["totalBins"] = k["totalBins"]
  BY <1>10, <1>11 DEF HeaderWord
<1>13. QED
  BY <1>1, <1>2, <1>11, <1>12 DEF OneBlock

(* Marking an entry as deleted takes no slot. *)
LEMMA DeleteInBlock ==
    ASSUME NEW f \in Image, OneBlock(f), NEW slot,
           NEW g, g = Count(SetStatus(f, slot, "DELETED"), "numberDeletes")
    PROVE  OneBlock(g)
<1>1. f.hdr \in [HeaderWord -> Nat]
  BY ImageFields DEF Header
<1>2. g.hdr = [f.hdr EXCEPT !["numberDeletes"] = @ + 1] /\ g.spilled = f.spilled
  BY DEF Count, SetStatus
<1>3. g.hdr["totalBins"] = f.hdr["totalBins"] /\ g.hdr["binsRemain"] = f.hdr["binsRemain"]
  BY <1>1, <1>2 DEF HeaderWord
<1>4. QED
  BY <1>2, <1>3 DEF OneBlock

(* Files that are freed leave files of a single block. *)
LEMMA LeavesBlocks ==
    ASSUME NEW files \in [Inode -> FileState], Leaving(files),
           \A i \in Inode : OneBlock(files[i].img)
    PROVE  \A i \in Inode : OneBlock(disk'[i].img)
  BY NewFileBlock DEF Leaving, Blank

(* What a store through the header of a file makes of it. *)
LEMMA OutcomeInBlock ==
    ASSUME NEW file \in FileState, OneBlock(file.img),
           file.img.hdr["totalBins"] < BinsPerBlock,
           NEW path \in Path, NEW rec \in Record,
           NEW out \in StoreOutcomes(file, Memory(file), path, rec),
           file.form # "blank"
    PROVE  /\ OneBlock(out.file.img)
           /\ file.form = "whole" =>
                  out.file.img.hdr["totalBins"] = file.img.hdr["totalBins"] + 1
<1>1. Memory(file).half <=> file.form = "half"
  BY DEF Memory
<1>2. CASE file.form = "half"
  BY <1>1, <1>2, NewFileBlock DEF StoreOutcomes, Half, Blank
<1>3. CASE file.form = "whole"
  <2> DEFINE g == StoreRecord(file.img, path, rec)
  <2>1. Behind(file, Memory(file).hdr) = file.img /\ file.img \in Image
    BY <1>3, SeesFile, StateParts
  <2>2. OneBlock(g) /\ g.hdr["totalBins"] = file.img.hdr["totalBins"] + 1
    BY <2>1, StoreInBlock
  <2>3. out.file = Whole(g)
    BY <1>1, <1>3, <2>1 DEF StoreOutcomes
  <2> HIDE DEF g
  <2>4. out.file.img = g
    BY <2>3 DEF Whole
  <2>5. QED
    BY <2>2, <2>4
<1>4. QED
  BY <1>2, <1>3 DEF FileState

(* What callers do keeps the files of a single block.                      *)
LEMMA CallerCounts ==
    ASSUME NEW h \in Handle, Careful, BlockInv(h), MaxBins <= BinsPerBlock,
           \/ Open(h) \/ Close(h) \/ SqueezeBegin(h)
           \/ \E path \in Path, text \in Text : Store(h, path, text)
           \/ \E path \in Path : Delete(h, path)
    PROVE  Counted(h)'
<1> USE DEF BlockInv, KeptInv
<1>1. /\ call = [g \in Handle |-> call[g]] /\ ino \in [Handle -> {0} \cup Inode]
      /\ disk \in [Inode -> FileState] /\ 0 \notin Inode
      /\ OnPathInv(h) /\ Keeping(h) /\ Counted(h)
      /\ BinsPerBlock \in Nat /\ MaxBins \in Nat
  BY TypesGive, ImageAssumption, FilesAssumption DEF OnPathInv
<1> DEFINE i == ino[h]
           f == disk[i].img
<1>2. ASSUME Idle(h)
      PROVE  /\ i \in Inode /\ mem[h] = Memory(disk[i]) /\ disk[i].form # "blank"
             /\ disk[i] \in FileState /\ f \in Image /\ OneBlock(f)
             /\ f.hdr["totalBins"] \in Nat /\ f.hdr["totalBins"] <= BinsPerBlock
             /\ mem[h].hdr = f.hdr /\ call[h].op = "none"
             /\ ~ mem[h].half => disk[i].form = "whole" /\ View(h) = f
  <2>1. /\ i \in Inode /\ mem[h] = Memory(disk[i]) /\ disk[i].form # "blank"
        /\ disk[i] \in FileState /\ OneBlock(f) /\ call[h].op = "none"
    BY <1>1, <1>2 DEF Idle, Busy, OnPathInv, OnPath, Keeping, Opened, Counted
  <2>2. f \in Image /\ mem[h].hdr = f.hdr
    BY <2>1, StateParts DEF Memory
  <2>3. f.hdr["totalBins"] \in Nat /\ f.hdr["binsRemain"] \in Nat
    BY <2>2, ImageFields DEF HeaderWord
  <2>4. f.hdr["totalBins"] <= BinsPerBlock
    BY <1>1, <2>1, <2>3 DEF OneBlock
  <2>5. ~ mem[h].half => disk[i].form = "whole"
    <3>1. Memory(disk[i]).half <=> disk[i].form = "half"
      BY DEF Memory
    <3>2. QED
      BY <2>1, <3>1 DEF FileState
  <2>6. disk[i].form = "whole" => View(h) = f
    BY <2>1, SeesFile DEF View
  <2>7. QED
    BY <2>1, <2>2, <2>3, <2>4, <2>5, <2>6
<1>3. CASE Open(h)
  <2>1. UNCHANGED disk /\ call'[h].op \in {"none", "open"}
    <3>1. \/ UNCHANGED call
          \/ call' = [call EXCEPT ![h] = Call("open", "truncate", 0, << >>)]
      BY <1>3 DEF Open
    <3>2. call[h].op = "none" /\ UNCHANGED disk
      BY <1>3 DEF Open, Busy
    <3>3. QED
      BY <1>1, <3>1, <3>2 DEF Call
  <2>2. QED
    BY <1>1, <2>1 DEF Counted, Preparing, In
<1>4. CASE Close(h)
  <2>1. Leaving(disk) /\ UNCHANGED call /\ call[h].op = "none"
    BY <1>2, <1>4 DEF Close
  <2>2. \A j \in Inode : OneBlock(disk'[j].img)
    BY <1>1, <2>1, LeavesBlocks DEF Counted
  <2>3. QED
    BY <2>1, <2>2 DEF Counted, Preparing, In
<1>5. CASE SqueezeBegin(h)
  <2> DEFINE todo == Catalog(f)
  <2>1. Idle(h) /\ ~ mem[h].half
    BY <1>5 DEF SqueezeBegin
  <2>2. call' = [call EXCEPT ![h] = Call("squeeze", "truncate", 0, todo)]
        /\ UNCHANGED disk
    BY <1>2, <1>5, <2>1 DEF SqueezeBegin
  <2>3. Sound(f)
    BY <1>1, <1>2, <2>1 DEF Keeping, TextFiles, TextFile
  <2>4. Len(todo) <= BinsPerBlock
    <3>1. Len(todo) \in Nat /\ Len(todo) <= f.hdr["totalBins"]
      BY <2>3, CatalogLength
    <3> HIDE DEF todo, f
    <3>2. QED
      BY <1>1, <1>2, <2>1, <3>1
  <2> HIDE DEF todo, f
  <2>5. call'[h].op = "squeeze" /\ call'[h].at = "truncate" /\ call'[h].todo = todo
    BY <1>1, <2>2 DEF Call
  <2>6. QED
    BY <1>1, <2>2, <2>4, <2>5 DEF Counted, In
<1>6. CASE \E path \in Path, text \in Text : Store(h, path, text)
  <2>1. PICK path \in Path, text \in Text : Store(h, path, text)
    BY <1>6
  <2> DEFINE rec == TextRecord(text)
  <2>2. rec \in Record
    BY FilesAssumption, RecordTypes DEF Payload
  <2> HIDE DEF rec, f
  <2>3. Idle(h) /\ mem[h].hdr["totalBins"] < MaxBins
    BY <2>1 DEF Store
  <2>4. PICK out \in StoreOutcomes(disk[i], mem[h], path, rec) :
          UNCHANGED call /\ Leaving([disk EXCEPT ![i] = out.file])
    BY <2>1 DEF Store, rec
  <2>5. f.hdr["totalBins"] < BinsPerBlock
    BY <1>1, <1>2, <2>3
  <2>6. OneBlock(out.file.img)
    BY <1>2, <2>2, <2>3, <2>4, <2>5, OutcomeInBlock DEF f
  <2>7. out.file \in FileState
    BY <1>2, <2>2, <2>3, <2>4, StateParts, StoreOutcomeType
  <2>8. \A j \in Inode : OneBlock(disk'[j].img)
    <3>1. [disk EXCEPT ![i] = out.file] \in [Inode -> FileState]
      BY <1>1, <2>7
    <3>2. \A j \in Inode : OneBlock([disk EXCEPT ![i] = out.file][j].img)
      BY <1>1, <2>6 DEF Counted
    <3>3. QED
      BY <2>4, <3>1, <3>2, LeavesBlocks
  <2>9. QED
    BY <1>2, <2>3, <2>4, <2>8 DEF Counted, Preparing, In
<1>7. CASE \E path \in Path : Delete(h, path)
  <2>1. PICK path \in Path : Delete(h, path)
    BY <1>7
  <2> DEFINE g == Count(SetStatus(f, FindRecord(f, path), "DELETED"), "numberDeletes")
  <2>2. Idle(h) /\ ~ mem[h].half
    BY <2>1 DEF Delete
  <2>3. disk' = [disk EXCEPT ![i] = Whole(g)] /\ UNCHANGED call
    BY <1>2, <2>1, <2>2 DEF Delete
  <2>4. OneBlock(g)
    BY <1>2, <2>2, DeleteInBlock
  <2> HIDE DEF g
  <2>5. \A j \in Inode : OneBlock(disk'[j].img)
    BY <1>1, <2>3, <2>4 DEF Counted, Whole
  <2>6. QED
    BY <1>2, <2>2, <2>3, <2>5 DEF Counted, Preparing, In
<1>8. QED
  BY <1>3, <1>4, <1>5, <1>6, <1>7

(* So does every step of a call: a squeeze has as many records to copy as  *)
(* fit into the block of the new file.                                     *)
LEMMA CallCounts ==
    ASSUME NEW h \in Handle, BlockInv(h),
           Step(h) \/ SqueezeEntry(h) \/ Error(h) \/ Crash(h)
    PROVE  Counted(h)'
<1> USE DEF BlockInv, KeptInv
<1>1. /\ call = [g \in Handle |-> call[g]] /\ CallOK(call[h], ino[h])
      /\ disk \in [Inode -> FileState] /\ dir \in [Name -> {0} \cup Inode]
      /\ 0 \notin Inode /\ {"path", "tmp", "null"} = Name
      /\ OnPathInv(h) /\ Keeping(h) /\ Counted(h)
      /\ BinsPerBlock \in Nat
  BY TypesGive, ImageAssumption DEF OnPathInv
<1> DEFINE c == call[h]
<1>2. CASE CreateTruncate(h)
  <2> DEFINE i == Created(Target(h))
             files == [disk EXCEPT ![i] = Blank]
  <2>1. /\ call' = [call EXCEPT ![h] = Call(c.op, "first", i, c.todo)]
        /\ Leaving(files) /\ c.at = "truncate"
    BY <1>2 DEF CreateTruncate
  <2> HIDE DEF i
  <2>2. /\ files \in [Inode -> FileState]
        /\ \A j \in Inode : OneBlock(files[j].img)
    BY <1>1, StateParts, NewFileBlock DEF Counted, Blank
  <2> HIDE DEF files
  <2>3. \A j \in Inode : OneBlock(disk'[j].img)
    BY <2>1, <2>2, LeavesBlocks
  <2>4. call'[h].op = c.op /\ call'[h].at = "first" /\ call'[h].todo = c.todo
    BY <1>1, <2>1 DEF Call
  <2>5. QED
    BY <1>1, <2>1, <2>3, <2>4 DEF Counted, Preparing, In
<1>3. CASE CreateFirst(h) \/ CreateLast(h)
  <2>1. /\ disk' = [disk EXCEPT ![c.fd] = Half]
           \/ disk' = [disk EXCEPT ![c.fd] = Whole(NewFile)]
        /\ c.at \in {"first", "last"}
        /\ \E at \in {"last", "attach"} :
              call' = [call EXCEPT ![h] = Call(c.op, at, c.fd, c.todo)]
    BY <1>3 DEF CreateFirst, CreateLast, GoTo
  <2>2. \A j \in Inode : OneBlock(disk'[j].img)
    BY <1>1, <2>1, NewFileBlock DEF Counted, Half, Whole
  <2>3. call'[h].op = c.op /\ call'[h].at \in {"last", "attach"} /\ call'[h].todo = c.todo
    BY <1>1, <2>1 DEF Call
  <2>4. QED
    BY <1>1, <2>1, <2>2, <2>3 DEF Counted, Preparing, In
<1>4. CASE CreateAttach(h)
  <2>1. c.at = "attach" /\ UNCHANGED dir /\ Leaving(disk) /\ dir[Target(h)] # 0
    BY <1>4 DEF CreateAttach, Opens
  <2>2. \A j \in Inode : OneBlock(disk'[j].img)
    BY <1>1, <2>1, LeavesBlocks DEF Counted
  <2>3. CASE c.op # "squeeze"
    <3>1. call' = [call EXCEPT ![h] = NoCall]
      BY <1>4, <2>3 DEF CreateAttach
    <3>2. call'[h].op = "none"
      BY <1>1, <3>1 DEF NoCall, Call
    <3>3. QED
      BY <2>2, <3>2 DEF Counted, Preparing, In
  <2>4. CASE c.op = "squeeze"
    <3> DEFINE i == dir["tmp"]
    <3>1. /\ call' = [call EXCEPT ![h] = Call(c.op, "copy", i, c.todo)]
          /\ i # 0
      BY <1>4, <2>1, <2>4 DEF CreateAttach, Target
    <3>2. call'[h].at = "copy" /\ call'[h].fd = i /\ call'[h].todo = c.todo
      BY <1>1, <3>1 DEF Call
    <3>3. disk[i] = Whole(NewFile) /\ Len(c.todo) <= BinsPerBlock /\ c.todo \in Seq(Cell)
      BY <1>1, <2>1, <2>4 DEF Keeping, Creating, Listing, Listed, Counted, Preparing, In
    <3>4. disk'[i] = disk[i]
      BY <1>1, <2>1, <3>1, LeavesUsed
    <3>5. disk'[i].img.hdr["totalBins"] = 0
      BY <3>3, <3>4, NewFileBlock DEF Whole
    <3>6. disk'[i].img.hdr["totalBins"] + Len(c.todo) <= BinsPerBlock
      BY <1>1, <3>3, <3>5
    <3> HIDE DEF c, i
    <3>7. QED
      BY <2>2, <3>2, <3>6 DEF Counted, Preparing, In
  <2>5. QED
    BY <2>3, <2>4
<1>5. CASE \/ SqueezeNull(h) \/ SqueezeRename(h) \/ SqueezeUnlink(h)
           \/ SqueezeReopen(h) \/ Error(h) \/ Crash(h)
  <2>1. /\ \/ Leaving(disk)
           \/ \E i \in Inode : Leaving([disk EXCEPT ![i] = Blank])
        /\ \/ call' = [call EXCEPT ![h] = NoCall]
           \/ \E at \in {"rename", "unlink", "reopen"}, fd \in {0, c.fd} :
                 call' = [call EXCEPT ![h] = Call(c.op, at, fd, c.todo)]
    <3>1. Created("null") \in Inode
      BY <1>1, CreatedInode DEF OnPathInv
    <3>2. CASE SqueezeNull(h)
      BY <3>1, <3>2 DEF SqueezeNull
    <3>3. CASE SqueezeRename(h) \/ SqueezeUnlink(h)
      BY <3>3 DEF SqueezeRename, SqueezeUnlink, GoTo
    <3>4. CASE SqueezeReopen(h) \/ Error(h) \/ Crash(h)
      BY <3>4 DEF SqueezeReopen, Error, Returns, Crash
    <3>5. QED
      BY <1>5, <3>2, <3>3, <3>4
  <2>2. \A j \in Inode : OneBlock(disk'[j].img)
    <3>1. CASE Leaving(disk)
      BY <1>1, <3>1, LeavesBlocks DEF Counted
    <3>2. ASSUME NEW i \in Inode, Leaving([disk EXCEPT ![i] = Blank])
          PROVE  \A j \in Inode : OneBlock(disk'[j].img)
      <4> DEFINE files == [disk EXCEPT ![i] = Blank]
      <4>1. /\ files \in [Inode -> FileState]
            /\ \A j \in Inode : OneBlock(files[j].img)
        BY <1>1, StateParts, NewFileBlock DEF Counted, Blank
      <4>2. Leaving(files)
        BY <3>2
      <4> HIDE DEF files
      <4>3. QED
        BY <4>1, <4>2, LeavesBlocks
    <3>3. QED
      BY <2>1, <3>1, <3>2
  <2>3. call'[h].at \in {"none", "rename", "unlink", "reopen"}
    BY <1>1, <2>1 DEF NoCall, Call
  <2>4. QED
    BY <2>2, <2>3 DEF Counted, Preparing, In
<1>6. CASE SqueezeEntry(h)
  <2> DEFINE todo == c.todo
             fd == c.fd
             file == disk[fd]
             entry == Head(todo)
             rec == ReadRecord(View(h), entry.path)
             new == SqueezeForm(entry.type, rec)
             room == file.img.hdr["totalBins"]
  <2>1. /\ c.op = "squeeze" /\ c.at = "copy" /\ todo # << >>
        /\ call' = [call EXCEPT ![h] = Call(c.op, c.at, fd, Tail(todo))]
        /\ \/ UNCHANGED disk
           \/ /\ rec # NoRecord
              /\ \E out \in StoreOutcomes(file, tmpmem[h], entry.path, new) :
                    disk' = [disk EXCEPT ![fd] = out.file]
    BY <1>6 DEF SqueezeEntry, NextEntry, In, SqueezeCopies
  <2>2. /\ fd \in Inode /\ file \in FileState /\ file.form = "whole"
        /\ tmpmem[h] = Memory(file)
        /\ todo \in Seq(Cell) /\ room + Len(todo) <= BinsPerBlock
        /\ OneBlock(file.img)
    BY <1>1, <2>1 DEF Keeping, Filling, Listing, Listed, Counted, In, CallOK
  <2>3. room \in Nat
    BY <2>2, StateParts, ImageFields DEF HeaderWord
  <2>4. View(h) \in Image
    <3>1. ino[h] \in Inode /\ mem[h] \in MemoryState
      BY <1>1, <2>1, TypesGive DEF CallOK, OnPathInv
    <3>2. QED
      BY <1>1, <3>1, StateParts, BehindType DEF View
  <2>5. rec # NoRecord => entry.path \in Path /\ new \in Record
    BY <2>4, ReadRecordType, SqueezeFormType
  <2>6. call'[h].op = "squeeze" /\ call'[h].at = "copy"
        /\ call'[h].fd = fd /\ call'[h].todo = Tail(todo)
    BY <1>1, <2>1 DEF Call
  <2>7. Len(todo) \in Nat \ {0} /\ Len(Tail(todo)) = Len(todo) - 1
    <3> HIDE DEF todo
    <3>1. QED
      BY <2>1, <2>2
  <2> HIDE DEF c, todo, entry, rec, new
  <2>8. /\ \A j \in Inode : OneBlock(disk'[j].img)
        /\ disk'[fd].img.hdr["totalBins"] \in {room, room + 1}
    <3>1. CASE UNCHANGED disk
      BY <1>1, <3>1 DEF Counted
    <3>2. CASE /\ rec # NoRecord
               /\ \E out \in StoreOutcomes(file, tmpmem[h], entry.path, new) :
                     disk' = [disk EXCEPT ![fd] = out.file]
      <4>1. PICK out \in StoreOutcomes(file, tmpmem[h], entry.path, new) :
               disk' = [disk EXCEPT ![fd] = out.file]
        BY <3>2
      <4>2. room < BinsPerBlock
        <5> HIDE DEF room
        <5>1. QED
          BY <1>1, <2>2, <2>3, <2>7
      <4> HIDE DEF file, fd
      <4>3. /\ OneBlock(out.file.img)
            /\ out.file.img.hdr["totalBins"] = room + 1
        BY <2>2, <2>5, <3>2, <4>1, <4>2, OutcomeInBlock
      <4>4. QED
        BY <1>1, <2>2, <4>1, <4>3 DEF Counted
    <3>3. QED
      BY <2>1, <3>1, <3>2
  <2> HIDE DEF room, file, fd
  <2>9. disk'[fd].img.hdr["totalBins"] + Len(Tail(todo)) <= BinsPerBlock
    BY <1>1, <2>2, <2>3, <2>7, <2>8
  <2>10. QED
    BY <2>6, <2>8, <2>9 DEF Counted, Preparing, In
<1>7. QED
  BY <1>2, <1>3, <1>4, <1>5, <1>6 DEF Step

(* KeptOnPath: while the records fit into the first bin block, nothing     *)
(* else is needed than one handle, a caller that closes it after an error, *)
(* and an open that does not fail without reason.                          *)
THEOREM BlockStaysOnPath ==
    ASSUME NEW h, Handle = {h}, Careful, "open" \notin Faulty,
           MaxBins <= BinsPerBlock
    PROVE  Spec => []KeptOnPath /\ []NothingSpilled
<1>1. Init => BlockInv(h)
  <2> SUFFICES ASSUME Init PROVE BlockInv(h)
    OBVIOUS
  <2>1. KeptInv(h) /\ h \in Handle
    BY KeptInit
  <2>2. (\A i \in Inode : disk[i] = Blank) /\ call[h] = NoCall
    BY <2>1 DEF Init
  <2>3. Counted(h)
    BY <2>2, NewFileBlock DEF Counted, Blank, NoCall, Call, Preparing, In
  <2>4. QED
    BY <2>1, <2>3 DEF BlockInv
<1>2. BlockInv(h) /\ [Next]_vars => BlockInv(h)'
  <2> SUFFICES ASSUME BlockInv(h), [Next]_vars PROVE BlockInv(h)'
    OBVIOUS
  <2>1. h \in Handle
    OBVIOUS
  <2>2. Counted(h)'
    <3>1. CASE UNCHANGED vars
      BY <3>1 DEF BlockInv, Counted, vars, Preparing, In
    <3>2. CASE Next
      <4>1. \/ Open(h) \/ Close(h) \/ SqueezeBegin(h)
            \/ \E path \in Path, text \in Text : Store(h, path, text)
            \/ \E path \in Path : Delete(h, path)
            \/ Step(h) \/ SqueezeEntry(h) \/ Error(h) \/ Crash(h)
        BY <3>2 DEF Next
      <4>2. QED
        BY <2>1, <4>1, CallerCounts, CallCounts
    <3>3. QED
      BY <3>1, <3>2
  <2>3. NothingSpilled'
    BY <2>2 DEF Counted, OneBlock, NothingSpilled
  <2>4. KeptInv(h)'
    BY <2>3, KeptStep DEF BlockInv
  <2>5. QED
    BY <2>2, <2>4 DEF BlockInv
<1>3. BlockInv(h) => KeptOnPath /\ NothingSpilled
  BY KeptIsOnPath DEF BlockInv, Counted, OneBlock, NothingSpilled
<1>4. QED
  BY <1>1, <1>2, <1>3, PTL DEF Spec

-----------------------------------------------------------------------------
(* Until something goes wrong, one handle does what NativeDss does.        *)

(* NativeDss means by a cell, a record and a place what DssImage means. *)
LEMMA SameNotions ==
    /\ Atomic!Area = Area /\ Atomic!Empty = Empty /\ Atomic!NoRecord = NoRecord
    /\ Atomic!Zero = Zero /\ Atomic!EofFlag = EofFlag
    /\ Atomic!BlockSize = BlockSize /\ Atomic!FirstBin = FirstBin
    /\ \A c, base : Atomic!Layout(base, c) = Layout(base, c) /\ Atomic!Size(c) = Size(c)
    /\ \A p, t, a : Atomic!Info(p, t, a) = Info(p, t, a)
    /\ \A p, s, a, t : Atomic!Entry(p, s, a, t) = Entry(p, s, a, t)
    /\ \A a : Atomic!Ptr(a) = Ptr(a) /\ Atomic!Data(a) = Data(a)
    /\ \A c, e : Atomic!Extent(c, e) = Extent(c, e)
    /\ \A c, i : Atomic!CellAt(c, i) = CellAt(c, i)
    /\ \A f, a, t : Atomic!HasTag(f, a, t) = HasTag(f, a, t)
    /\ \A s, at : Atomic!Selected(s, at) = Selected(s, at)
<1>1. /\ Atomic!Area = Area /\ Atomic!Empty = Empty
      /\ Atomic!Zero = Zero /\ Atomic!EofFlag = EofFlag
      /\ Atomic!BlockSize = BlockSize /\ Atomic!FirstBin = FirstBin
  BY DEF Atomic!Area, Area, Atomic!Empty, Empty, Atomic!Zero, Zero, Atomic!EofFlag,
     EofFlag, Atomic!BlockSize, BlockSize, Atomic!FirstBin, FirstBin
<1>2. Atomic!NoRecord = NoRecord
  BY <1>1 DEF Atomic!NoRecord, NoRecord, Atomic!NoArea, NoArea
<1>3. \A c, a : Atomic!Present(c, a) = Present(c, a)
  BY <1>1 DEF Atomic!Present, Present
<1>4. \A c, a : Atomic!Offset(c, a) = Offset(c, a)
  BY <1>3 DEF Atomic!Offset, Offset
<1>5. \A c, base : Atomic!Layout(base, c) = Layout(base, c) /\ Atomic!Size(c) = Size(c)
  BY <1>1, <1>3, <1>4 DEF Atomic!Layout, Layout, Atomic!Size, Size
<1>6. /\ \A p, t, a : Atomic!Info(p, t, a) = Info(p, t, a)
      /\ \A p, s, a, t : Atomic!Entry(p, s, a, t) = Entry(p, s, a, t)
      /\ \A a : Atomic!Ptr(a) = Ptr(a) /\ Atomic!Data(a) = Data(a)
  BY DEF Atomic!Info, Info, Atomic!Entry, Entry, Atomic!Ptr, Ptr, Atomic!Data, Data
<1>7. /\ \A c, e : Atomic!Extent(c, e) = Extent(c, e)
      /\ \A c, i : Atomic!CellAt(c, i) = CellAt(c, i)
  BY <1>1 DEF Atomic!Extent, Extent, Atomic!CellAt, CellAt
<1>8. \A f, a, t : Atomic!HasTag(f, a, t) = HasTag(f, a, t)
  BY DEF Atomic!HasTag, HasTag
<1>9. \A s, at : Atomic!Selected(s, at) = Selected(s, at)
  BY DEF Atomic!Selected, Selected
<1>10. QED
  BY <1>1, <1>2, <1>5, <1>6, <1>7, <1>8, <1>9

(* ... and by storing, deleting and reading. *)
LEMMA SameOperations ==
    /\ Atomic!NewFile = NewFile
    /\ \A f, p, r : Atomic!StoreRecord(f, p, r) = StoreRecord(f, p, r)
    /\ \A f, e : Atomic!EnterBin(f, e) = EnterBin(f, e)
    /\ \A f, w : Atomic!Count(f, w) = Count(f, w)
    /\ \A f, s, t : Atomic!SetStatus(f, s, t) = SetStatus(f, s, t)
    /\ \A f, p : /\ Atomic!HashSlot(f, p) = HashSlot(f, p)
                 /\ Atomic!FindRecord(f, p) = FindRecord(f, p)
                 /\ Atomic!ReadRecord(f, p) = ReadRecord(f, p)
    /\ \A f : Atomic!Catalog(f) = Catalog(f)
<1>1. Atomic!NewFile = NewFile
  BY SameNotions DEF Atomic!NewFile, NewFile, Atomic!HeaderWord, HeaderWord
<1>2. \A c, base, p, r : Atomic!WriteRecord(c, base, p, r) = WriteRecord(c, base, p, r)
  BY DEF Atomic!WriteRecord, WriteRecord, Atomic!Layout, Layout, Atomic!Size, Size,
     Atomic!Offset, Offset, Atomic!Present, Present, Atomic!Empty, Empty,
     Atomic!Area, Area, Atomic!Info, Info, Atomic!Data, Data, Atomic!EofFlag, EofFlag,
     Atomic!Extent, Extent, Atomic!CellAt, CellAt, Atomic!Zero, Zero
<1>3. \A f : Atomic!AllocateNewBinBlock(f) = AllocateNewBinBlock(f)
  BY SameNotions DEF Atomic!AllocateNewBinBlock, AllocateNewBinBlock
<1>4. \A f, e : Atomic!TakeSlot(f, e) = TakeSlot(f, e)
  BY DEF Atomic!TakeSlot, TakeSlot
<1>5. \A f, e : Atomic!EnterBin(f, e) = EnterBin(f, e)
  BY <1>3, <1>4 DEF Atomic!EnterBin, EnterBin
<1>6. \A f, p, r : Atomic!StoreRecord(f, p, r) = StoreRecord(f, p, r)
  BY SameNotions, <1>2, <1>5
  DEF Atomic!StoreRecord, StoreRecord, Atomic!WriteBinEntry, WriteBinEntry
<1>7. \A f, w : Atomic!Count(f, w) = Count(f, w)
  BY DEF Atomic!Count, Count
<1>8. \A f, s, t : Atomic!SetStatus(f, s, t) = SetStatus(f, s, t)
  BY SameNotions DEF Atomic!SetStatus, SetStatus
<1>9. \A f, p : /\ Atomic!HashSlot(f, p) = HashSlot(f, p)
                /\ Atomic!FindRecord(f, p) = FindRecord(f, p)
  BY SameNotions DEF Atomic!HashSlot, HashSlot, Atomic!FindRecord, FindRecord
<1>10. \A f, a : Atomic!ReadArea(f, a) = ReadArea(f, a)
  BY SameNotions DEF Atomic!ReadArea, ReadArea, Atomic!Garbled, Garbled
<1>11. \A f, s : Atomic!RecordAt(f, s) = RecordAt(f, s)
  BY SameNotions, <1>10 DEF Atomic!RecordAt, RecordAt, Atomic!HasInfo, HasInfo
<1>12. \A f, p : Atomic!ReadRecord(f, p) = ReadRecord(f, p)
  BY <1>9, <1>11 DEF Atomic!ReadRecord, ReadRecord
<1>13. \A f, b : Atomic!Overflow(f, b) = Overflow(f, b)
  BY SameNotions DEF Atomic!Overflow, Overflow
<1>14. \A f : Atomic!BlockChain(f) = BlockChain(f)
  BY SameNotions, <1>13 DEF Atomic!BlockChain, BlockChain
<1>15. \A f : Atomic!SlotsInOrder(f) = SlotsInOrder(f)
  BY <1>13, <1>14 DEF Atomic!SlotsInOrder, SlotsInOrder
<1>16. \A f : Atomic!ReadAllBins(f) = ReadAllBins(f)
  BY SameNotions, <1>15 DEF Atomic!ReadAllBins, ReadAllBins
<1>17. \A f : Atomic!Catalog(f) = Catalog(f)
  BY SameNotions, <1>16 DEF Atomic!Catalog, Catalog, Atomic!IsLive, IsLive
<1>18. QED
  BY <1>1, <1>5, <1>6, <1>7, <1>8, <1>9, <1>12, <1>17

(* ... and by a record that squeeze copies. *)
LEMMA SameSqueeze ==
    \A t, r : /\ Atomic!SqueezeFails(t, r) = SqueezeFails(t, r)
              /\ Atomic!SqueezeCopies(t, r) = SqueezeCopies(t, r)
              /\ Atomic!SqueezeForm(t, r) = SqueezeForm(t, r)
              /\ Atomic!TextRecord(t) = TextRecord(t)
<1>1. \A t : /\ Atomic!IsText(t) = IsText(t) /\ Atomic!IsTimeSeries(t) = IsTimeSeries(t)
             /\ Atomic!IsPairedData(t) = IsPairedData(t)
  BY DEF Atomic!IsText, IsText, Atomic!IsTimeSeries, IsTimeSeries,
         Atomic!IsPairedData, IsPairedData
<1>2. Atomic!NoArea = NoArea /\ Atomic!Garbled = Garbled
  BY SameNotions DEF Atomic!NoArea, NoArea, Atomic!Garbled, Garbled
<1>3. \A r : Atomic!ReadText(r) = ReadText(r)
  BY SameNotions, <1>1, <1>2 DEF Atomic!ReadText, ReadText
<1>4. \A x, y, z, w : /\ Atomic!TextRecord(x) = TextRecord(x)
                      /\ Atomic!TsRecord(x, y) = TsRecord(x, y)
                      /\ Atomic!PdRecord(x, y, z, w) = PdRecord(x, y, z, w)
  BY <1>2 DEF Atomic!TextRecord, TextRecord, Atomic!TsRecord, TsRecord,
     Atomic!PdRecord, PdRecord, Atomic!TEXT, TEXT, Atomic!RTD, RTD, Atomic!PDD, PDD
<1>5. \A t, r : /\ Atomic!SqueezeFails(t, r) = SqueezeFails(t, r)
                /\ Atomic!SqueezeCopies(t, r) = SqueezeCopies(t, r)
  BY SameNotions, <1>1, <1>3
  DEF Atomic!SqueezeFails, SqueezeFails, Atomic!ReadTsFails, ReadTsFails,
      Atomic!ReadPdFails, ReadPdFails, Atomic!SqueezeCopies, SqueezeCopies
<1>6. \A t, r : Atomic!SqueezeForm(t, r) = SqueezeForm(t, r)
  BY SameNotions, <1>1, <1>3, <1>4 DEF Atomic!SqueezeForm, SqueezeForm
<1>7. QED
  BY <1>4, <1>5, <1>6

(* What a step of the only handle looks like to NativeDss. *)
LEMMA OneCopies ==
    ASSUME NEW h, Handle = {h}
    PROVE  /\ (\E g \in Handle : Copying(g)) <=> Copying(h)
           /\ (\E g \in Handle : Copying(g))' <=> Copying(h)'
           /\ CopyImage = IF Copying(h) THEN disk[dir["tmp"]].img ELSE NewFile
           /\ CopyImage' = IF Copying(h)' THEN disk'[dir'["tmp"]].img ELSE NewFile
           /\ CopyTodo = IF Copying(h) THEN call[h].todo ELSE << >>
           /\ CopyTodo' = IF Copying(h)' THEN call'[h].todo ELSE << >>
<1>1. /\ (\E g \in Handle : Copying(g)) <=> Copying(h)
      /\ (\E g \in Handle : Copying(g))' <=> Copying(h)'
  OBVIOUS
<1>2. Copying(h) => (CHOOSE g \in Handle : Copying(g)) = h
  <2>1. Copying(h) => (CHOOSE g \in Handle : Copying(g)) \in Handle
    BY <1>1
  <2>2. QED
    BY <2>1
<1>3. Copying(h)' => (CHOOSE g \in Handle : Copying(g)') = h
  <2>1. Copying(h)' => (CHOOSE g \in Handle : Copying(g)') \in Handle
    BY <1>1
  <2>2. QED
    BY <2>1
<1>4. /\ CopyImage = IF Copying(h) THEN disk[dir["tmp"]].img ELSE NewFile
      /\ CopyImage' = IF Copying(h)' THEN disk'[dir'["tmp"]].img ELSE NewFile
  BY <1>1 DEF CopyImage
<1>5. CopyTodo = IF Copying(h) THEN call[h].todo ELSE << >>
  BY <1>1, <1>2 DEF CopyTodo
<1>6. CopyTodo' = IF Copying(h)' THEN call'[h].todo ELSE << >>
  BY <1>1, <1>3 DEF CopyTodo
<1>7. QED
  BY <1>1, <1>4, <1>5, <1>6

LEMMA StoreIsAtomic ==
    ASSUME NEW h, Handle = {h}, ~ Copying(h), ~ Copying(h)',
           NEW path \in Path, NEW text \in Text,
           PathImage.hdr["totalBins"] < MaxBins,
           PathImage' = StoreRecord(PathImage, path, TextRecord(text))
    PROVE  Atomic!Next
<1>1. text \in Value
  BY FilesAssumption
<1>2. /\ CopyImage' = CopyImage /\ CopyTodo' = CopyTodo
      /\ ~ \E g \in Handle : Copying(g)
      /\ ~ (\E g \in Handle : Copying(g))'
  BY OneCopies
<1>3. Atomic!Store(path, Atomic!TextRecord(text))
  BY <1>2, SameOperations, SameSqueeze DEF Atomic!Store, Atomic!Room
<1>4. Atomic!WriteText(path, text)
  BY <1>3 DEF Atomic!WriteText
<1>5. QED
  BY <1>1, <1>4 DEF Atomic!Next, Atomic!Write

LEMMA DeleteIsAtomic ==
    ASSUME NEW h, Handle = {h}, ~ Copying(h), ~ Copying(h)', NEW path \in Path,
           FindRecord(PathImage, path) # 0,
           PathImage.hdr["numberDeletes"] < MaxDeletes,
           PathImage' = Count(SetStatus(PathImage, FindRecord(PathImage, path),
                                        "DELETED"), "numberDeletes")
    PROVE  Atomic!Next
<1>1. /\ CopyImage' = CopyImage /\ CopyTodo' = CopyTodo
      /\ ~ \E g \in Handle : Copying(g)
      /\ ~ (\E g \in Handle : Copying(g))'
  BY OneCopies
<1>2. Atomic!Delete(path)
  BY <1>1, SameOperations DEF Atomic!Delete
<1>3. QED
  BY <1>2 DEF Atomic!Next, Atomic!Mark

LEMMA BeginIsAtomic ==
    ASSUME NEW h, Handle = {h}, ~ Copying(h), Copying(h)',
           PathImage' = PathImage, Catalog(PathImage) # << >>,
           CopyTodo' = Catalog(PathImage), CopyImage' = NewFile
    PROVE  Atomic!Next
<1>1. ~ (\E g \in Handle : Copying(g)) /\ (\E g \in Handle : Copying(g))'
  BY OneCopies
<1>2. Atomic!SqueezeBegin
  BY <1>1, SameOperations DEF Atomic!SqueezeBegin
<1>3. QED
  BY <1>2 DEF Atomic!Next, Atomic!Squeeze

LEMMA EntryIsAtomic ==
    ASSUME NEW h, Handle = {h}, Copying(h), Copying(h)',
           PathImage' = PathImage, CopyTodo # << >>, CopyTodo' = Tail(CopyTodo),
           NEW entry, entry = Head(CopyTodo),
           NEW rec, rec = ReadRecord(PathImage, entry.path),
           ~ SqueezeFails(entry.type, rec),
           CopyImage' = IF SqueezeCopies(entry.type, rec)
                        THEN StoreRecord(CopyImage, entry.path,
                                         SqueezeForm(entry.type, rec))
                        ELSE CopyImage
    PROVE  Atomic!Next
<1>1. (\E g \in Handle : Copying(g)) /\ (\E g \in Handle : Copying(g))'
  BY OneCopies
<1>2. Atomic!SqueezeEntry
  BY <1>1, SameOperations, SameSqueeze DEF Atomic!SqueezeEntry
<1>3. QED
  BY <1>2 DEF Atomic!Next, Atomic!Squeeze

LEMMA EndIsAtomic ==
    ASSUME NEW h, Handle = {h}, Copying(h), ~ Copying(h)',
           CopyTodo = << >>, PathImage' = CopyImage
    PROVE  Atomic!Next
<1>1. /\ (\E g \in Handle : Copying(g)) /\ ~ (\E g \in Handle : Copying(g))'
      /\ CopyTodo' = CopyTodo /\ CopyImage' = NewFile
  BY OneCopies
<1>2. Atomic!SqueezeEnd
  BY <1>1, SameOperations DEF Atomic!SqueezeEnd
<1>3. QED
  BY <1>2 DEF Atomic!Next, Atomic!Squeeze

\* A name leads to a file with a header and its addresses ...
HasFile(name) == dir[name] # 0 /\ disk[dir[name]].form = "whole"

\* ... that the handle has open.
Serves(h) ==
    /\ HasFile("path")
    /\ ino[h] = dir["path"] /\ mem[h] = Memory(disk[dir["path"]])

\* Where a handle is while nothing has gone wrong: outside of a call, ...
Resting(h) ==
    /\ call[h].op = "none"
    /\ dir["path"] # 0 => HasFile("path")
    /\ ino[h] # 0 => Serves(h)

\* ... creating path, where there was no file, ...
Makes(h, op, name) ==
    /\ In(h, op, "first") => call[h].fd = dir[name] /\ disk[dir[name]] = Blank
    /\ In(h, op, "last") => call[h].fd = dir[name] /\ disk[dir[name]] = Half
    /\ In(h, op, "attach") => disk[dir[name]] = Whole(NewFile)
Founding(h) ==
    /\ call[h].op = "open" /\ call[h].at \in {"truncate", "first", "last", "attach"}
    /\ (dir["path"] = 0) <=> (call[h].at = "truncate")
    /\ Makes(h, "open", "path")

\* ... creating path.tmp to squeeze the file, ...
Drafting(h) ==
    /\ call[h].op = "squeeze"
    /\ call[h].at \in {"truncate", "first", "last", "attach"}
    /\ Serves(h)
    /\ call[h].todo = Catalog(disk[dir["path"]].img) /\ call[h].todo # << >>
    /\ call[h].at # "truncate" => dir["tmp"] # 0
    /\ Makes(h, "squeeze", "tmp")

\* ... filling it, or putting it in the place of path.
Fills(h) ==
    /\ In(h, "squeeze", "copy")
    /\ Serves(h) /\ HasFile("tmp")
    /\ call[h].fd = dir["tmp"] /\ tmpmem[h] = Memory(disk[dir["tmp"]])
Swaps(h) ==
    /\ call[h].op = "squeeze"
    /\ \/ call[h].at = "rename" /\ call[h].todo = << >> /\ HasFile("path") /\ HasFile("tmp")
       \/ call[h].at \in {"unlink", "reopen"} /\ HasFile("path")

Stages(h) == Resting(h) \/ Founding(h) \/ Drafting(h) \/ Fills(h) \/ Swaps(h)

\* The step is one of NativeDss, or none.
Does == Atomic!Next \/ UNCHANGED <<PathImage, CopyImage, CopyTodo>>

(* What path leads to is the file of NativeDss. *)
LEMMA PathIs ==
    /\ HasFile("path") => PathImage = disk[dir["path"]].img
    /\ HasFile("path")' => PathImage' = disk'[dir'["path"]].img
    /\ dir["path"] = 0 \/ disk[dir["path"]].img = NewFile => PathImage = NewFile
    /\ dir'["path"] = 0 \/ disk'[dir'["path"]].img = NewFile => PathImage' = NewFile
  BY DEF HasFile, PathImage, Opens

(* A step that leaves path its file and copies nothing is none of NativeDss. *)
LEMMA NothingDone ==
    ASSUME NEW h, Handle = {h}, PathImage' = PathImage,
           ~ Copying(h), ~ Copying(h)'
    PROVE  Does
  BY OneCopies DEF Does

(* A handle outside of a call opens the file or creates it, closes it, or  *)
(* begins to squeeze it. *)
LEMMA CallerStages ==
    ASSUME NEW h, Handle = {h}, FilesTypes, Resting(h), faults' = 0,
           Open(h) \/ Close(h) \/ SqueezeBegin(h)
    PROVE  Stages(h)' /\ Does
<1>1. /\ call = [g \in Handle |-> call[g]] /\ h \in Handle
      /\ dir \in [Name -> {0} \cup Inode] /\ ino \in [Handle -> {0} \cup Inode]
      /\ mem \in [Handle -> MemoryState] /\ disk \in [Inode -> FileState]
      /\ 0 \notin Inode /\ {"path", "tmp", "null"} = Name /\ faults \in Nat
  BY TypesGive DEF FilesTypes, FilesTypeOK
<1>2. ~ Copying(h) /\ call[h].op = "none"
  BY DEF Resting, Copying
<1>3. CASE Open(h)
  <2>1. UNCHANGED <<dir, disk>> /\ ino[h] = 0
    BY <1>3 DEF Open
  <2>2. PathImage' = PathImage
    BY <2>1 DEF PathImage, Opens
  <2>3. CASE Opens("path") /\ Holds(h, dir["path"], Memory(disk[dir["path"]]))
             /\ UNCHANGED call
    <3>1. dir["path"] # 0 /\ HasFile("path")
      BY <2>3 DEF Opens, Resting
    <3>2. ino'[h] = dir["path"] /\ mem'[h] = Memory(disk[dir["path"]])
      BY <1>1, <2>3 DEF Holds
    <3>3. Resting(h)'
      BY <1>2, <2>1, <2>3, <3>1, <3>2 DEF Resting, Serves, HasFile
    <3>4. ~ Copying(h)'
      BY <1>2, <2>3 DEF Copying
    <3>5. QED
      BY <1>2, <2>2, <3>3, <3>4, NothingDone DEF Stages
  <2>4. CASE /\ call' = [call EXCEPT ![h] = Call("open", "truncate", 0, << >>)]
             /\ ~ Opens("path")
    <3>1. dir["path"] = 0
      BY <2>4 DEF Opens, Resting, HasFile
    <3>2. call'[h].op = "open" /\ call'[h].at = "truncate"
      BY <1>1, <2>4 DEF Call
    <3>3. Founding(h)'
      BY <2>1, <3>1, <3>2 DEF Founding, Makes, In
    <3>4. ~ Copying(h)'
      BY <3>2 DEF Copying
    <3>5. QED
      BY <1>2, <2>2, <3>3, <3>4, NothingDone DEF Stages
  <2>5. faults' = faults + 1 => FALSE
    BY <1>1
  <2>6. QED
    BY <1>3, <2>3, <2>4, <2>5 DEF Open
<1>4. CASE Close(h)
  <2>1. UNCHANGED <<dir, call>> /\ ino'[h] = 0 /\ Leaving(disk)
    BY <1>1, <1>4 DEF Close, Closed, Holds
  <2>2. dir["path"] # 0 => disk'[dir["path"]] = disk[dir["path"]]
    BY <1>1, <2>1, LeavesUsed
  <2>3. Resting(h)'
    BY <1>2, <2>1, <2>2 DEF Resting, HasFile
  <2>4. PathImage' = PathImage
    BY <2>1, <2>2 DEF PathImage, Opens
  <2>5. ~ Copying(h)'
    BY <1>2, <2>1 DEF Copying
  <2>6. QED
    BY <1>2, <2>3, <2>4, <2>5, NothingDone DEF Stages
<1>5. CASE SqueezeBegin(h)
  <2>1. /\ UNCHANGED <<dir, disk, ino, mem>> /\ Serves(h)
        /\ call' = [call EXCEPT ![h] = Call("squeeze", "truncate", 0, Catalog(View(h)))]
        /\ Catalog(View(h)) # << >>
    BY <1>5 DEF SqueezeBegin, Idle, Resting
  <2>2. View(h) = disk[dir["path"]].img
    BY <1>1, <2>1, SeesFile DEF Serves, HasFile, View
  <2>3. /\ call'[h].op = "squeeze" /\ call'[h].at = "truncate"
        /\ call'[h].todo = Catalog(disk[dir["path"]].img)
    BY <1>1, <2>1, <2>2 DEF Call
  <2>4. Drafting(h)'
    BY <2>1, <2>2, <2>3 DEF Drafting, Serves, HasFile, Makes, In
  <2>5. PathImage' = PathImage /\ ~ Copying(h)'
    BY <2>1, <2>3 DEF PathImage, Opens, Copying
  <2>6. QED
    BY <1>2, <2>4, <2>5, NothingDone DEF Stages
<1>6. QED
  BY <1>3, <1>4, <1>5

(* A store and a delete are steps of NativeDss. *)
LEMMA UseStages ==
    ASSUME NEW h, Handle = {h}, FilesTypes, Resting(h), NEW path \in Path,
           (\E text \in Text : Store(h, path, text)) \/ Delete(h, path)
    PROVE  Stages(h)' /\ Does
<1> DEFINE file == disk[dir["path"]]
<1>1. /\ call = [g \in Handle |-> call[g]] /\ h \in Handle
      /\ dir \in [Name -> {0} \cup Inode] /\ ino \in [Handle -> {0} \cup Inode]
      /\ mem \in [Handle -> MemoryState] /\ disk \in [Inode -> FileState]
      /\ 0 \notin Inode /\ {"path", "tmp", "null"} = Name
  BY TypesGive
<1>2. ~ Copying(h) /\ call[h].op = "none"
  BY DEF Resting, Copying
<1>3. Idle(h) /\ UNCHANGED <<dir, call>>
  BY DEF Store, Delete
<1>4. Serves(h) /\ HasFile("path") /\ file \in FileState /\ PathImage = file.img
  BY <1>1, <1>3, PathIs DEF Idle, Resting, Serves, HasFile
<1>5. /\ ~ mem[h].half /\ mem[h].hdr = file.img.hdr
      /\ Behind(file, mem[h].hdr) = file.img /\ View(h) = file.img
  <2>1. ino[h] = dir["path"] /\ mem[h] = Memory(file) /\ file.form = "whole"
    BY <1>4 DEF Serves, HasFile
  <2> HIDE DEF file
  <2>2. ~ mem[h].half /\ mem[h].hdr = file.img.hdr
    <3>1. /\ Memory(file).half <=> file.form = "half"
          /\ Memory(file).hdr = file.img.hdr
      BY DEF Memory
    <3>2. QED
      BY <2>1, <3>1
  <2>3. Behind(file, mem[h].hdr) = file.img
    BY <1>4, <2>1, SeesFile
  <2>4. QED
    BY <2>1, <2>2, <2>3 DEF View, file
<1>6. ~ Copying(h)'
  BY <1>2, <1>3 DEF Copying
<1>7. ASSUME NEW img, disk'[dir["path"]] = Whole(img), ino'[h] = ino[h],
             mem'[h] = [half |-> FALSE, hdr |-> img.hdr]
      PROVE  Resting(h)' /\ PathImage' = img
  <2>1. HasFile("path")' /\ disk'[dir["path"]].img = img
    BY <1>3, <1>4, <1>7 DEF HasFile, Whole
  <2>2. mem'[h] = Memory(disk'[dir["path"]])
    <3>1. Memory(Whole(img)) = [half |-> FALSE, hdr |-> img.hdr]
      BY DEF Memory, Whole
    <3>2. QED
      BY <1>7, <3>1
  <2>3. Serves(h)'
    BY <1>3, <1>4, <1>7, <2>1, <2>2 DEF Serves
  <2>4. QED
    BY <1>2, <1>3, <2>1, <2>3, PathIs DEF Resting
<1>8. CASE \E text \in Text : Store(h, path, text)
  <2>1. PICK text \in Text : Store(h, path, text)
    BY <1>8
  <2> DEFINE g == StoreRecord(file.img, path, TextRecord(text))
  <2>2. PICK out \in StoreOutcomes(disk[ino[h]], mem[h], path, TextRecord(text)) :
          /\ IF out.ok \/ ~ Careful THEN Holds(h, ino[h], out.mem) ELSE Closed(h)
          /\ Leaving([disk EXCEPT ![ino[h]] = out.file])
    BY <2>1 DEF Store
  <2>3. out = [ok |-> TRUE, file |-> Whole(g), mem |-> [half |-> FALSE, hdr |-> g.hdr]]
    BY <1>4, <1>5, <2>2 DEF StoreOutcomes, Serves
  <2>4. /\ ino'[h] = ino[h] /\ mem'[h] = [half |-> FALSE, hdr |-> g.hdr]
    <3> HIDE DEF g, file
    <3>1. QED
      BY <1>1, <2>2, <2>3 DEF Holds
  <2>5. disk'[dir["path"]] = Whole(g)
    <3> DEFINE files == [disk EXCEPT ![ino[h]] = out.file]
    <3>1. Whole(g) \in FileState
      <4>1. TextRecord(text) \in Record
        BY RecordTypes, FilesAssumption DEF Payload
      <4>2. file.img \in Image
        BY <1>4, StateParts
      <4>3. QED
        BY <4>1, <4>2, StoreRecordType, StateParts
    <3> HIDE DEF g, file
    <3>2. ino[h] = dir["path"] /\ dir["path"] \in Inode
      BY <1>1, <1>4 DEF Serves, HasFile
    <3>3. files \in [Inode -> FileState] /\ files[dir["path"]] = Whole(g)
      BY <1>1, <2>3, <3>1, <3>2
    <3> HIDE DEF files
    <3>4. QED
      BY <1>1, <1>3, <2>2, <3>2, <3>3, LeavesUsed DEF files
  <2>6. Resting(h)' /\ PathImage' = g
    <3> HIDE DEF g
    <3>1. QED
      BY <1>7, <2>4, <2>5
  <2>7. PathImage.hdr["totalBins"] < MaxBins
    BY <1>4, <1>5, <2>1 DEF Store
  <2>8. Atomic!Next
    BY <1>2, <1>4, <1>6, <2>6, <2>7, StoreIsAtomic
  <2>9. QED
    BY <2>6, <2>8 DEF Stages, Does
<1>9. CASE Delete(h, path)
  <2> DEFINE slot == FindRecord(file.img, path)
             g == Count(SetStatus(file.img, slot, "DELETED"), "numberDeletes")
  <2>1. /\ slot # 0 /\ mem[h].hdr["numberDeletes"] < MaxDeletes
        /\ disk' = [disk EXCEPT ![ino[h]] = Whole(g)]
        /\ mem' = [mem EXCEPT ![h] = [half |-> FALSE, hdr |-> g.hdr]]
        /\ UNCHANGED ino
    BY <1>5, <1>9 DEF Delete
  <2>2. /\ disk'[dir["path"]] = Whole(g) /\ ino'[h] = ino[h]
        /\ mem'[h] = [half |-> FALSE, hdr |-> g.hdr]
    <3> HIDE DEF g, file
    <3>1. ino[h] = dir["path"] /\ dir["path"] \in Inode
      BY <1>1, <1>4 DEF Serves, HasFile
    <3>2. QED
      BY <1>1, <2>1, <3>1
  <2>3. Resting(h)' /\ PathImage' = g
    <3> HIDE DEF g
    <3>1. QED
      BY <1>7, <2>2
  <2>4. Atomic!Next
    BY <1>2, <1>4, <1>5, <1>6, <2>1, <2>3, DeleteIsAtomic
  <2>5. QED
    BY <2>3, <2>4 DEF Stages, Does
<1>10. QED
  BY <1>8, <1>9

(* What a step does to the files that path and path.tmp lead to. *)
LEMMA StepLeaves ==
    ASSUME FilesTypes, NEW h \in Handle, NEW i \in Inode, NEW file \in FileState,
           \/ Leaving([disk EXCEPT ![i] = file])
           \/ disk' = [disk EXCEPT ![i] = file]
    PROVE  \A n \in Name : dir'[n] \in Inode =>
               disk'[dir'[n]] = IF dir'[n] = i THEN file ELSE disk[dir'[n]]
<1>1. disk \in [Inode -> FileState]
  BY TypesGive
<1> DEFINE files == [disk EXCEPT ![i] = file]
<1>2. files \in [Inode -> FileState]
      /\ \A j \in Inode : files[j] = IF j = i THEN file ELSE disk[j]
  BY <1>1
<1>3. CASE Leaving(files)
  <2> HIDE DEF files
  <2>1. \A n \in Name : dir'[n] \in Inode => disk'[dir'[n]] = files[dir'[n]]
    BY <1>2, <1>3, LeavesUsed
  <2>2. QED
    BY <1>2, <2>1
<1>4. CASE disk' = files
  BY <1>2, <1>4
<1>5. QED
  BY <1>3, <1>4

(* Creating path is no step of NativeDss. *)
LEMMA FoundingStages ==
    ASSUME NEW h, Handle = {h}, FilesTypes, Founding(h),
           CreateTruncate(h) \/ CreateFirst(h) \/ CreateLast(h) \/ CreateAttach(h)
    PROVE  Stages(h)' /\ Does
<1>1. /\ call = [g \in Handle |-> call[g]] /\ h \in Handle
      /\ dir \in [Name -> {0} \cup Inode] /\ ino \in [Handle -> {0} \cup Inode]
      /\ mem \in [Handle -> MemoryState] /\ disk \in [Inode -> FileState]
      /\ 0 \notin Inode /\ {"path", "tmp", "null"} = Name
  BY TypesGive
<1>2. /\ call[h].op = "open" /\ ~ Copying(h) /\ Target(h) = "path"
      /\ (dir["path"] = 0) <=> (call[h].at = "truncate")
      /\ Makes(h, "open", "path")
  BY DEF Founding, Copying, Target
<1>3. PathImage = NewFile
  BY <1>2, PathIs DEF Founding, Makes, In, Blank, Half, Whole
\* It is enough to look at the file.
<1>4. ASSUME NEW file \in {Blank, Half, Whole(NewFile)},
             dir'["path"] \in Inode, disk'[dir'["path"]] = file,
             call'[h].op \in {"open", "none"}
      PROVE  ~ Copying(h)' /\ Does
  <2>1. file.img = NewFile
    BY DEF Blank, Half, Whole
  <2>2. PathImage' = NewFile
    BY <1>4, <2>1, PathIs
  <2>3. ~ Copying(h)'
    BY <1>4 DEF Copying
  <2>4. QED
    BY <1>2, <1>3, <2>2, <2>3, NothingDone
<1>5. CASE CreateTruncate(h)
  <2> DEFINE i == Created("path")
  <2>1. /\ dir' = [dir EXCEPT !["path"] = i]
        /\ call' = [call EXCEPT ![h] = Call(call[h].op, "first", i, call[h].todo)]
        /\ Leaving([disk EXCEPT ![i] = Blank])
    BY <1>2, <1>5 DEF CreateTruncate
  <2>2. i \in Inode
    BY <1>1, CreatedInode
  <2> HIDE DEF i
  <2>3. dir'["path"] = i
    BY <1>1, <2>1
  <2>4. disk'[i] = Blank
    BY <1>1, <2>1, <2>2, <2>3, StepLeaves, StateParts
  <2>5. call'[h].op = "open" /\ call'[h].at = "first" /\ call'[h].fd = i
    BY <1>1, <1>2, <2>1 DEF Call
  <2>6. Founding(h)'
    BY <1>1, <2>2, <2>3, <2>4, <2>5 DEF Founding, Makes, In
  <2>7. QED
    BY <1>4, <2>2, <2>3, <2>4, <2>5, <2>6 DEF Stages
<1>6. ASSUME call[h].at \in {"first", "last"}, NEW file \in {Half, Whole(NewFile)},
             disk' = [disk EXCEPT ![call[h].fd] = file], UNCHANGED dir
      PROVE  dir'["path"] \in Inode /\ dir'["path"] = call[h].fd
             /\ disk'[dir'["path"]] = file
  BY <1>1, <1>2, <1>6 DEF Makes, In
<1>7. CASE CreateFirst(h)
  <2>1. /\ call[h].at = "first" /\ disk' = [disk EXCEPT ![call[h].fd] = Half]
        /\ call' = [call EXCEPT ![h] = Call(call[h].op, "last", call[h].fd, call[h].todo)]
        /\ UNCHANGED dir
    BY <1>7 DEF CreateFirst, GoTo
  <2>2. dir'["path"] \in Inode /\ dir'["path"] = call[h].fd /\ disk'[dir'["path"]] = Half
    BY <1>6, <2>1
  <2>3. call'[h].op = "open" /\ call'[h].at = "last" /\ call'[h].fd = call[h].fd
    BY <1>1, <1>2, <2>1 DEF Call
  <2>4. Founding(h)'
    BY <1>1, <2>2, <2>3 DEF Founding, Makes, In
  <2>5. QED
    BY <1>4, <2>2, <2>3, <2>4 DEF Stages
<1>8. CASE CreateLast(h)
  <2>1. /\ call[h].at = "last" /\ disk' = [disk EXCEPT ![call[h].fd] = Whole(NewFile)]
        /\ call' = [call EXCEPT ![h] = Call(call[h].op, "attach", call[h].fd, call[h].todo)]
        /\ UNCHANGED dir
    BY <1>8 DEF CreateLast, GoTo
  <2>2. dir'["path"] \in Inode /\ disk'[dir'["path"]] = Whole(NewFile)
    BY <1>6, <2>1
  <2>3. call'[h].op = "open" /\ call'[h].at = "attach"
    BY <1>1, <1>2, <2>1 DEF Call
  <2>4. Founding(h)'
    BY <1>1, <2>2, <2>3 DEF Founding, Makes, In
  <2>5. QED
    BY <1>4, <2>2, <2>3, <2>4 DEF Stages
<1>9. CASE CreateAttach(h)
  <2>1. /\ call[h].at = "attach" /\ Holds(h, dir["path"], Memory(disk[dir["path"]]))
        /\ call' = [call EXCEPT ![h] = NoCall] /\ UNCHANGED dir /\ Leaving(disk)
    BY <1>2, <1>9 DEF CreateAttach
  <2>2. dir["path"] \in Inode /\ disk[dir["path"]] = Whole(NewFile)
    BY <1>1, <1>2, <2>1 DEF Makes, In
  <2>3. dir'["path"] \in Inode /\ disk'[dir'["path"]] = Whole(NewFile)
    BY <1>1, <2>1, <2>2, LeavesUsed
  <2>4. /\ ino'[h] = dir["path"] /\ mem'[h] = Memory(disk[dir["path"]])
        /\ call'[h].op = "none"
    BY <1>1, <2>1 DEF Holds, NoCall, Call
  <2>5. HasFile("path")'
    BY <1>1, <2>3 DEF HasFile, Whole
  <2>6. Resting(h)'
    BY <2>1, <2>2, <2>3, <2>4, <2>5 DEF Resting, Serves
  <2>7. QED
    BY <1>4, <2>3, <2>4, <2>6 DEF Stages
<1>10. QED
  BY <1>5, <1>7, <1>8, <1>9

(* Creating path.tmp is none until it is opened; then squeeze has begun. *)
LEMMA DraftingStages ==
    ASSUME NEW h, Handle = {h}, FilesTypes, Drafting(h),
           CreateTruncate(h) \/ CreateFirst(h) \/ CreateLast(h) \/ CreateAttach(h)
    PROVE  Stages(h)' /\ Does
<1>1. /\ call = [g \in Handle |-> call[g]] /\ h \in Handle
      /\ dir \in [Name -> {0} \cup Inode] /\ ino \in [Handle -> {0} \cup Inode]
      /\ mem \in [Handle -> MemoryState] /\ disk \in [Inode -> FileState]
      /\ tmpmem \in [Handle -> MemoryState]
      /\ \A m, n \in Name : dir[m] = dir[n] /\ dir[m] # 0 => m = n
      /\ 0 \notin Inode /\ {"path", "tmp", "null"} = Name
  BY TypesGive
<1> DEFINE list == Catalog(disk[dir["path"]].img)
<1>2. /\ call[h].op = "squeeze" /\ Target(h) = "tmp"
      /\ call[h].todo = list /\ list # << >> /\ Serves(h) /\ HasFile("path")
      /\ dir["path"] \in Inode /\ dir["tmp"] # dir["path"]
      /\ call[h].at # "truncate" => dir["tmp"] # 0
      /\ call[h].at \in {"truncate", "first", "last", "attach"}
      /\ Makes(h, "squeeze", "tmp")
  BY <1>1 DEF Drafting, Target, Serves, HasFile
<1>3. ~ Copying(h) /\ PathImage = disk[dir["path"]].img
  BY <1>2, PathIs DEF Copying
\* The file stays as it is.
<1>4. ASSUME dir'["path"] = dir["path"], disk'[dir["path"]] = disk[dir["path"]],
             UNCHANGED <<ino, mem>>
      PROVE  Serves(h)' /\ PathImage' = PathImage
  <2>1. Serves(h)' /\ HasFile("path")'
    BY <1>2, <1>4 DEF Serves, HasFile
  <2>2. QED
    BY <1>3, <1>4, <2>1, PathIs
<1>5. ASSUME dir'["path"] = dir["path"], disk'[dir["path"]] = disk[dir["path"]],
             UNCHANGED <<ino, mem>>, dir'["tmp"] # 0,
             call'[h].op = "squeeze", call'[h].at \in {"first", "last", "attach"},
             call'[h].todo = list, Makes(h, "squeeze", "tmp")'
      PROVE  Stages(h)' /\ Does
  <2>1. Serves(h)' /\ PathImage' = PathImage
    BY <1>4, <1>5
  <2>2. ~ Copying(h)'
    BY <1>5 DEF Copying
  <2>3. Drafting(h)'
    BY <1>2, <1>5, <2>1 DEF Drafting
  <2>4. QED
    BY <1>3, <2>1, <2>2, <2>3, NothingDone DEF Stages
<1>6. CASE CreateTruncate(h)
  <2> DEFINE i == Created("tmp")
  <2>1. /\ dir' = [dir EXCEPT !["tmp"] = i]
        /\ call' = [call EXCEPT ![h] = Call(call[h].op, "first", i, call[h].todo)]
        /\ Leaving([disk EXCEPT ![i] = Blank]) /\ UNCHANGED <<ino, mem>>
    BY <1>2, <1>6 DEF CreateTruncate
  <2>2. i \in Inode /\ dir["path"] # i
    BY <1>1, CreatedInode
  <2> HIDE DEF i, list
  <2>3. dir'["tmp"] = i /\ dir'["path"] = dir["path"]
    BY <1>1, <2>1
  <2>4. disk'[i] = Blank /\ disk'[dir["path"]] = disk[dir["path"]]
    BY <1>1, <1>2, <2>1, <2>2, <2>3, StepLeaves, StateParts
  <2>5. /\ call'[h].op = "squeeze" /\ call'[h].at = "first" /\ call'[h].fd = i
        /\ call'[h].todo = list
    BY <1>1, <1>2, <2>1 DEF Call
  <2>6. Makes(h, "squeeze", "tmp")'
    BY <2>3, <2>4, <2>5 DEF Makes, In
  <2>7. QED
    BY <1>1, <1>5, <2>1, <2>2, <2>3, <2>4, <2>5, <2>6
<1>7. ASSUME call[h].at \in {"first", "last"}, NEW file \in {Half, Whole(NewFile)},
             disk' = [disk EXCEPT ![call[h].fd] = file], UNCHANGED dir
      PROVE  /\ dir'["tmp"] # 0 /\ dir'["tmp"] = call[h].fd
             /\ disk'[dir'["tmp"]] = file
             /\ dir'["path"] = dir["path"] /\ disk'[dir["path"]] = disk[dir["path"]]
  <2>1. call[h].fd = dir["tmp"] /\ dir["tmp"] \in Inode
    BY <1>1, <1>2, <1>7 DEF Makes, In
  <2>2. QED
    BY <1>1, <1>2, <1>7, <2>1
<1>8. CASE CreateFirst(h)
  <2>1. /\ call[h].at = "first" /\ disk' = [disk EXCEPT ![call[h].fd] = Half]
        /\ call' = [call EXCEPT ![h] = Call(call[h].op, "last", call[h].fd, call[h].todo)]
        /\ UNCHANGED <<dir, ino, mem>>
    BY <1>8 DEF CreateFirst, GoTo
  <2> HIDE DEF list
  <2>2. /\ call'[h].op = "squeeze" /\ call'[h].at = "last" /\ call'[h].fd = call[h].fd
        /\ call'[h].todo = list
    BY <1>1, <1>2, <2>1 DEF Call
  <2>3. /\ dir'["tmp"] # 0 /\ dir'["tmp"] = call[h].fd /\ disk'[dir'["tmp"]] = Half
        /\ dir'["path"] = dir["path"] /\ disk'[dir["path"]] = disk[dir["path"]]
    BY <1>7, <2>1
  <2>4. Makes(h, "squeeze", "tmp")'
    BY <2>2, <2>3 DEF Makes, In
  <2>5. QED
    BY <1>5, <2>1, <2>2, <2>3, <2>4
<1>9. CASE CreateLast(h)
  <2>1. /\ call[h].at = "last" /\ disk' = [disk EXCEPT ![call[h].fd] = Whole(NewFile)]
        /\ call' = [call EXCEPT ![h] = Call(call[h].op, "attach", call[h].fd, call[h].todo)]
        /\ UNCHANGED <<dir, ino, mem>>
    BY <1>9 DEF CreateLast, GoTo
  <2> HIDE DEF list
  <2>2. /\ call'[h].op = "squeeze" /\ call'[h].at = "attach" /\ call'[h].todo = list
    BY <1>1, <1>2, <2>1 DEF Call
  <2>3. /\ dir'["tmp"] # 0 /\ disk'[dir'["tmp"]] = Whole(NewFile)
        /\ dir'["path"] = dir["path"] /\ disk'[dir["path"]] = disk[dir["path"]]
    BY <1>7, <2>1
  <2>4. Makes(h, "squeeze", "tmp")'
    BY <2>2, <2>3 DEF Makes, In
  <2>5. QED
    BY <1>5, <2>1, <2>2, <2>3, <2>4
<1>10. CASE CreateAttach(h)
  <2>1. /\ call[h].at = "attach" /\ UNCHANGED <<dir, ino, mem>> /\ Leaving(disk)
        /\ call' = [call EXCEPT ![h] = Call(call[h].op, "copy", dir["tmp"], call[h].todo)]
        /\ tmpmem' = [tmpmem EXCEPT ![h] = Memory(disk[dir["tmp"]])]
    BY <1>2, <1>10 DEF CreateAttach
  <2>2. disk[dir["tmp"]] = Whole(NewFile) /\ dir["tmp"] \in Inode
    BY <1>1, <1>2, <2>1 DEF Makes, In
  <2> HIDE DEF list
  <2>3. /\ call'[h].op = "squeeze" /\ call'[h].at = "copy" /\ call'[h].fd = dir["tmp"]
        /\ call'[h].todo = list /\ tmpmem'[h] = Memory(disk[dir["tmp"]])
    BY <1>1, <1>2, <2>1 DEF Call
  <2>4. disk'[dir["tmp"]] = disk[dir["tmp"]] /\ disk'[dir["path"]] = disk[dir["path"]]
    BY <1>1, <1>2, <2>1, <2>2, LeavesUsed
  <2>5. Serves(h)' /\ PathImage' = PathImage
    BY <1>4, <2>1, <2>4
  <2>6. HasFile("tmp")' /\ disk'[dir'["tmp"]].img = NewFile
    BY <1>1, <2>1, <2>2, <2>4 DEF HasFile, Whole
  <2>7. Fills(h)'
    BY <2>1, <2>3, <2>4, <2>5, <2>6 DEF Fills, In
  <2>8. Copying(h)'
    BY <2>3 DEF Copying
  <2>9. CopyTodo' = list /\ CopyImage' = NewFile
    BY <2>3, <2>6, <2>8, OneCopies
  <2>10. Catalog(PathImage) = list /\ list # << >>
    BY <1>2, <1>3 DEF list
  <2>11. Atomic!Next
    BY <1>3, <2>5, <2>8, <2>9, <2>10, BeginIsAtomic
  <2>12. QED
    BY <2>7, <2>11 DEF Stages, Does
<1>11. QED
  BY <1>6, <1>8, <1>9, <1>10

(* A turn of the loop of squeeze is one of NativeDss. *)
LEMMA FillsStages ==
    ASSUME NEW h, Handle = {h}, FilesTypes, Fills(h), SqueezeEntry(h)
    PROVE  Stages(h)' /\ Does
<1> DEFINE todo == call[h].todo
           entry == Head(todo)
           fd == call[h].fd
           file == disk[fd]
           rec == ReadRecord(View(h), entry.path)
           new == StoreRecord(file.img, entry.path, SqueezeForm(entry.type, rec))
<1>1. /\ call = [g \in Handle |-> call[g]] /\ h \in Handle
      /\ dir \in [Name -> {0} \cup Inode] /\ ino \in [Handle -> {0} \cup Inode]
      /\ mem \in [Handle -> MemoryState] /\ disk \in [Inode -> FileState]
      /\ tmpmem \in [Handle -> MemoryState]
      /\ \A m, n \in Name : dir[m] = dir[n] /\ dir[m] # 0 => m = n
      /\ 0 \notin Inode /\ {"path", "tmp", "null"} = Name
  BY TypesGive
<1>2. /\ In(h, "squeeze", "copy") /\ Serves(h) /\ HasFile("path") /\ HasFile("tmp")
      /\ fd = dir["tmp"] /\ fd \in Inode /\ tmpmem[h] = Memory(file)
      /\ file.form = "whole" /\ dir["path"] # fd
      /\ dir["path"] \in Inode
  BY <1>1 DEF Fills, Serves, HasFile
<1>3. /\ todo # << >> /\ ~ SqueezeFails(entry.type, rec)
      /\ call' = [call EXCEPT ![h] = Call(call[h].op, call[h].at, fd, Tail(todo))]
      /\ IF SqueezeCopies(entry.type, rec)
         THEN \E out \in StoreOutcomes(file, tmpmem[h], entry.path,
                                       SqueezeForm(entry.type, rec)) :
                 /\ disk' = [disk EXCEPT ![fd] = out.file]
                 /\ tmpmem' = [tmpmem EXCEPT ![h] = out.mem]
         ELSE UNCHANGED <<disk, tmpmem>>
      /\ UNCHANGED <<dir, ino, mem>>
  BY DEF SqueezeEntry, NextEntry
<1>4. View(h) = disk[dir["path"]].img /\ PathImage = disk[dir["path"]].img
  BY <1>1, <1>2, SeesFile, PathIs DEF Serves, HasFile, View
<1>5. Copying(h) /\ CopyTodo = todo /\ CopyImage = file.img
  <2>1. Copying(h)
    BY <1>2 DEF In, Copying
  <2>2. QED
    BY <1>2, <2>1, OneCopies
<1>6. /\ call'[h].op = "squeeze" /\ call'[h].at = "copy" /\ call'[h].fd = fd
      /\ call'[h].todo = Tail(todo)
  <2> HIDE DEF todo, fd
  <2>1. QED
    BY <1>1, <1>2, <1>3 DEF Call, In
<1>7. Copying(h)' /\ CopyTodo' = Tail(todo)
  <2>1. Copying(h)'
    BY <1>6 DEF Copying
  <2>2. QED
    BY <1>6, <2>1, OneCopies
\* It is enough to look at the new file.
<1>8. ASSUME NEW f, disk' = [disk EXCEPT ![fd] = f], f.form = "whole",
             tmpmem'[h] = Memory(f),
             f.img = IF SqueezeCopies(entry.type, rec) THEN new ELSE file.img
      PROVE  Stages(h)' /\ Does
  <2> HIDE DEF new, rec, entry, todo, file, fd
  <2>1. disk'[fd] = f /\ disk'[dir["path"]] = disk[dir["path"]]
    BY <1>1, <1>2, <1>8
  <2>2. Serves(h)' /\ HasFile("path")' /\ HasFile("tmp")'
    BY <1>2, <1>3, <1>8, <2>1 DEF Serves, HasFile
  <2>3. Fills(h)'
    BY <1>2, <1>3, <1>6, <1>8, <2>1, <2>2 DEF Fills, In
  <2>4. PathImage' = PathImage
    BY <1>3, <1>4, <2>1, <2>2, PathIs
  <2>5. CopyImage' = f.img
    BY <1>2, <1>3, <1>7, <2>1, OneCopies
  <2>6. /\ CopyTodo # << >> /\ CopyTodo' = Tail(CopyTodo) /\ entry = Head(CopyTodo)
        /\ rec = ReadRecord(PathImage, entry.path)
        /\ ~ SqueezeFails(entry.type, rec)
    BY <1>3, <1>4, <1>5, <1>7 DEF rec, entry
  <2>7. CopyImage' = IF SqueezeCopies(entry.type, rec)
                     THEN StoreRecord(CopyImage, entry.path, SqueezeForm(entry.type, rec))
                     ELSE CopyImage
    BY <1>5, <1>8, <2>5 DEF new
  <2>8. Atomic!Next
    BY <1>5, <1>7, <2>4, <2>6, <2>7, EntryIsAtomic
  <2>9. QED
    BY <2>3, <2>8 DEF Stages, Does
<1>9. CASE ~ SqueezeCopies(entry.type, rec)
  <2> HIDE DEF new, rec, entry, todo
  <2>1. disk' = [disk EXCEPT ![fd] = file] /\ tmpmem'[h] = Memory(file)
    BY <1>1, <1>2, <1>3, <1>9
  <2>2. QED
    BY <1>2, <1>8, <1>9, <2>1
<1>10. CASE SqueezeCopies(entry.type, rec)
  <2>1. PICK out \in StoreOutcomes(file, tmpmem[h], entry.path,
                                   SqueezeForm(entry.type, rec)) :
          /\ disk' = [disk EXCEPT ![fd] = out.file]
          /\ tmpmem' = [tmpmem EXCEPT ![h] = out.mem]
    BY <1>3, <1>10
  <2>2. ~ tmpmem[h].half /\ Behind(file, tmpmem[h].hdr) = file.img
    <3> HIDE DEF file
    <3>1. Memory(file).half <=> file.form = "half"
      BY DEF Memory
    <3>2. file \in FileState
      BY <1>1, <1>2 DEF file
    <3>3. QED
      BY <1>2, <3>1, <3>2, SeesFile
  <2>3. out = [ok |-> TRUE, file |-> Whole(new), mem |-> [half |-> FALSE, hdr |-> new.hdr]]
    BY <2>1, <2>2 DEF StoreOutcomes
  <2> HIDE DEF new, rec, entry, todo, file, fd
  <2>4. /\ out.file.form = "whole" /\ out.file.img = new
        /\ out.mem = Memory(out.file)
    BY <2>3 DEF Whole, Memory
  <2>5. tmpmem'[h] = Memory(out.file)
    BY <1>1, <2>1, <2>4
  <2>6. QED
    BY <1>8, <1>10, <2>1, <2>4, <2>5
<1>11. QED
  BY <1>9, <1>10

(* Renaming path.tmp is the end of squeeze; what comes before and after is *)
(* no step of NativeDss. *)
LEMMA SwapsStages ==
    ASSUME NEW h, Handle = {h}, FilesTypes, Fills(h) \/ Swaps(h),
           SqueezeNull(h) \/ SqueezeRename(h) \/ SqueezeUnlink(h) \/ SqueezeReopen(h)
    PROVE  Stages(h)' /\ Does
<1>1. /\ call = [g \in Handle |-> call[g]] /\ h \in Handle
      /\ dir \in [Name -> {0} \cup Inode] /\ ino \in [Handle -> {0} \cup Inode]
      /\ mem \in [Handle -> MemoryState] /\ disk \in [Inode -> FileState]
      /\ \A m, n \in Name : dir[m] = dir[n] /\ dir[m] # 0 => m = n
      /\ 0 \notin Inode /\ {"path", "tmp", "null"} = Name
  BY TypesGive
<1>2. HasFile("path") /\ dir["path"] \in Inode /\ PathImage = disk[dir["path"]].img
  BY <1>1, PathIs DEF Fills, Swaps, Serves, HasFile
<1>3. CASE SqueezeNull(h)
  <2> DEFINE i == Created("null")
  <2>1. /\ In(h, "squeeze", "copy") /\ call[h].todo = << >>
        /\ dir' = [dir EXCEPT !["null"] = i]
        /\ call' = [call EXCEPT ![h] = Call(call[h].op, "rename", 0, call[h].todo)]
        /\ Leaving([disk EXCEPT ![i] = Blank])
    BY <1>3 DEF SqueezeNull
  <2>2. HasFile("tmp")
    BY <2>1 DEF In, Fills, Swaps
  <2>3. i \in Inode /\ dir["path"] # i /\ dir["tmp"] # i
    BY <1>1, CreatedInode
  <2> HIDE DEF i
  <2>4. dir'["tmp"] = dir["tmp"] /\ dir'["path"] = dir["path"] /\ dir["tmp"] \in Inode
    BY <1>1, <2>1, <2>2 DEF HasFile
  <2>5. disk'[dir["tmp"]] = disk[dir["tmp"]] /\ disk'[dir["path"]] = disk[dir["path"]]
    BY <1>1, <1>2, <2>1, <2>3, <2>4, StepLeaves, StateParts
  <2>6. call'[h].op = "squeeze" /\ call'[h].at = "rename" /\ call'[h].todo = << >>
    BY <1>1, <2>1 DEF Call, In
  <2>7. HasFile("path")' /\ HasFile("tmp")'
    BY <1>2, <2>2, <2>4, <2>5 DEF HasFile
  <2>8. Swaps(h)'
    BY <2>6, <2>7 DEF Swaps
  <2>9. PathImage' = PathImage
    BY <1>2, <2>4, <2>5, <2>7, PathIs
  <2>10. Copying(h) /\ Copying(h)'
    BY <2>1, <2>6 DEF Copying, In
  <2>11. CopyImage' = CopyImage /\ CopyTodo' = CopyTodo
    BY <2>1, <2>4, <2>5, <2>6, <2>10, OneCopies
  <2>12. QED
    BY <2>8, <2>9, <2>11 DEF Stages, Does
<1>4. CASE SqueezeRename(h)
  <2>1. /\ In(h, "squeeze", "rename")
        /\ dir' = [dir EXCEPT !["path"] = dir["tmp"], !["tmp"] = 0]
        /\ call' = [call EXCEPT ![h] = Call(call[h].op, "unlink", call[h].fd, call[h].todo)]
        /\ Leaving(disk)
    BY <1>4 DEF SqueezeRename, GoTo
  <2>2. call[h].todo = << >> /\ HasFile("tmp")
    BY <2>1 DEF In, Fills, Swaps
  <2>3. dir["tmp"] \in Inode /\ dir'["path"] = dir["tmp"]
    BY <1>1, <2>1, <2>2 DEF HasFile
  <2>4. disk'[dir'["path"]] = disk[dir["tmp"]]
    BY <1>1, <2>1, <2>3, LeavesUsed
  <2>5. HasFile("path")' /\ PathImage' = disk[dir["tmp"]].img
    BY <1>1, <2>2, <2>3, <2>4, PathIs DEF HasFile
  <2>6. call'[h].op = "squeeze" /\ call'[h].at = "unlink"
    BY <1>1, <2>1 DEF Call, In
  <2>7. Copying(h) /\ ~ Copying(h)'
    BY <2>1, <2>6 DEF Copying, In
  <2>8. CopyTodo = << >> /\ CopyImage = disk[dir["tmp"]].img
    BY <2>2, <2>7, OneCopies
  <2>9. Atomic!Next
    BY <2>5, <2>7, <2>8, EndIsAtomic
  <2>10. Swaps(h)'
    BY <2>5, <2>6 DEF Swaps
  <2>11. QED
    BY <2>9, <2>10 DEF Stages, Does
\* The file has been replaced.
<1>5. ASSUME dir'["path"] = dir["path"], Leaving(disk),
             call[h].at \in {"unlink", "reopen"},
             call'[h].op = "none" \/ call'[h].at = "reopen"
      PROVE  /\ HasFile("path")' /\ disk'[dir["path"]] = disk[dir["path"]] /\ Does
  <2>1. disk'[dir["path"]] = disk[dir["path"]]
    BY <1>1, <1>2, <1>5, LeavesUsed
  <2>2. HasFile("path")' /\ PathImage' = PathImage
    BY <1>2, <1>5, <2>1, PathIs DEF HasFile
  <2>3. ~ Copying(h) /\ ~ Copying(h)'
    BY <1>5 DEF Copying
  <2>4. QED
    BY <2>1, <2>2, <2>3, NothingDone
<1>6. CASE SqueezeUnlink(h)
  <2>1. /\ In(h, "squeeze", "unlink") /\ Leaving(disk)
        /\ dir' = [dir EXCEPT !["null"] = 0] \/ UNCHANGED dir
        /\ call' = [call EXCEPT ![h] = Call(call[h].op, "reopen", call[h].fd, call[h].todo)]
    BY <1>6 DEF SqueezeUnlink, GoTo
  <2>2. dir'["path"] = dir["path"]
    BY <1>1, <2>1
  <2>3. call'[h].op = "squeeze" /\ call'[h].at = "reopen"
    BY <1>1, <2>1 DEF Call, In
  <2>4. HasFile("path")' /\ Does
    BY <1>5, <2>1, <2>2, <2>3 DEF In
  <2>5. QED
    BY <2>3, <2>4 DEF Swaps, Stages
<1>7. CASE SqueezeReopen(h)
  <2>1. /\ In(h, "squeeze", "reopen") /\ UNCHANGED dir /\ Leaving(disk)
        /\ Holds(h, dir["path"], Memory(disk[dir["path"]]))
        /\ call' = [call EXCEPT ![h] = NoCall]
    BY <1>7 DEF SqueezeReopen
  <2>2. /\ call'[h].op = "none" /\ ino'[h] = dir["path"]
        /\ mem'[h] = Memory(disk[dir["path"]])
    BY <1>1, <2>1 DEF NoCall, Call, Holds
  <2>3. HasFile("path")' /\ disk'[dir["path"]] = disk[dir["path"]] /\ Does
    BY <1>5, <2>1, <2>2 DEF In
  <2>4. Resting(h)'
    BY <2>1, <2>2, <2>3 DEF Resting, Serves
  <2>5. QED
    BY <2>3, <2>4 DEF Stages
<1>8. QED
  BY <1>3, <1>4, <1>6, <1>7

(* While nothing goes wrong, no call misses a file. *)
LEMMA StagesMiss ==
    ASSUME NEW h, FilesTypes, h \in Handle, Stages(h)
    PROVE  ~ Misses(h)
<1>1. CASE Resting(h)
  <2>1. call[h].at = "none"
    BY <1>1, TypesGive DEF Resting, CallOK
  <2>2. QED
    BY <2>1 DEF Misses
<1>2. CASE Founding(h)
  <2>1. call[h].at = "attach" => Opens(Target(h))
    BY <1>2 DEF Founding, Makes, In, Opens, Target, Whole
  <2>2. QED
    BY <1>2, <2>1 DEF Founding, Misses
<1>3. CASE Drafting(h)
  <2>1. call[h].at = "attach" => Opens(Target(h))
    BY <1>3 DEF Drafting, Makes, In, Opens, Target, Whole
  <2>2. QED
    BY <1>3, <2>1 DEF Drafting, Misses
<1>4. CASE Fills(h)
  <2>1. disk[ino[h]].form = "whole"
    BY <1>4 DEF Fills, Serves, HasFile
  <2>2. ~ tmpmem[h].half
    <3>1. Memory(disk[dir["tmp"]]).half <=> disk[dir["tmp"]].form = "half"
      BY DEF Memory
    <3>2. QED
      BY <1>4, <3>1 DEF Fills, HasFile
  <2>3. QED
    BY <1>4, <2>1, <2>2 DEF Fills, In, Misses
<1>5. CASE Swaps(h)
  <2>1. Opens("path") /\ (call[h].at = "rename" => dir["tmp"] # 0)
    BY <1>5 DEF Swaps, HasFile, Opens
  <2>2. QED
    BY <1>5, <2>1 DEF Swaps, Misses
<1>6. QED
  BY <1>1, <1>2, <1>3, <1>4, <1>5 DEF Stages

(* Every step without faults is one of NativeDss or none. *)
LEMMA StagesStep ==
    ASSUME NEW h, Handle = {h}, FilesTypes, faults = 0 => Stages(h),
           [Next]_vars, faults' = 0
    PROVE  Stages(h)' /\ Does
<1>1. h \in Handle /\ faults \in Nat /\ CallOK(call[h], ino[h])
  BY DEF FilesTypes, FilesTypeOK
<1>2. CASE UNCHANGED vars
  BY <1>2 DEF vars, Stages, Resting, Founding, Drafting, Fills, Swaps, Makes,
     Serves, HasFile, In, Does, PathImage, CopyImage, CopyTodo, Copying, Opens
<1>3. CASE Next
  <2>1. \/ Open(h) \/ Close(h) \/ SqueezeBegin(h)
        \/ \E path \in Path, text \in Text : Store(h, path, text)
        \/ \E path \in Path : Delete(h, path)
        \/ Step(h) \/ SqueezeEntry(h) \/ Error(h) \/ Crash(h)
    BY <1>3 DEF Next
  <2>2. CASE Open(h) \/ Close(h) \/ SqueezeBegin(h)
    <3>1. faults = 0 /\ ~ Busy(h)
      BY <1>1, <2>2 DEF Open, Close, SqueezeBegin, Idle
    <3>2. Resting(h)
      BY <3>1 DEF Stages, Busy, Founding, Drafting, Fills, Swaps, In
    <3>3. QED
      BY <2>2, <3>2, CallerStages
  <2>3. CASE \E path \in Path :
                 (\E text \in Text : Store(h, path, text)) \/ Delete(h, path)
    <3>1. faults = 0 /\ ~ Busy(h)
      BY <1>1, <2>3 DEF Store, Delete, Idle
    <3>2. Resting(h)
      BY <3>1 DEF Stages, Busy, Founding, Drafting, Fills, Swaps, In
    <3>3. QED
      BY <2>3, <3>2, UseStages
  <2>4. CASE CreateTruncate(h) \/ CreateFirst(h) \/ CreateLast(h) \/ CreateAttach(h)
    <3>1. faults = 0 /\ call[h].at \in {"truncate", "first", "last", "attach"}
      BY <2>4 DEF CreateTruncate, CreateFirst, CreateLast, CreateAttach
    <3>2. Founding(h) \/ Drafting(h)
      BY <1>1, <3>1 DEF Stages, CallOK, Resting, Fills, Swaps, In
    <3>3. QED
      BY <2>4, <3>2, FoundingStages, DraftingStages
  <2>5. CASE SqueezeNull(h) \/ SqueezeRename(h) \/ SqueezeUnlink(h) \/ SqueezeReopen(h)
    <3>1. /\ call[h].op = "squeeze"
          /\ call[h].at \in {"copy", "rename", "unlink", "reopen"}
      BY <2>5 DEF SqueezeNull, SqueezeRename, SqueezeUnlink, SqueezeReopen, In
    <3>2. faults = 0
      BY <1>1, <2>5 DEF SqueezeNull, SqueezeRename, SqueezeUnlink, SqueezeReopen
    <3>3. Fills(h) \/ Swaps(h)
      BY <3>1, <3>2 DEF Stages, Resting, Founding, Drafting
    <3>4. QED
      BY <2>5, <3>3, SwapsStages
  <2>6. CASE SqueezeEntry(h)
    <3>1. faults = 0 /\ call[h].op = "squeeze" /\ call[h].at = "copy"
      BY <2>6 DEF SqueezeEntry, NextEntry, In
    <3>2. Fills(h)
      BY <3>1 DEF Stages, Resting, Founding, Drafting, Swaps
    <3>3. QED
      BY <2>6, <3>2, FillsStages
  <2>7. CASE Error(h) \/ Crash(h)
    <3>1. faults = 0 /\ Misses(h)
      BY <1>1, <2>7 DEF Error, Crash
    <3>2. QED
      BY <1>1, <3>1, StagesMiss
  <2>8. QED
    BY <2>1, <2>2, <2>3, <2>4, <2>5, <2>6, <2>7 DEF Step
<1>4. QED
  BY <1>2, <1>3

(* FilesImplementNativeDss: with one handle and until a fault, what path   *)
(* leads to is the file of NativeDss.  Creation is invisible, each turn of *)
(* the loop of squeeze is a step, and renaming replaces the file; nothing  *)
(* that squeeze does to names and handles besides can be seen.             *)
THEOREM FilesRefineNativeDss ==
    ASSUME NEW h, Handle = {h}
    PROVE  Spec => FilesImplementNativeDss
<1> DEFINE StagesInv == FilesTypes /\ (faults = 0 => Stages(h))
<1>1. Init => StagesInv /\ Atomic!Init
  <2> SUFFICES ASSUME Init PROVE StagesInv /\ Atomic!Init
    OBVIOUS
  <2>1. FilesTypes
    BY TypesInit
  <2>2. /\ dir = [n \in Name |-> 0] /\ ino[h] = 0 /\ call[h] = NoCall /\ "path" \in Name
    BY DEF Init, Name
  <2>3. Resting(h)
    BY <2>2 DEF Resting, NoCall, Call
  <2>4. ~ \E g \in Handle : Copying(g)
    BY <2>2 DEF NoCall, Call, Copying
  <2>5. PathImage = NewFile /\ CopyImage = NewFile /\ CopyTodo = << >>
    BY <2>2, <2>4, PathIs DEF CopyImage, CopyTodo
  <2>6. Atomic!Init
    BY <2>4, <2>5, SameOperations DEF Atomic!Init
  <2>7. QED
    BY <2>1, <2>3, <2>6 DEF Stages
<1>2. StagesInv /\ [Next]_vars => StagesInv'
  BY TypesStep, StagesStep
<1>3. StagesInv /\ [Next]_vars
        => [faults' = 0 => Atomic!Next]_<<PathImage, CopyImage, CopyTodo>>
  BY StagesStep DEF Does
<1>4. QED
  BY <1>1, <1>2, <1>3, PTL DEF Spec, FilesImplementNativeDss
=============================================================================
