# The native DSS7 format, specified and checked

HEC-DSS files hold named hydrologic records: time series, paired data, texts,
arrays, locations and grids.  This repository writes and reads version 7 of the
format in pure Rust (`crates/dss-core/src/format/`).  The modules here model
that implementation: the image of a file, every operation of a `NativeDssFile`
handle that changes it, and what a caller may rely on.  All paths below are
relative to `src/`.

## The system

| Part | State | Operations | Interacts with |
|---|---|---|---|
| Header and creation (`header.rs`, `keys.rs`, `writer.rs`, `io.rs`) | 100 header words on disk, a copy in each handle | `create_dss_file`, `read_from` | everything: `FILE_SIZE` and `ADD_NEXT_EMPTY_BIN` are the two allocators |
| Bins and hash table (`bin.rs`, `hash.rs`, `native.rs` 2218-2309) | hash table, chain of bin blocks | `write_bin_entry`, `allocate_new_bin_block`, `find_pathname`, `read_all_bins` | called by every write and every lookup |
| Records (`native.rs`, `record.rs`) | info block and data areas, appended at the end of the file | `write_*`, `read_*` | header, bins |
| Marks and aliases (`native.rs` 364-405, 572-598, 764-856) | status words, entries sharing an info block | `delete`, `undelete`, `alias_add`, `alias_remove`, `alias_list` | bins, catalog |
| Squeeze (`native.rs` 494-569) | `path.tmp`, `path.null`, then the file itself | read the catalog, copy record by record, rename, reopen | catalog, read and write functions, other handles on the name |
| Copy (`native.rs` 604-684) | a second handle | `copy_record`, `copy_file` | read and write functions |
| Integrity check and recovery scan (`native.rs` 690-754, `v6.rs` 224-282) | none | `check_file`, `scan_v7_records` | bins, info blocks |
| Change tracking (`native.rs` 865-917) | none | `get_data_crc`, `snapshot_crcs`, `what_changed` | catalog, lookup |
| Blocked series and dates (`datetime.rs`, `native.rs` 1182-1309) | none | Julian dates, block starts, `write_ts_multi`, `read_ts_window` | `write_ts`, `read_ts` |
| Pathnames and filters (`pathname.rs`, `native.rs` 102-172) | none | parsing, validation, wildcards | catalog, hash |
| Several handles (`native.rs` 276, `locking.rs`) | a header copy in each handle | every operation, interleaved | the file system; `lock_file` is never called |
| C interface (`dss-ffi`) | a mutex around each handle | open or create, close, one function for each operation | native format |
| DSS6 reader (`v6.rs`) | none | decode | nothing that writes |
| Conversion (`dss-convert`) | two counters | read through the C library, write again | native format |
| C library wrapper, Python, Fortran (`file.rs`, `dss-sys`, `dss-python`, `dss-fortran`) | none of their own | one call each | the C library or the native format |

What is hard here: the two allocators and their order inside one write; a
lookup that follows the hash table to a single slot while the catalog walks the
whole chain; a squeeze that reads by name what it enumerated by entry; header
copies of several handles without a lock; a crash between the writes of one
operation; a handle that holds a file while the name moves on to another; sizes
told in one call of the C interface and used in the next.  `PROJECT.json` lists each hazard at its line.

What makes the parts correct:

* **Bins and records**: nothing is ever laid over anything that is in use, the
  chain reaches every entry, the counters of the header agree with the bins.
* **Lookup**: a name leads to one definite record, and to the same one until
  the file is squeezed.
* **Marks**: an operation on one entry changes that entry's status and nothing
  else.
* **Squeeze**: all or nothing; what was readable stays readable; a second
  squeeze changes nothing.
* **Dates and blocks**: conversions invert each other, the blocks of a series
  cover it once.
* **Handles, crash**: what one handle stored, another does not destroy; what a
  completed store made readable stays readable after any crash.
* **Names and files**: at every moment the name leads to a file that has every
  stored record; a handle that can be used is on that file.
* **Copy**: the destination reads what the source read, keeps what it had, and
  the number reported is the number of records gained.
* **C interface**: what a call told stays good enough for the call that
  follows, whatever other threads do in between.

## The modules

| Module | Models |
|---|---|
| `DssRecords` | type codes, the areas of each kind of record, what the readers make of a record, the form in which squeeze carries it |
| `DssImage` | one file as a value: header, hash table, cells; pure operators for storing, entering a name, allocating a block, looking up and walking |
| `NativeDss` | one handle: an action for each operation that changes the file; squeeze as the steps of its loop |
| `NativeDssSqueeze` | what a caller may rely on across a squeeze |
| `DssLog` | the abstract specification: an append-only log of named entries |
| `NativeDssLog` | the refinement mapping from `NativeDss` to `DssLog` and the properties that need it |
| `NativeDssRecovery` | the recovery scan and the integrity check as operators on a file |
| `NativeDssClaims` | statements of comments, tests and documentation about one handle that the program does not keep; change tracking as operators |
| `DssHandles` | the operations as sequences of single writes: crashes, failing writes, reopening, several handles; refines `NativeDss` |
| `DssFiles` | the names `path`, `path.tmp` and `path.null` and the files behind them; create, open, close and squeeze as single accesses to the file system, with crashes and errors |
| `DssCopy` | two files: `copy_record`, `copy_file`, `dss-convert` |
| `DssClients` | threads that share one handle of the C interface |
| `DssDates` | the pure functions of `datetime.rs` between dates and Julian days |
| `DssCalendar` | the reference for them: the Gregorian calendar, day after day |
| `DssBlocks` | block starts, the loops of `write_ts_multi` and `read_ts_window` |
| `DssImageProofs` | lemmas about the operators on images: types, what they keep of the layout and of what is read; the walk of the bins and what every operation makes of it |
| `NativeDssProofs`, `DssFilesProofs`, `DssClientsProofs`, `DssHandlesProofs`, `DssListedProofs`, `DssCopyProofs`, `DssDatesProofs` | the theorems |
| `MCNativeDss`, `MCNativeDssLog`, `MCDssHandles`, `MCDssFiles`, `MCDssCopy`, `MCDssClients`, `MCDssCalendar`, `MCDssBlocks` | values for TLC |

`NativeDss`, `DssHandles`, `DssFiles`, `DssCopy` and `DssClients` extend
`DssImage`, which extends `DssRecords`; `DssBlocks` and `DssCalendar` extend
`DssDates`.  `DssCopy` is composed of two instances of `NativeDss`.  Three
refinements tie the levels together: `DssHandles` (single writes) and `DssFiles`
(names and files) implement `NativeDss` (whole operations), and `NativeDss`
implements `DssLog`.

### How the state corresponds to the code

An image has a header, a hash table and a sequence of **cells**.  A cell is the
smallest piece that is read and written as a whole: an info block, one data
area, one bin entry, the overflow word of a bin block, the end-of-file flag or
zeros.  Addresses count cells instead of words.  Header and hash table have
fixed places in the file, are never moved, and are fields of their own; the
first bin block starts at address 1.  A bin slot is `BinSize` cells, of which
the entry takes the first, so that the arithmetic of slots, blocks and the
overflow word is that of the code.

The payload of a data area is abstract: a member of `Value` for what the caller
passed, a token for what a write derives (the length word of a text) or carries
along (units, times, labels).  A text read from an area that was not written as
text is `Garbled`.

`spilled` is a ghost.  It becomes true when a write (not `alias_add`) finds the
bin block full; the block is then laid over the record being written (see
below), and the records written afterwards lie inside the block.  The image
still follows the code cell by cell from there on, but cells no longer have the
sizes they have in words, so after that point only the counters and the types
are claimed.

Each action of `NativeDss` is one method, complete with its trailing header
write: methods take `&mut self`, so within one handle nothing interleaves with
them.  Squeeze is cut into steps (catalog, one entry, error, replacement)
because that is where its properties lie.  Operations that return an error
before changing anything are no action: they change no variable.

Two facts of the code shape everything above it.  `find_pathname` looks into
the one slot the hash table names, which is the slot of the *first* name of
that table hash; a second name of the same table hash is in the catalog but
cannot be found, and a name written a second time keeps reading its first
record.  And no lookup considers the status, so a deleted record can be read.
`DssLog` states this behaviour (`Oldest`, `Find`, `Read`), and the refinement
shows it is all there is to know.

### Single writes (`DssHandles`)

`disk` is the file, `hdr[h]` the header a handle has in memory (`self.header`),
`job[h]` the `write_words` calls left of the operation it is in.  An operation
begins by reading what it needs and by queueing its writes; `Write` does the
first of them and changes the header in memory where the code does, behind the
overflow pointer and behind the hash table slot.  So the disk and the header in
memory disagree during an operation exactly as they do in the program.

`Crash` ends an operation at any write and opens the file again, with the
header from disk; if the write is that of the header, the words up to a place in
`TornAt` are new and the rest is old.  `Fail` is a `write_words` that returns an error: the
operation is over, the handle goes on with what was changed in memory so far.
The error of `write_bin_entry` for a pathname too long for a bin slot,
found after the record was written, is the same step: `Fail` in front of the
entry.  `Reopen` drops a handle and opens the file again.

A write of one cell, of the zeros of a block or of a hash table slot happens as
a whole.  A file is a plain `File` and every word reaches the operating system
in its own call, so a process that dies leaves what it wrote in order; power
loss, where writes may be lost out of order, is not modelled (the code never
syncs).  Data areas and info blocks written in part need no states of their own:
until the hash table slot is written nothing leads to them.

A bin entry is one cell that replaces what was in its slot.  In the file
`write_bin_entry` writes as many words as the name needs (`native.rs`
2250-2261), and a crash between entry and header leaves the slot to be used
again: behind a shorter entry, words of the longer name then stay in the slot,
and `read_all_bins`, which takes several entries to a slot, looks for one more
there.  What it makes of them is not in the model, and no property here says
anything of it.

`HeaderOrder` has the header's words in the order of the file, which is the
order in which `write_words` writes them.  Of the ten places at which the
header can be torn one is harmful, behind the seventh word: `BINS_REMAIN` is
then new and `ADD_NEXT_EMPTY_BIN` old, and a process that goes on from there
chains a new block when one slot of the old one is left, with the overflow
pointer where the last slot was (`MCDssHandles_torn`).  The other nine are in
the `atomic` run.

Two ghosts serve the properties.  `kept` is what a name read when a store of it
completed and it was found through that store's own entry; `settled` is the
file after the last completed operation before the first fault.

### Names and files (`DssFiles`)

`dir` is the directory (a file for each of three names), `disk` the files,
`ino[h]` the file a handle has open, `mem[h]` its header.  A handle holds a file
and not a name, so a file that `squeeze` has replaced lives on as long as a
handle is on it.  A file is *blank* (open refuses it), *half* (it has the first
header `create_dss_file` writes, in which all addresses are zero), or *whole*.
Stores and deletes are single steps here, because `DssHandles` has their writes;
create and squeeze are cut at every access to the file system: truncate, first
header, the rest with the last header, open again; for squeeze one step for each
record copied, `path.null`, rename, remove, open.

`Error` returns from a call at any of these steps, `Crash` ends the process
there.  `Misses` are the errors that another handle causes, by taking a file
away; they need no fault.  With `Careful` a caller drops a handle when a call has
failed; without, it goes on with what it has, which after a failed rename is the
empty `path.null` under the header of the old file.  Set to `FALSE` in
`MCDssFiles_files.cfg`, it makes `HandleIsOnPath` fail.

A store through a half-created file is modelled by what it does: it writes at
address 0 and following, puts the overflow pointer over the identifier, looks
for the hash table at address 0 and ends either with the identifier restored and
nothing that can be found, or with an error and a file that open refuses.

### Copies (`DssCopy`)

The source is an instance of `NativeDss` with all of its operations, the
destination one with stores of its own; `copy_record` is one step, `copy_file`
and the loop of `dss-convert` a step for each record.  What `dss-convert` reads
comes from the C library, which is outside of the repository: it is any list of
names, each with a text, a series or paired data.

A copy and a squeeze differ: squeeze selects the reader by the type of the
catalog entry and skips arrays, locations, grids and empty texts;
`copy_record` selects it by the type of the record that is found, and copies
all of these.  Both turn an irregular series into a regular one and lose labels.
`dss-convert` is not "equivalent to squeeze" either (its `README.md` 14): it
skips paired data and copies an empty text (`ConvertCopies`).

### Threads of the C interface (`DssClients`)

Each function locks the mutex of its handle before its first access and unlocks
it at its end, so a call is a step.  Some calls come in pairs: `tsGetSizes`,
`pdRetrieveInfo` or `arrayRetrieveInfo`, then the call for the data, which
copies no more than the caller's buffers hold; `record_count`, then `catalog`.
`ask[t]` is what the first call told.  What a caller gets in the second call is
`CutOff` and `Listing`, in the state in which it is made.  There is no alias call
in the C interface, so aliases come with the file (`WithAlias`).

The size told for the values of paired data is not that of what is stored but
what the internal header says: the number of ordinates, which `write_pd` has
counted, times the number of curves, which is what the caller of `pdStore`
passed and which nothing compares with the number of values.  `PdStore` takes
ordinates, values and header (`Curves` is the number of curves in it) in any
combination, `Sizes` multiplies (`HeaderSize`), and `CutOff` compares with the
values stored.  The comment of `write_pd` (`native.rs` 1456) asks for
"n_ordinates * n_curves" values; `CountsCurves` says that of a record, and
`RetrievesWhole` assumes it of the paired data a caller asks for, and of no
other call.  `MCDssClients_curves` shows what happens without it.  Negative
numbers of curves, and products that exceed 32 bits, are left out.

Seen while reading, below the level of the model: `tsStoreRegular` ignores the
start date and `tsRetrieve` the window it is given, both leave that to the name;
`textStore` stores an empty text for bytes that are not UTF-8 and returns 0;
`read_ts` returns units with the type behind a zero byte and an empty type, so
that `tsRetrieve` and `tsRetrieveInfo` disagree about a series' type.

### Recovery

`scan_v7_records` looks for the flag of an info block in every word of the file
and takes name and type from what follows.  In the image the flag is the tag of
a cell; that a payload contains the same 64 bits is left out.  The status word
of an info block is written once, so the scan cannot tell a deleted record.

### Dates and blocks

`DssDates` translates the functions of `datetime.rs` with the division of `i32`
(towards zero).  The two search loops become "the first year (month) within the
loop's bounds that starts later"; the floating point estimate of the year is the
quotient by 146097/400, rounded towards zero, which may differ from the `f64`
result only where the search corrects it.

`DssCalendar` does not compute: it counts days and turns the page at the end of
a month.  It starts after the year 4, because from there on the conversions are
right: before, `leap_days` is 1 for the years 1 to 4 and again for the year 5,
although year 4 had a leap day of its own, so that 31 December of year 4 and 1
January of year 5 have the same number.  No record is that old.

In `DssBlocks` a value is its position in the series, so a record holds a range
of positions and a lost, doubled or displaced value shows.  One turn of each
loop is a step.

## Runs

The runs on images use two or three names, a hash table of two slots, slots of
two cells and one or two values.  Three names with two in one slot of the hash
table, and those two with equal pathname hashes, are enough for every comparison
the lookups make to come out both ways.

* `log`: three bins in blocks of two, so that an alias or a write chains the
  second.  `squeeze`: three entries fit a block
  of four, so that no write allocates one.  `MaxBins` bounds entries,
  `MaxDeletes` delete and alias_remove calls in one file; squeeze resets both,
  so behaviours are unbounded in length.
* `crash`: four bins and two faults, enough for a fault in the aftermath of
  another: the second may hit the store that reuses the slot or the place of the
  first, or the allocation that follows.  `atomic`: one fault, every place but
  one at which the header can be torn, aliases and deletes.
* `files`: one handle, two names, two faults, so that a squeeze or create finds
  what two failed ones left behind: a `path.tmp` of any form, a `path.null`, a
  `path` that a dying create left blank or half.
* `copy`: two bins in the source and in the destination before a copy begins,
  every record type, two names of one slot in the hash table.
* `clients`: two threads (symmetric), two records, a delete, values of one and
  three items, internal headers with one and three curves, so that values fill
  their curves, exceed them and fall short of them.

Deadlock is checked where there is no `CHECK_DEADLOCK FALSE`.  Elsewhere a full
file with every delete used up has nothing left to do within the bounds, and in
`DssBlocks` and `DssCalendar` the loops and the walk end.

| Run | Shows |
|---|---|
| `log` | the file refines `DssLog` (`ImplementsLog`) and lookups agree with it (`LookupMatchesLog`); types and counters throughout; `RegionsApart`: free slots and overflow word are zeros in front of `FILE_SIZE`, as is everything an entry leads to |
| `squeeze` | all seven write functions and aliases: each entry leads to a record of its type (`RecordsIntact`); the scan finds name and type of each record in the order of the bins and nothing else (`ScanFindsRecords`); what squeeze keeps readable (`SqueezeKeepsReadable`); a second squeeze would change nothing and cannot fail, if no name was used for two types (`SqueezeIsIdempotent`) |
| `crash` | two faults at any write: durable stores, listed by the catalog, and a header on disk that counts no slot without an entry |
| `atomic` | up to the first fault the writes add up to `NativeDss` and a reader between two writes sees whole records; after it, with a torn header or not, the same as `crash` |
| `files` | `path` leads to a whole file with every record kept, between any two steps and after any two faults (`KeptOnPath`); a handle is on that file with its header (`HandleIsOnPath`); an undisturbed squeeze ends, and leaves neither deleted entries nor temporary names (`SqueezeReclaims`); renaming is the one moment at which the file of `NativeDss` is replaced (`FilesImplementNativeDss`) |
| `copy` | every name reads in the destination what it read in the source (`FileIsCopied`), the count is right (`CopiedAreRecords`), nothing the destination had changes (`CopyKeepsTarget`) |
| `clients` | buffers of the told sizes hold all of the record, of paired data if its values fill its curves (`RetrievesWhole`); a catalog with room for the record count misses no more entries than the file has aliases (`CatalogMissesAliasesOnly`), which the count does not include, against its documentation: see `MCDssClients_aliases` below |
| `calendar` | sixteen thousand days, around the years 5, 1800, 1900, 2000 and 2100: consecutive numbers, exact inverse, months outside of 1 to 12 |
| `aligned` | five series and 21 windows each: nothing lost, every record begins with its block, the window is covered in order |

`SqueezeIsIdempotent` needs its condition.  Without it TLC finds: write a
series, delete it, write a text and a series under the same name, squeeze.  The
text entry reads the deleted series and is written as a garbled text, in front
of the series; the name now reads the garbled text, and the next squeeze fails.

`StoresAreDurable` speaks of names that are found through the entry their store
has made; a name whose hash table slot leads to an older entry is not covered by
it but by `MCDssHandles_reuse` below.  `ReadersSeeWhole` is claimed without
faults: after a crash a name may be in the hash table whose record is then
overwritten area by area.  `KeptOnPath`, `HandleIsOnPath` and
`FilesImplementNativeDss` are claimed for one handle at a time, with a careful
caller; `lost`, `MCDssFiles_half` and `MCDssFiles_emptied` show what happens
otherwise.  When a caller goes on with a handle whose squeeze has failed on the
rename, what it stores is lost: with one handle, `Careful = FALSE`, `Faulty =
{"error"}` and one fault in `MCDssFiles_lost`, TLC finds that too.
`FileIsCopied` says nothing of a name whose table hash the destination had in
use before: the copy is then stored and cannot be found (`MCDssCopy_again`).

The runs that end in a violation each check one statement of the repository:

| Run | Statement | What happens |
|---|---|---|
| `block` | `native.rs` 2277: a new bin block is allocated "at EOF" | it is allocated at `FILE_SIZE`, which still is the address of the record just written: the record is zeroed, its entry lies where it was |
| `shared` | `dss-core/README.md` 16: "Thread-safe: file locking via `fs2`" | `lock_file` is never called; a second handle appends at its own old `FILE_SIZE`, over the first handle's records |
| `lost` | `dss-ffi/README.md` 20: "Multiple threads can safely call any `hec_dss_*` function concurrently" | `hec_dss_squeeze` replaces the file under the name while another handle is open: what that stores afterwards, and reads back, is in a file that no name leads to |

More statements are stated beside these and have a configuration each, with the
same outcome.  They are not among the runs of `PROJECT.json`:

| Configuration | Property | Statement | What happens |
|---|---|---|---|
| `MCNativeDss_unread` | `CatalogIsReadable` | `hash.rs` 13: the pathname hash "distinguishes pathnames within the same hash table bucket" | only the first name of a table hash can be found |
| `MCNativeDss_deleted` | `DeletedIsNotFound` | `native.rs` 2610: "Should not be findable after delete" | reads find it |
| `MCNativeDss_dropped` | `SqueezeCopiesAll` | `native.rs` 492: squeeze "copies all non-deleted records" | arrays, locations and grids are skipped |
| `MCNativeDss_changes` | `ModifiedIsReported` | `change-tracking.md` 3: tells "which records have been modified" | a rewrite changes no snapshot |
| `MCNativeDss_check` | `CheckFindsBadEntries` | `native.rs` 688: "Validates: ... bin entry consistency, info block flags" | an info block without its flag is read as no info block, and the comparison that would report it is not reached |
| `MCDssHandles_reuse` | `StoredIsRead` | `native.rs` 1019: header update "last for consistency" | after a crash the bin slot is given to another name while the hash table still leads the first name there; a later store of the first name completes and cannot be read |
| `MCDssHandles_torn` | `CountedSlotsAreEntries` | the same | the header torn behind `BINS_REMAIN`, see above |
| `MCDssFiles_half` | `OpenedIsWhole` | `header.rs` 51: "Verify this is a valid DSS7 file by checking the identifier" | a file that a dying `create` left with the first header is accepted, and written at address 0 |
| `MCDssFiles_emptied` | `KeptOnPath` | `dss-ffi/src/lib.rs` 113: "Open or create a DSS7 file" | an existing file whose opening fails for a moment is created again, that is, emptied |
| `MCDssCopy_again` | `CopiedIsRead` | `native.rs` 603: "Returns Ok(true) if copied" | a name the destination knows, or whose table hash it knows, gets a second entry that nothing reads |
| `MCDssClients_curves` | `InfoTellsSizes` | `dss-ffi/src/lib.rs` 490: `pdRetrieveInfo` gives "sizes and units"; `native.rs` 1132: the values of paired data are "n_ord * n_curves" | the number of curves is whatever was passed to `pdStore`; values beyond the size computed from it are cut off, and every call returns 0 |
| `MCDssClients_aliases` | `CountIncludesAliases` | `dss-ffi/src/lib.rs` 171 and `docs/src/api/rust.md` 13: the record count is "including aliases" | `record_count` is `NUMBER_RECORDS`, which aliases do not change; the catalog lists them, so the last entries do not fit into buffers of that length |
| `MCDssBlocks_weekly` | `NoValueIsDropped` | `native.rs` 1254: "Splits values into blocks" | 52 weeks a year leave a day or two over; after eight years the last values find no block and are dropped |
| `MCDssBlocks_middle` | `ValuesAreInTheirBlocks` | `concepts.md` 39: blocks "aligned to calendar boundaries" | a series that starts on 1 July fills that year's block with a whole year of values, half of them of the next year |
| `MCDssBlocks_century` | `CenturyIsFound` | `datetime.rs` 214: "century blocks" | blocks are aligned to decades, so a window in a later decade looks for blocks nobody wrote |

### Fairness

The library is sequential and has no scheduler of its own: whether the next call
comes is up to the caller, so no fairness is assumed of calls.  A call that has
begun is another matter: it is a straight line of accesses to the file system
(and one loop over a list that only gets shorter), waits for no other handle,
takes no lock, and is carried on by the operating system.  `FairSpec` of
`DssFiles` says just that: weak fairness of the steps of a call, of the turns of
squeeze's loop, and of the error that a call returns when its next access cannot
succeed.  Faults are never required to happen.  `SqueezeReclaims` is the liveness
property; it fails for a handle on a name that another has taken away, and is
checked for one handle.

## Proofs

Assumed are only the named assumptions on the constants.  The lemmas that every
theorem about files rests on speak of images, not of a state machine, so that
they serve one file or two, one caller or many:

* `DssImageProofs`: every operator of `DssImage` maps images to images.  A
  `Change` of a file is a record stored, an alias entered or a status set, which
  is all that any operation does to one.
* The layout, in the same module: the invariant `Safe` of one file is that it is
  an image and, unless spilled, `Laid`: the free slots of the last block and its
  overflow word are zeros, and they and everything an entry leads to lie in front
  of `FILE_SIZE`.  `WriteLays`, `TakeLays`, `AllocateLays` and `MarkLays` say that
  each piece of an operation keeps `Laid`, because it writes behind `FILE_SIZE`,
  into the next free slot, or into the overflow word of a full block; storing a
  record and entering it are two of them one after the other, and this is where
  `~ spilled` is needed: with a full block, `AllocateLays` would be applied in
  between, with a `FILE_SIZE` that is not yet behind the record.  `ChangeReads`
  says that no change alters what a name reads: the hash table keeps leading to
  the first entry of a table hash, and the cells of that entry, its info block
  and its data are in front of everything that is written.
* The walk of `read_all_bins`, in the same module.  `Walked(f, chain)` says that the
  addresses in `chain` are the blocks of the bins, each named by the overflow word
  of the one before; that the first `TOTAL_BINS` of their slots, no two of them in
  one place, hold entries; that the counters of the header name the next of them; and that each hash slot leads to the first entry of its
  hash.  `WalkVisits` and `WalkFinds`: the walk then finds exactly these slots, in
  this order, for a chain of any length.  `StoredWalk`, `AliasedWalk` and
  `MarkedWalk` say what each operation makes of the chain and of the list of
  entries: one entry is appended (with a new block behind `AllocateWalked`), or
  one status is changed.  `Walkable` (`Safe`, and some chain is walked) is the
  invariant the theorems about listings use.  The loops over bins, catalog and
  list are recursive functions in the model (`Selected`, `BlockChain`), and what
  they compute is proved by induction over a set of numbers (`SetInduction`,
  `UnfoldsExists`): the library's induction rules cannot be used here.

**`NativeDssProofs`**, for any names, values, hash functions and bounds and for
any bin and block size:

* `TypeCorrect`: `Spec => []TypeOK`.  `TypeOK` is inductive by itself.  Its
  content is in the ranges: `hdr \in Header` says that no counter falls below
  zero (`BINS_REMAIN` is decremented only after the check for a full block),
  `cells \in Seq(Cell)` that every entry names a path and an address.
* `CountersCorrect`: `Spec => []Accounting`.  The counters depend only on each
  other, so the invariant is inductive together with the types; a lemma for
  each operation says what it does to which counter.
* `NoRecordDestroyed`: `Spec => []RecordsIntact`, and `RegionsStayApart`:
  `Spec => []RegionsApart`.  Neither is inductive: that an entry leads to its
  record does not exclude that the next record is laid over it.  The inductive
  invariant is `SafeFiles`: `Safe` for the file and for the copy squeeze makes.
* `LookupsMatchLog`: `LogSpec => []LookupMatchesLog`.  The invariant `WalkInv` is
  `Walkable` for both files, and that `log` is the log of the file; a hash slot
  then leads to the entry that `Oldest` of `DssLog` chooses.
* `FileImplementsLog`: `LogSpec => ImplementsLog`, the refinement.  A lemma for
  each operation maps it to one of the log (`WritePuts`, `AliasAdds`,
  `MarkMarks`).  Squeeze is the hard one: its loop leaves the log alone and its
  last step is to be `Compact`, of a log that was read through a catalog and a
  lookup for each of its entries.  `LogInv` therefore adds `Squeezing`: some part
  of the catalog has been carried, no reader has failed on it, the copy's log is
  what the loop makes of that part (`CarriedTo`), and the rest is `todo`.  At the
  end the part is the whole catalog, and `CompactAlike` says that what was carried
  is `Compact`.
* `ScanFindsAll`: `Spec => []ScanFindsRecords`.  The invariant `ScanInv` says of
  both files that the info blocks are those of the entries that are the first for
  theirs, and lie in the order of these entries (`Scannable`): a record goes to
  `FILE_SIZE`, behind all info blocks there are, before its entry goes to the next
  slot, and an alias leads to an info block that has an entry.  Two enumerations of
  the same places in the same order are the same (`EnumeratesOnce`).
* `SqueezeSettlesFile`: `Spec => SqueezeIsIdempotent`, and `ReadableStaysReadable`:
  `Spec => SqueezeKeepsReadable`.  The invariant `SqueezeInv` is that of the
  refinement without the log.  At the end of the loop the new file's list is the
  copies (`SqueezeCopied`); a name that is copied reads one of its own (`CopyIsRead`),
  since no other name of its table hash reads anything in the old file.  What
  squeeze writes it would write again (`FormAgain`).  That paired data is never left
  behind needs that it always has values (`Paired`, added in `KeepInv`).

**`DssClientsProofs`**, for any number of threads:

* `AlwaysRetrievesWhole`: `Spec => []RetrievesWhole`.
  The invariant `Asked` adds to `Safe(file)` that the sizes a thread was told are
  those that the record the name reads now would be told with (`ToldRight`), which
  `ChangeReads` keeps; they hold the record where its values fill its curves
  (`ToldRightIsWhole`).  Callers may pass any number of curves: the condition is
  on the one record asked for.
* `CatalogNeverMissesMore`: `Spec => []CatalogMissesAliasesOnly`.  The invariant
  `Counting` says that `TOTAL_BINS` is the sum of records and aliases, and for each
  thread that was told a number that the live ones among the bins of that moment
  are no more now than then (`ToldCount`): entries are only added behind them, and
  a delete only takes from them.

**`DssFilesProofs`**, for any number of faults:

* `FilesTypesCorrect`: `Spec => []FilesTypeOK`, for any finite number of handles.
  A file that is created is one that no other name leads to (`CreatedInode`),
  because there is always one left: names and handles can lead to no more than
  there are (`InodeIsLeft`).
* `HandleStaysOnPath`: `Spec => []HandleIsOnPath`, for one handle and a `Careful`
  caller; `MCDssFiles_lost` is what two handles do.  The invariant `OnPathInv` adds
  that a half-created file is nothing but its first header (`HalfIsHalf`), which
  makes a store through it leave the header as it is.
* `KeptStaysOnPath`: `Spec /\ []NothingSpilled => []KeptOnPath`, under the same
  conditions and without `"open"` among the faults; `MCDssFiles_emptied` is what
  that fault does, and `block` what a store does that allocates a block.  The
  invariant `KeptInv` follows the file through a squeeze: all files hold nothing
  but texts in bins that can be walked (`TextFiles`); each name that is kept is in
  the list when the list is made (`Creating`), then either in the new file or
  without any entry of its hash there and still ahead in the list (`Filling`), and
  in the new file when `path.tmp` is renamed (`Renaming`).  A name is read through
  the first entry of its hash (`LiveIsRead`), and no copy of another name can come
  first in the new file: a name of the same hash reads nothing and is not copied.
* `BlockStaysOnPath`: `Spec => []KeptOnPath /\ []NothingSpilled` when, in addition,
  `MaxBins <= BinsPerBlock`, as in `MCDssFiles_files.cfg`.  The invariant `Counted`
  says of every file that its entries and free slots make up one block, and of a
  squeeze that the new file's block has room for what is left in the list, which
  is no longer than the bins it was made from (`CatalogLength`).
* `FilesRefineNativeDss`: `Spec => FilesImplementNativeDss`, for one handle, careful or
  not.  Until the first fault the handle is in one of the `Stages` of a call: outside
  of any (`Resting`), creating `path` where there was none (`Founding`), creating
  `path.tmp` with the catalog of the file in its list (`Drafting`), filling it
  (`Fills`), or putting it in the place of `path` (`Swaps`).  In each, no access
  misses a file (`StagesMiss`); a step that leaves `path` its file and does not copy
  is none of `NativeDss` (`NothingDone`), the others are its steps (`StoreIsAtomic`,
  `DeleteIsAtomic`, `BeginIsAtomic`, `EntryIsAtomic`, `EndIsAtomic`).

**`DssHandlesProofs`**, for one handle and for headers torn anywhere but behind
the seventh word, whatever the number of crashes and failed writes:

* `HandlesTypeCorrect`: `Spec => []HandlesTypeOK`; `StoresStayDurable`:
  `Spec => []StoresAreDurable`.  The invariant `HandlesInv` has two halves.
  `QueueOK` says that the writes to come are in their order (`InOrder`), that a
  slot is taken only where one is free (`SlotIsFree`), and that nothing but a
  store moves `FILE_SIZE` (`HeaderCounts`).  `Sound` says that the cells a kept
  name is read from are `InUse`, in front of `FILE_SIZE` and outside of the free
  slots, twice: for the header in memory and for the one on disk, which is what
  the next process starts from (`KeptIn`); and that each write goes to a place
  that the header in memory takes for free (`WritesAreSafe`).  A lemma for each
  kind of write says that it keeps this, and `Storing` carries the info block and
  the entry of a store through its writes, until the header is written and the
  name becomes one of those that are kept.  For an operation that breaks off,
  `BrokenOff` needs of a torn header that `BINS_REMAIN` and
  `ADD_NEXT_EMPTY_BIN` are both old or both new (`TornWords`); this is where the
  seventh word is excluded.  Two handles do not satisfy the theorem, see `shared`.
* `WritesAddUp`: `Spec => ImplementsNativeDss`, when callers store what the write
  functions make (`Writable`).  A write has its `Effect` on the file as the handle
  sees it, with the header in memory (`Seen`); a queue of writes leads from one
  such file to another by a run of images (`RunsTo`).  The invariant `AddsUp` says,
  until the first fault, that the writes still to come lead from the file as it is
  seen to what one operation (`Does`) makes of the file as the last operation left
  it, and that the last of them puts the header on disk (`Closes`).  An
  operation's queue does so when it begins: the cells of a record
  (`RecordAddsUp`), a block and its pointer (`BlockAddsUp`), an entry and its hash
  slot (`EntryAddsUp`) and the header (`EndedStores`, `EndedCounts`) are put
  together by `RunOn`.  A write takes the first step off the run (`RunFurther`);
  behind the last one `Seen` is the file on disk.  All of this needs that the free
  slots and `FILE_SIZE` lie within the file (`Roomy`): there a write that extends
  the file and one that overwrites it come to the same.  `Does` is `Change`, which
  keeps files well-formed, and a step of `NativeDss` (`DoesIsAtomic`).
* `ReadersAlwaysSeeWhole`: `Spec => ReadersSeeWhole`.  The invariant `ReadsWhole`
  says, until the first fault, that each name reads a record as it was stored in
  the file as the last operation left it, and that all this file has in use is in
  place on disk (`Untouched`) until only the header is left to write.  So names
  read the same before the write of the hash slot, or of the status (`KeptReads`:
  also names that read nothing, since the slot of their hash leads to an entry of
  another name and this entry stays); behind it the file is, but for the header,
  what the operation makes of it (`AddsUp`), and an operation shows readers
  nothing but the record stored or that of an alias's primary (`DoesShows`).

**`DssListedProofs`**, under the same conditions, for any number of blocks:

* `CountedSlotsStayEntries`: `Spec => []CountedSlotsAreEntries`, and
  `KeptStayListed`: `Spec => []KeptAreListed`.  The walk of an earlier section
  does not apply: after a crash the header may count less than there is, a block
  may be linked that no header knows of, and the slot behind the last counted one
  may hold an entry or not.  The invariant `ListedInv` says what is left
  (`Bins`): the blocks are linked in the order of the file; the free slots of the
  header in memory are the last of the `l`-th block, those of the header on disk
  the last of an older one or the same; all in front of the former are entries;
  each kept name's entry is in front of the latter.  `BinWrites` says of the
  writes to come that an entry fills the next free slot, that a pointer links the
  block just zeroed to the last one, and what the header will then be.  A lemma for each kind of
  write says that it keeps this; an operation that breaks off leaves the
  header on disk where it was, or, torn, with the bin words of one of the two.

**`DssCopyProofs`**, for any records, names, hash functions and listings:

* `CopyTypeCorrect`: `Spec => []CopyTypeOK`; `CopiesAreCounted`:
  `Spec => []CopiedAreRecords`; `TargetIsKept`: `Spec => CopyKeepsTarget`.  The
  invariant `CopyInv` has `Safe` for source and destination, the types of the
  loop's variables and the count itself.  Every step either leaves the
  destination or stores a record in it, for which `StoreRecordWords` gives the
  counters and `ChangeReads` the readings.  The operators of the two instances of
  `NativeDss` are shown equal to those of `DssImage` first.
* `CopyIsComplete`: `Spec => []FileIsCopied`, for catalogs of any length.  The
  invariant `CopiesInv` says how far `copy_file` has come (`CopyingTo`): the list
  is what follows some place `p` of the source's catalog, and each name reads in
  the destination what it read there before, if its hash slot was in use, and
  otherwise what the source has of it, if it is among the first `p` entries.  The
  source does not change meanwhile, and a store changes what one name reads and
  which hash slots are in use (`StoreIsRead`).

**`DssDatesProofs`**:

* `CalendarIsRight`: `Spec => []DaysAreConsecutive` of `DssCalendar`, for every
  first year after 4 and any number of years.  The invariant adds the types and
  that the day lies within its month.  The argument: the division of `i32` is
  that of the integers for numbers that are not negative (`QuotIsDiv4`, ...);
  `LeapDays` grows from a year to the next by the leap day of the year
  (`LeapDaysGrow`); the month table and `LeapCheck` together grow by the length
  of the month (`MonthGrows`), and the year by its twelve months (`YearGrows`).
* `MonthsAlwaysCarry`: `Spec => []MonthsCarry`.  A month up to three years away
  is carried into the year by the two loops' arithmetic, with the remainder of
  Rust (`CarryBack`).
* `InverseIsAlwaysExact`: `Spec => []InverseIsExact`: `julian_to_year_month_day`
  gives back the date of every day number.  The estimate of the year is at most
  one off, because 400 times `LeapDays` of a year stays within a few hundred of
  97 times the year before (`EstimateBounds`, `EstimateIsNear`), so the search
  of three years finds it (`YearIsFound`); no month is shorter than 28 days, so
  the first month tried is never past the one after the right one
  (`MonthIsFound`).

* `SeriesStaysWhole`: `BlocksSpec => []SeriesIsWhole`; `ChunksAreAligned`:
  `BlocksSpec => []ChunksBeginWithTheirBlock`; `WindowsAreCovered`:
  `BlocksSpec => []WindowIsCovered`; `BlocksTypesCorrect`: `BlocksSpec => []BlocksTypeOK`.
  The condition `AlignedCalls` is on the calls: the interval divides a day, the
  blocks are those of a month or a year, the series begins with a block, and
  series and windows begin in the year 5 or later.  `MCDssBlocks_weekly`,
  `MCDssBlocks_middle` and `MCDssBlocks_century` show that neither of the first
  three can be left out.  Months are numbered from the year 0 (`MonthStart`), a block is
  known by the number of its first month (`Grid`).  A month begins 28 to 31
  days after the one before (`MonthStartGrows`), so that every day is in just one
  (`DayInMonth`), later blocks begin later (`MonthsInOrder`), the loop of
  `generate_block_starts` ends with all blocks up to the end (`BlocksAreAll`), and none
  of them is too early for its filter (`GeneratedBlocks`).  `values_in_block` is then
  the distance to the next block in values (`ValuesOfBlock`).  The invariant
  `BlocksInv` says of each loop which block is next: all values in front of it are
  stored, each block in front of it with its own (`StoredUpTo`), or put together
  (`Gathered`).

Only model-checked: the one liveness property, `SqueezeReclaims`, which is out of
the prover's reach.  `KeptOnPath` is proved for texts, since `DssFiles` stores
nothing else; the theorems on single writes and on names and files are for one
handle, as their properties fail with two or are not claimed for them.

## Not modelled

* Power loss (the code never syncs), disks that are full in the middle of a word,
  the rename of an open file on Windows, which may fail there every time.
* Calls of the C interface after `hec_dss_close`, or during it: it frees the
  handle without taking its mutex, so the behaviour is undefined.  A poisoned
  mutex, which makes all calls fail.  Single retrieve calls that take no size.
* Words that a longer entry leaves behind a shorter one in a bin slot used again
  after a crash (see `DssHandles`).
* The text of pathnames: parsing, validation and wildcards of `pathname.rs` and
  `catalog_filtered` (an empty part of a filter matches anything, although
  `native.rs` 151 says that it matches an empty part); the two hash functions
  (constants); parsing of dates and intervals.
* The reader of version 6, which decodes the files of another program and
  changes nothing; the bindings and the wrapper of the C library, which make one
  call each.
* That squeezing a file with nothing but deleted entries does nothing
  (`native.rs` 497-499) is in the model as the guard of `SqueezeBegin`;
  `SqueezeReclaims` therefore speaks of squeezes that have begun.

## Plan

1. (done) `DssRecords`, `DssImage`, `NativeDss`, `DssLog`; types, counters and
   layout proved.
2. (done) `DssHandles` for one and two handles, with torn headers; `DssDates`,
   `DssCalendar`, `DssBlocks`; the calendar proved.
3. (done) `DssFiles`, `DssCopy`, `DssClients`, `NativeDssRecovery`; what the
   copies and the C interface promise proved.
4. (done) What is stored outlives crashes: proved for one handle.
5. (done) Theorems: the walk of the bins, the refinement of `DssLog`, complete
   copies, the catalog of the C interface, names and files.
6. (done) Theorems: what crashes leave listed; the blocks of a series.
7. (done) Theorems: squeeze; the recovery scan; the writes of one handle add up
   to `NativeDss` and show readers whole records.
8. Pathnames as sequences of parts, with the matching of wildcards against a
   reference definition.
