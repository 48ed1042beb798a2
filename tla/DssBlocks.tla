----------------------------- MODULE DssBlocks ------------------------------
(***************************************************************************)
(* A regular series in blocks: write_ts_multi splits it, read_ts_window    *)
(* puts it together again.  Values are their positions in the series, from *)
(* 0, so a chunk is a range of positions.  One turn of either loop is one  *)
(* step; the records go to the names of their blocks, which a file that    *)
(* holds no other data reads back as they were written (NativeDss).        *)
(* Intervals are in minutes: those parse_interval knows are whole minutes. *)
(***************************************************************************)
EXTENDS DssDates, FiniteSets

CONSTANTS
    EPart,         \* E-parts of pathnames, keys of BlockMonths
    Series,        \* the calls of write_ts_multi: see ASSUME
    Window         \* the windows read: first and last day, as julian dates

\* The months of a block for the E-parts parse_interval knows (one of each
\* block size, and one minute interval for all of them).
BlockMonths ==
    [e \in {"15MIN", "1HOUR", "12HOUR", "1DAY", "1WEEK", "1MON", "1YEAR"} |->
        IF e \in {"15MIN", "1HOUR", "12HOUR"} THEN 1
        ELSE IF e \in {"1DAY", "1WEEK"} THEN 12
        ELSE IF e = "1MON" THEN 120
        ELSE 1200]

ASSUME BlocksAssumption ==
    /\ EPart \subseteq DOMAIN BlockMonths
    /\ Series \subseteq [e : EPart, minutes : Nat, start : Int,
                         length : Nat \ {0}]
    /\ Window \subseteq Int \X Int

VARIABLES
    pc,            \* "idle", "write", "ready", "read" or "done"
    series,        \* the call of write_ts_multi
    window,        \* the call of read_ts_window
    blocks,        \* the block starts the loop has yet to visit
    pos,           \* how many values are written
    stored,        \* the range of positions in each block's record
    got            \* the ranges read_ts_window has put together

blocksVars == <<pc, series, window, blocks, pos, stored, got>>

-----------------------------------------------------------------------------
(* generate_block_starts and values_in_block.                              *)

\* Years and months as one count of months.
AddMonths(y, m, months) ==
    LET count == y * 12 + (m - 1) + months
    IN  [year |-> count \div 12, month |-> (count % 12) + 1]

\* The month the first block begins with: its own for blocks of a month,
\* January for blocks of a year, and of a year that ends in 0 for more.
FirstBlock(start, months) ==
    LET Aligned(date) ==
            IF months <= 1 THEN [year |-> date.year, month |-> date.month]
            ELSE IF months <= 12 THEN [year |-> date.year, month |-> 1]
            ELSE [year |-> date.year - Rem(date.year, 10), month |-> 1]
    IN  Aligned(JulianToYearMonthDay(start))

\* Blocks are counted from the first one, which is numbered 0.
BlockStart(first, months, n) ==
    LET FirstDay(block) == YearMonthDayToJulian(block.year, block.month, 1)
    IN  FirstDay(AddMonths(first.year, first.month, n * months))

BlocksUpTo(first, end, months) ==
    LET most  == end - BlockStart(first, months, 0) + 1
        count == CHOOSE n \in {0} \cup 1..most :
                     /\ BlockStart(first, months, n) > end
                     /\ n = 0 \/ BlockStart(first, months, n - 1) <= end
    IN  [i \in 1..count |-> BlockStart(first, months, i - 1)]

\* Faulty: the block that begins with the series is left out.
GenerateBlockStartsLate(start, end, months) ==
    LET all   == BlocksUpTo(FirstBlock(start, months), end, months)
        early == {i \in DOMAIN all : all[i] <= start}
    IN  SubSeq(all, Cardinality(early) + 1, Len(all))

\* Those that begin more than a whole block before the start are left out;
\* they would be the first ones, since each begins later than the one before.
GenerateBlockStarts(start, end, months) ==
    LET all   == BlocksUpTo(FirstBlock(start, months), end, months)
        early == {i \in DOMAIN all : all[i] < start - 31 * months}
    IN  SubSeq(all, Cardinality(early) + 1, Len(all))

\* Faulty: every month has thirty days.
ValuesInBlockOfThirty(block, minutes, months) ==
    IF minutes <= 0 THEN 0 ELSE (30 * months * 1440) \div minutes

\* The month behind a block; beyond a year year_month_day_to_julian carries.
ValuesInBlock(block, minutes, months) ==
    LET Behind(date) ==
            IF date.month + months > 12
            THEN YearMonthDayToJulian(date.year + 1, date.month + months - 12, 1)
            ELSE YearMonthDayToJulian(date.year, date.month + months, 1)
        next == Behind(JulianToYearMonthDay(block))
    IN  IF minutes <= 0 THEN 0 ELSE ((next - block) * 1440) \div minutes

-----------------------------------------------------------------------------
(* write_ts_multi.                                                         *)

BlocksInit ==
    /\ pc = "idle"
    /\ series \in Series
    /\ window \in Window
    /\ blocks = << >> /\ pos = 0 /\ got = << >>
    /\ stored = [block \in {} |-> <<0, 0>>]

\* The day behind the last value.
EndOf(s) == s.start + (s.length * s.minutes) \div 1440 + 1

WriteBegin ==
    /\ pc = "idle"
    /\ pc' = "write"
    /\ blocks' = GenerateBlockStarts(series.start, EndOf(series),
                                     BlockMonths[series.e])
    /\ UNCHANGED <<series, window, pos, stored, got>>

\* Faulty: the last value of a chunk is written again with the next.
ChunkEndOverlapping(n) == IF pos + n < series.length THEN pos + n - 1
                          ELSE series.length

\* Faulty: the last block is filled up beyond the end of the values.
ChunkEndUnclipped(n) == pos + n

\* The position behind the chunk that a block of n values takes.
ChunkEnd(n) == IF pos + n < series.length THEN pos + n ELSE series.length

\* An empty chunk writes no record.
WriteTs(block, end) ==
    IF end = pos THEN UNCHANGED <<pos, stored>>
    ELSE /\ stored' = [b \in DOMAIN stored \cup {block} |->
                          IF b = block THEN <<pos, end>> ELSE stored[b]]
         /\ pos' = end

WriteBlock ==
    /\ pc = "write"
    /\ blocks # << >>
    /\ pos < series.length
    /\ WriteTs(Head(blocks),
               ChunkEnd(ValuesInBlock(Head(blocks), series.minutes,
                                      BlockMonths[series.e])))
    /\ blocks' = Tail(blocks)
    /\ UNCHANGED <<pc, series, window, got>>

WriteEnd ==
    /\ pc = "write"
    /\ blocks = << >> \/ pos >= series.length
    /\ pc' = "ready"
    /\ blocks' = << >>
    /\ UNCHANGED <<series, window, pos, stored, got>>

-----------------------------------------------------------------------------
(* read_ts_window.                                                         *)

ReadBegin ==
    /\ pc = "ready"
    /\ pc' = "read"
    /\ blocks' = GenerateBlockStarts(window[1], window[2],
                                     BlockMonths[series.e])
    /\ UNCHANGED <<series, window, pos, stored, got>>

\* A block that has no record is passed over.
ReadBlock ==
    /\ pc = "read"
    /\ blocks # << >>
    /\ got' = IF Head(blocks) \in DOMAIN stored
              THEN Append(got, stored[Head(blocks)]) ELSE got
    /\ blocks' = Tail(blocks)
    /\ UNCHANGED <<pc, series, window, pos, stored>>

ReadEnd ==
    /\ pc = "read"
    /\ blocks = << >>
    /\ pc' = "done"
    /\ UNCHANGED <<series, window, blocks, pos, stored, got>>

BlocksNext ==
    \/ WriteBegin \/ WriteBlock \/ WriteEnd
    \/ ReadBegin \/ ReadBlock \/ ReadEnd

BlocksSpec == BlocksInit /\ [][BlocksNext]_blocksVars

-----------------------------------------------------------------------------
BlocksTypeOK ==
    /\ pc \in {"idle", "write", "ready", "read", "done"}
    /\ series \in Series
    /\ window \in Window
    /\ blocks \in Seq(Int)
    /\ pos \in 0..series.length
    /\ \A block \in DOMAIN stored :
           stored[block] \in (0..series.length) \X (0..series.length)
    /\ got \in Seq((0..series.length) \X (0..series.length))

\* The day of a value, and whether it lies in the window.
DayOf(i) == series.start + (i * series.minutes) \div 1440
Wanted(i) == window[1] <= DayOf(i) /\ DayOf(i) <= window[2]

(* When write_ts_multi has returned, every value is in a block.            *)
SeriesIsWhole == pc \in {"ready", "read", "done"} => pos = series.length

(* The first value of a record is the one of the moment its block begins,  *)
(* so that name and position of a value tell its time.                     *)
ChunksBeginWithTheirBlock ==
    \A block \in DOMAIN stored :
        stored[block][1] * series.minutes = (block - series.start) * 1440

(* read_ts_window returns a run of consecutive values in their order, with *)
(* all values of the window among them.                                    *)
WindowIsCovered ==
    pc = "done" =>
        /\ \A i \in 1..(Len(got) - 1) : got[i][2] = got[i + 1][1]
        /\ \A v \in 0..(series.length - 1) :
               Wanted(v) => \E i \in DOMAIN got :
                                got[i][1] <= v /\ v < got[i][2]

-----------------------------------------------------------------------------
(* What the repository says and the program does not keep.                 *)

(* docs/src/concepts.md: "Regular time series are stored in blocks aligned *)
(* to calendar boundaries".  Every value is in the block its time is in,   *)
(* wherever in a block the series starts.                                  *)
ValuesAreInTheirBlocks ==
    \A block \in DOMAIN stored :
        LET n == ValuesInBlock(block, 1440, BlockMonths[series.e])
        IN  \A v \in stored[block][1]..(stored[block][2] - 1) :
                block <= DayOf(v) /\ DayOf(v) < block + n

(* write_ts_multi: it "splits values into blocks" and "writes each block". *)
(* No value is left out, for every interval parse_interval knows.          *)
NoValueIsDropped == SeriesIsWhole

(* parse_interval: "century blocks" for yearly values.  A block that was   *)
(* written is found again from every day in it.                            *)
CenturyIsFound == WindowIsCovered
=============================================================================
