------------------------------ MODULE ChunkStats ------------------------------
(***************************************************************************)
(* The per-chunk summary index of a numeric column and the queries that    *)
(* read it (stats/chunk_stats.hpp, stats/stats_query.cpp).                 *)
(*                                                                         *)
(* A column is a function from 0-based row numbers to integers.  Doubles   *)
(* are abstracted to integers: the rounding of a floating-point sum is not *)
(* modelled, the order and the grouping of the additions are.  A vector of *)
(* chunk records is a function on 0..n-1, and the empty vector means "no   *)
(* statistics", as it does in ColumnStatsIndex::HasStats.                  *)
(***************************************************************************)
EXTENDS Integers, FiniteSets, FiniteSetsExt, Functions

CONSTANTS ChunkSize,    \* kChunkSize, 65536 in the program
          Infinity      \* numeric_limits<double>::infinity()

ASSUME ChunkStatsAssumption == /\ ChunkSize \in Nat \ {0}
                               /\ Infinity \in Nat

NoRecords == << >>

\* A fresh accumulator; also the starting point of a query.
Empty == [sum |-> 0, min |-> Infinity, max |-> -Infinity, count |-> 0]

\* A value's effect on the running sum, minimum and maximum: AddCommon, and one
\* turn of the loop of ScanRange.  Rows are counted elsewhere in both.
Add(acc, v) ==
    [sum   |-> acc.sum + v,
     min   |-> IF v < acc.min THEN v ELSE acc.min,
     max   |-> IF v > acc.max THEN v ELSE acc.max,
     count |-> acc.count]

Merge_SwapsMinMax(acc, rec) ==  \* mutant: keeps the chunk's min where its max belongs
    [sum   |-> acc.sum + rec.sum,
     min   |-> IF rec.min < acc.min THEN rec.min ELSE acc.min,
     max   |-> IF rec.min > acc.max THEN rec.min ELSE acc.max,
     count |-> acc.count]

\* A whole chunk taken from its record instead of its rows.
Merge(acc, rec) ==
    [sum   |-> acc.sum + rec.sum,
     min   |-> IF rec.min < acc.min THEN rec.min ELSE acc.min,
     max   |-> IF rec.max > acc.max THEN rec.max ELSE acc.max,
     count |-> acc.count]

\* The number of rows from a to b, none when b comes first.
RowsIn(a, b) == IF a <= b THEN b - a + 1 ELSE 0

\* ScanRange: rows a to b, in this order, through the column function.
ScanRange(column, a, b, acc) ==
    LET scan[n \in Nat] == IF n = 0 THEN acc ELSE Add(scan[n - 1], column[a + n - 1])
    IN  scan[RowsIn(a, b)]

\* The record of a chunk of rows a to b, as ChunkAccumulator::Finish().front()
\* builds it.
Summarize(column, a, b) == [ScanRange(column, a, b, Empty) EXCEPT !.count = RowsIn(a, b)]

ChunkOf(row) == row \div ChunkSize

NumChunks(numRows) == (numRows + ChunkSize - 1) \div ChunkSize

\* The rows of a chunk; the last chunk of a column may be short.
ChunkStart(chunk)         == chunk * ChunkSize
ChunkLast(chunk, numRows) == Min({ChunkStart(chunk) + ChunkSize, numRows}) - 1

Invalid == [valid |-> FALSE, usedIndex |-> FALSE, result |-> Empty]

\* A chunk answers from its record when it lies inside the range and holds no
\* unsaved edit; chunkEnd comes from the record's own row count.
ChunkEnd(chunk, recs) == ChunkStart(chunk) + recs[chunk].count - 1

Indexed_IgnoresDirty(chunk, recs, first, last, dirty) ==    \* mutant: no dirty check
    /\ first <= ChunkStart(chunk)
    /\ ChunkEnd(chunk, recs) <= last

Indexed(chunk, recs, first, last, dirty) ==
    /\ first <= ChunkStart(chunk)
    /\ ChunkEnd(chunk, recs) <= last
    /\ chunk \notin dirty

\* One turn of the chunk loop of ComputeStats.
FoldChunk(column, recs, first, last, dirty, chunk, acc) ==
    IF Indexed(chunk, recs, first, last, dirty)
    THEN Merge(acc, recs[chunk])
    ELSE ScanRange(column,
                   Max({first, ChunkStart(chunk)}), Min({last, ChunkEnd(chunk, recs)}), acc)

\* The chunk loop of ComputeStats, over n chunks from the one of row `first`.
FoldChunks(column, recs, first, last, dirty, n) ==
    LET fold[i \in Nat] ==
            IF i = 0 THEN Empty
            ELSE FoldChunk(column, recs, first, last, dirty, ChunkOf(first) + i - 1, fold[i - 1])
    IN  fold[n]

\* ComputeStats for a numeric column over the inclusive range first..last.
ComputeStats(column, recs, first, last, dirty) ==
    IF first < 0 \/ last < first
    THEN Invalid
    ELSE LET touched == (ChunkOf(first) .. ChunkOf(last)) \cap DOMAIN recs
         IN  [valid     |-> TRUE,
              usedIndex |-> \E c \in touched : Indexed(c, recs, first, last, dirty),
              result    |-> [(IF recs = NoRecords
                              THEN ScanRange(column, first, last, Empty)
                              ELSE FoldChunks(column, recs, first, last, dirty,
                                              Cardinality(touched)))
                             EXCEPT !.count = last - first + 1]]

\* What the statistics of rows first to last are, said without chunks or scans:
\* the sum is a difference of totals counted from row 0.
Reference(column, first, last) ==
    LET total[n \in Nat] == IF n = 0 THEN 0 ELSE total[n - 1] + column[n - 1]
        shown == {column[r] : r \in first .. last}
    IN  [sum   |-> total[last + 1] - total[first],
         min   |-> Min(shown),
         max   |-> Max(shown),
         count |-> Cardinality(first .. last)]
===============================================================================
