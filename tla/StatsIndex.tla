------------------------------ MODULE StatsIndex ------------------------------
(***************************************************************************)
(* The life of one numeric column's statistics file: the importer feeds    *)
(* the values to a ChunkAccumulator in row order (csv_importer.cpp,        *)
(* WriteDataFiles), writes the records to <col>.stats.bin at the end       *)
(* (stats_writer.cpp), and a table that opens the column loads the file    *)
(* back (stats_reader.cpp) and answers range queries from it.              *)
(***************************************************************************)
EXTENDS ChunkStats

CONSTANTS Values,       \* the values a cell may hold
          MaxRows       \* bound on the rows of the imported column

ASSUME StatsIndexAssumption ==
    /\ Values \subseteq -Infinity .. Infinity
    /\ MaxRows \in Nat

VARIABLES column,       \* the rows written to <col>.bin so far
          acc,          \* ChunkAccumulator: the chunk being filled
          records,      \* ChunkAccumulator: the chunks already closed
          file          \* <col>.stats.bin

vars == <<column, acc, records, file>>

NoFile == [exists |-> FALSE, numRows |-> 0, chunkSize |-> 0, records |-> NoRecords]

\* WriteColumnStats: the header, then the records.
StatsFile(numRows, recs) ==
    [exists |-> TRUE, numRows |-> numRows, chunkSize |-> ChunkSize, records |-> recs]

Size(vector) == Cardinality(DOMAIN vector)

PushBack(vector, x) ==
    [i \in 0 .. Size(vector) |-> IF i \in DOMAIN vector THEN vector[i] ELSE x]

\* AddCommon: the row is counted as well.
Counted(v) == LET added == Add(acc, v) IN [added EXCEPT !.count = @ + 1]

Init == /\ column = << >>
        /\ acc = Empty
        /\ records = NoRecords
        /\ file = NoFile

AddRow_KeepsOpenChunk(v) == \* mutant: CloseChunk does not reset the accumulator
    /\ ~file.exists
    /\ Size(column) < MaxRows
    /\ column' = PushBack(column, v)
    /\ acc' = Counted(v)
    /\ records' = IF acc'.count = ChunkSize THEN PushBack(records, acc') ELSE records
    /\ UNCHANGED file

AddRow_ClosesEarly(v) ==    \* mutant: compares the count before it is incremented
    /\ ~file.exists
    /\ Size(column) < MaxRows
    /\ column' = PushBack(column, v)
    /\ IF acc.count = ChunkSize
       THEN /\ records' = PushBack(records, acc)
            /\ acc' = [Add(Empty, v) EXCEPT !.count = 1]
       ELSE /\ acc' = Counted(v)
            /\ UNCHANGED records
    /\ UNCHANGED file

\* ChunkAccumulator::Add: the chunk closes when it holds ChunkSize rows.
AddRow(v) ==
    /\ ~file.exists
    /\ Size(column) < MaxRows
    /\ column' = PushBack(column, v)
    /\ LET filled == Counted(v)
       IN  IF filled.count = ChunkSize
           THEN /\ records' = PushBack(records, filled)
                /\ acc' = Empty
           ELSE /\ acc' = filled
                /\ UNCHANGED records
    /\ UNCHANGED file

WriteStats_DropsTail == \* mutant: Finish does not close the partly filled chunk
    /\ ~file.exists
    /\ file' = StatsFile(Size(column), records)
    /\ acc' = Empty
    /\ UNCHANGED <<column, records>>

WriteStats_BeforeFinish ==  \* mutant: writes the records, then closes the last chunk
    /\ ~file.exists
    /\ records' = IF acc.count > 0 THEN PushBack(records, acc) ELSE records
    /\ acc' = Empty
    /\ file' = StatsFile(Size(column), records)
    /\ UNCHANGED column

\* ChunkAccumulator::Finish and WriteColumnStats.
WriteStats ==
    /\ ~file.exists
    /\ records' = IF acc.count > 0 THEN PushBack(records, acc) ELSE records
    /\ acc' = Empty
    /\ file' = StatsFile(Size(column), records')
    /\ UNCHANGED column

Next == \/ \E v \in Values : AddRow(v)
        \/ WriteStats

Spec == Init /\ [][Next]_vars

\* LoadOneColumn: a file whose header disagrees, or that is too short for the
\* rows it claims, gives no records.
LoadOneColumn(expectedRows) ==
    IF /\ file.exists
       /\ file.chunkSize = ChunkSize
       /\ file.numRows = expectedRows
       /\ file.numRows # 0
       /\ NumChunks(file.numRows) <= Size(file.records)
    THEN Restrict(file.records, 0 .. NumChunks(file.numRows) - 1)
    ELSE NoRecords
-------------------------------------------------------------------------------
Record == [sum : Int, min : Int, max : Int, count : Nat]

TypeOK ==
    /\ column \in [0 .. Size(column) - 1 -> Values]
    /\ acc \in Record
    /\ records \in [0 .. Size(records) - 1 -> Record]
    /\ file \in {NoFile, StatsFile(Size(column), records)}

(* The accumulator's chunk boundaries stay aligned with the rows at every   *)
(* point of an import: each closed record stands for exactly ChunkSize rows *)
(* (the last one of a finished file may stand for fewer), the open chunk is *)
(* never full, and together they account for every row written, so record k *)
(* is about rows k*ChunkSize onwards - what ComputeStats and SaveOverrides  *)
(* assume when they derive a chunk's rows from its number and its count.    *)
ChunksAligned ==
    /\ acc.count < ChunkSize
    /\ ~file.exists =>
        /\ \A k \in DOMAIN records : records[k].count = ChunkSize
        /\ Size(column) = Size(records) * ChunkSize + acc.count
    /\ file.exists =>
        /\ acc.count = 0
        /\ Size(records) = NumChunks(Size(column))
        /\ \A k \in DOMAIN records :
              records[k].count = IF k = Size(records) - 1
                                 THEN Size(column) - ChunkStart(k)
                                 ELSE ChunkSize

(* A finished, non-empty column always loads: the number of records written *)
(* is the number the reader derives from the row count, and every record    *)
(* summarises the rows of its chunk.                                        *)
LoadedRecordsSummarise ==
    file.exists =>
        \A k \in 0 .. NumChunks(Size(column)) - 1 :
            /\ k \in DOMAIN LoadOneColumn(Size(column))
            /\ LoadOneColumn(Size(column))[k] =
                   Reference(column, ChunkStart(k), ChunkLast(k, Size(column)))

\* The column as a window shows it once the rows of `edited` carry value v.
Edited(edited, v) == [r \in DOMAIN column |-> IF r \in edited THEN v ELSE column[r]]

DirtyChunks(edited) == {ChunkOf(r) : r \in edited}

\* Some chunk lies in first..last with all its rows, and none of them is edited.
HasCleanChunk(edited, first, last) ==
    \E r \in DOMAIN column :
        \A other \in DOMAIN column :
            ChunkOf(other) = ChunkOf(r) => other \in (first .. last) \ edited

(* A range query answers exactly what a scan of the shown rows would, for   *)
(* every range and every set of unsaved edits, whether a chunk is answered  *)
(* from its record, rescanned because it is dirty, or cut by the range's    *)
(* ends; and so it does when no statistics file could be loaded.  It says   *)
(* that it used the index ("chunk index used", statistics_dialog.cpp:106)   *)
(* exactly when there is one and a chunk that needs no scan.                *)
AnswersExact ==
    file.exists =>
        \A edited \in SUBSET DOMAIN column, v \in Values :
        \A first \in DOMAIN column : \A last \in first .. Size(column) - 1 :
        \A recs \in {LoadOneColumn(Size(column)), NoRecords} :
            LET shown  == Edited(edited, v)
                answer == ComputeStats(shown, recs, first, last, DirtyChunks(edited))
            IN  /\ answer.valid
                /\ answer.usedIndex <=> recs # NoRecords /\ HasCleanChunk(edited, first, last)
                /\ answer.result = Reference(shown, first, last)
===============================================================================
