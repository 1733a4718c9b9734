--------------------------- MODULE TableStoreProofs ---------------------------
(***************************************************************************)
(* What holds of a dataset and its windows for every number of rows and    *)
(* columns, every chunk size and every set of values.                      *)
(***************************************************************************)
EXTENDS TableStore, ChunkStatsProofs

\* The chunk of a row is a chunk.
LEMMA ChunkOfRow == \A r \in Rows : ChunkOf(r) \in Chunks
  BY DEF Chunks

LEMMA EditedIsRows == \A w, c : EditedRows(w, c) \subseteq Rows
  BY DEF EditedRows

LEMMA DirtyIsChunks == \A w, c : DirtyChunks(w, c) \subseteq Chunks
  BY DEF DirtyChunks, EditedRows, Chunks

\* Patching keeps every column a function from rows to values.
LEMMA PatchedType ==
    ASSUME TypeOK, save.window \in Windows, save.col \in Cols,
           NEW written \in SUBSET EditedRows(save.window, save.col)
    PROVE  Patched(written) \in [Cols -> [Rows -> Values]]
<1> DEFINE col == save.col
           new == [r \in Rows |-> IF r \in written THEN overrides[save.window][col][r]
                                                   ELSE cells[col][r]]
<1>1. \A r \in written : r \in Rows /\ overrides[save.window][col][r] \in Values
  BY DEF EditedRows, TypeOK
<1>2. new \in [Rows -> Values]
  BY <1>1 DEF TypeOK
<1> QED
  BY <1>2 DEF Patched, TypeOK

\* A refresh keeps a vector a vector.
LEMMA RefreshedVector ==
    ASSUME NEW records, NEW chunks, IsVector(records)
    PROVE  IsVector(Refreshed(records, chunks))
  BY DEF IsVector, Refreshed

LEMMA SavingColumn ==
    ASSUME TypeOK, save # Idle
    PROVE  /\ save.window \in open /\ save.window \in Windows
           /\ save.phase \in {"patch", "refresh"}
           /\ save.col \in 0 .. NumCols
           /\ save.dirty \subseteq Chunks
           /\ save.phase = "refresh" =>
                 /\ save.col \in NumericCols /\ save.col \in Cols
                 /\ HasChunkStats(save.window, save.col)
  BY TableStoreAssumption DEF TypeOK, SaveOK, Cols

LEMMA PatchingSaves ==
    ASSUME TypeOK, Patching
    PROVE  save # Idle /\ save.col \in Cols
  BY DEF Patching, Idle, Progress

LEMMA NextColumnType ==
    ASSUME TypeOK, save # Idle, save.col \in Cols
    PROVE  NextColumn \in [phase : {"patch"}, window : open, col : 0 .. NumCols, dirty : {{}}]
  BY SavingColumn, TableStoreAssumption DEF NextColumn, Progress, Cols

LEMMA InitTypeOK == Init => TypeOK
  BY TableStoreAssumption
  DEF Init, TypeOK, StatsFileOK, IndexOK, SaveOK, IsVector, HasChunkStats, Untouched

LEMMA OpenTypeOK ==
    ASSUME TypeOK, NEW w \in Windows, OpenTable(w)
    PROVE  TypeOK'
<1>1. IndexOK'
  BY DEF OpenTable, TypeOK, StatsFileOK, IndexOK, HasChunkStats
<1>2. SaveOK'
  BY DEF OpenTable, SaveOK, Idle
<1> QED
  BY <1>1, <1>2 DEF OpenTable, TypeOK, StatsFileOK

LEMMA CloseTypeOK ==
    ASSUME TypeOK, NEW w \in Windows, CloseTable(w)
    PROVE  TypeOK'
<1>1. IndexOK'
  <2>1. \A v \in Windows : index'[v] = IF v = w THEN [c \in Cols |-> NoRecords] ELSE index[v]
    BY DEF CloseTable, TypeOK, IndexOK
  <2> QED
    BY <2>1 DEF CloseTable, TypeOK, IndexOK, HasChunkStats
<1>2. SaveOK'
  BY DEF CloseTable, SaveOK, Idle
<1>3. overrides' \in [Windows -> [Cols -> [Rows -> Values \cup {NoEdit}]]]
  BY DEF CloseTable, TypeOK, Untouched
<1> QED
  BY <1>1, <1>2, <1>3 DEF CloseTable, TypeOK, StatsFileOK

LEMMA BeginSaveTypeOK ==
    ASSUME TypeOK, NEW w \in Windows, BeginSave(w)
    PROVE  TypeOK'
<1>1. SaveOK'
  BY TableStoreAssumption DEF BeginSave, SaveOK, Progress
<1> QED
  BY <1>1 DEF BeginSave, TypeOK, StatsFileOK, IndexOK, HasChunkStats

LEMMA SetValueTypeOK ==
    ASSUME TypeOK, NEW w \in Windows, NEW c \in Cols, NEW r \in Rows, NEW v \in Values,
           SetValue(w, c, r, v)
    PROVE  TypeOK'
<1>1. overrides' \in [Windows -> [Cols -> [Rows -> Values \cup {NoEdit}]]]
  BY DEF SetValue, TypeOK
<1>2. SaveOK'
  BY DEF SetValue, SaveOK, Idle
<1> QED
  BY <1>1, <1>2 DEF SetValue, TypeOK, StatsFileOK, IndexOK, HasChunkStats

LEMMA PatchColumnTypeOK ==
    ASSUME TypeOK, PatchColumn
    PROVE  TypeOK'
<1>1. /\ save # Idle /\ save.col \in Cols /\ save.window \in Windows /\ save.window \in open
      /\ save.phase = "patch"
  BY PatchingSaves, SavingColumn DEF PatchColumn, Patching
<1>2. cells' \in [Cols -> [Rows -> Values]]
  BY <1>1, PatchedType DEF PatchColumn
<1>3. overrides' \in [Windows -> [Cols -> [Rows -> Values \cup {NoEdit}]]]
  BY <1>1 DEF PatchColumn, TypeOK, Untouched
<1>4. SaveOK'
  <2>1. CASE HasChunkStats(save.window, save.col)
    <3>1. /\ save' \in [phase : {"refresh"}, window : open, col : NumericCols,
                        dirty : SUBSET Chunks]
          /\ save'.window = save.window /\ save'.col = save.col
      BY <1>1, <2>1, DirtyIsChunks
      DEF PatchColumn, RefreshColumn, Progress, TypeOK, IndexOK
    <3>2. index[save'.window][save'.col] # NoRecords
      BY <2>1, <3>1 DEF HasChunkStats
    <3> QED
      BY <3>1, <3>2 DEF PatchColumn, SaveOK, HasChunkStats
  <2>2. CASE ~HasChunkStats(save.window, save.col)
    BY <1>1, <2>2, NextColumnType DEF PatchColumn, SaveOK
  <2> QED
    BY <2>1, <2>2
<1> QED
  BY <1>2, <1>3, <1>4 DEF PatchColumn, TypeOK, StatsFileOK, IndexOK, HasChunkStats

\* The statistics files after some records of the saving column were refreshed.
LEMMA RefreshedStatsFile ==
    ASSUME TypeOK, save.phase = "refresh", NEW chunks,
           statsFile' = [statsFile EXCEPT ![save.col] = Refreshed(@, chunks)]
    PROVE  /\ StatsFileOK'
           /\ \A c \in Cols : statsFile'[c] = IF c = save.col
                                            THEN Refreshed(statsFile[c], chunks)
                                            ELSE statsFile[c]
<1>1. save.col \in NumericCols /\ save.col \in Cols
  BY SavingColumn DEF Idle, Progress
<1>2. IsVector(Refreshed(statsFile[save.col], chunks))
  BY <1>1, RefreshedVector DEF TypeOK, StatsFileOK
<1>3. \A c \in Cols : statsFile'[c] = IF c = save.col
                                     THEN Refreshed(statsFile[c], chunks)
                                     ELSE statsFile[c]
  BY <1>1 DEF TypeOK, StatsFileOK
<1>4. DOMAIN statsFile' = Cols
  BY DEF TypeOK, StatsFileOK
<1> QED
  BY <1>1, <1>2, <1>3, <1>4 DEF TypeOK, StatsFileOK, IsVector

\* The indexes after the saving window replaced its records of one column.
LEMMA ReplacedIndex ==
    ASSUME TypeOK, save.phase = "refresh", NEW new,
           new # NoRecords => IsVector(new),
           index' = [index EXCEPT ![save.window][save.col] = new]
    PROVE  /\ IndexOK'
           /\ \A w \in Windows, c \in Cols :
                 index'[w][c] = IF w = save.window /\ c = save.col THEN new ELSE index[w][c]
<1>1. save.window \in Windows /\ save.col \in NumericCols /\ save.col \in Cols
  BY SavingColumn DEF Idle, Progress
<1>2. \A w \in Windows, c \in Cols :
         index'[w][c] = IF w = save.window /\ c = save.col THEN new ELSE index[w][c]
  BY <1>1 DEF TypeOK, IndexOK
<1>3. DOMAIN index' = Windows /\ \A w \in Windows : DOMAIN index'[w] = Cols
  BY <1>1 DEF TypeOK, IndexOK
<1> QED
  BY <1>1, <1>2, <1>3 DEF TypeOK, IndexOK, HasChunkStats, IsVector

LEMMA RefreshStatsTypeOK ==
    ASSUME TypeOK, RefreshStats
    PROVE  TypeOK'
<1> DEFINE w == save.window
           col == save.col
           new == Refreshed(index[w][col], save.dirty)
<1>1. /\ save # Idle /\ save.phase = "refresh" /\ col \in Cols /\ w \in Windows
      /\ IsVector(index[w][col])
  BY SavingColumn DEF RefreshStats, Idle, Progress, TypeOK, IndexOK
<1>2. index' = [index EXCEPT ![w][col] = new]
  BY DEF RefreshStats
<1>3. IsVector(new)
  BY <1>1, RefreshedVector
<1>4. IndexOK'
  <2> HIDE DEF new, w, col
  <2>1. index' = [index EXCEPT ![save.window][save.col] = new]
    BY <1>2 DEF w, col
  <2> QED
    BY <1>1, <1>3, <2>1, ReplacedIndex
<1>5. StatsFileOK'
  BY <1>1, RefreshedStatsFile DEF RefreshStats
<1>6. SaveOK'
  BY <1>1, NextColumnType DEF RefreshStats, SaveOK
<1> QED
  BY <1>4, <1>5, <1>6 DEF RefreshStats, TypeOK

LEMMA DroppedIndex ==
    ASSUME TypeOK, save.phase = "refresh",
           index' = [index EXCEPT ![save.window][save.col] = NoRecords]
    PROVE  \A w \in Windows, c \in Cols :
              index'[w][c] = IF w = save.window /\ c = save.col THEN NoRecords ELSE index[w][c]
<1>1. save.window \in Windows /\ save.col \in Cols
  BY SavingColumn DEF Idle, Progress
<1> QED
  BY <1>1 DEF TypeOK, IndexOK

LEMMA StatsFailureTypeOK ==
    ASSUME TypeOK, StatsOpenFails \/ StatsWriteFails
    PROVE  TypeOK'
<1>1. save.phase = "refresh" /\ index' = [index EXCEPT ![save.window][save.col] = NoRecords]
  BY DEF StatsOpenFails, StatsWriteFails
<1>2. IndexOK'
  BY <1>1, ReplacedIndex
<1>3. SaveOK'
  BY DEF StatsOpenFails, StatsWriteFails, SaveOK
<1>4. StatsFileOK'
  <2>1. CASE StatsOpenFails
    BY <2>1 DEF StatsOpenFails, TypeOK, StatsFileOK
  <2>2. CASE StatsWriteFails
    <3>1. PICK written \in SUBSET save.dirty :
             statsFile' = [statsFile EXCEPT ![save.col] = Refreshed(@, written)]
      BY <2>2 DEF StatsWriteFails
    <3> QED
      BY <1>1, <3>1, RefreshedStatsFile
  <2> QED
    BY <2>1, <2>2
<1> QED
  BY <1>2, <1>3, <1>4 DEF StatsOpenFails, StatsWriteFails, TypeOK

LEMMA DataWriteFailsTypeOK ==
    ASSUME TypeOK, DataWriteFails
    PROVE  TypeOK'
<1>1. cells' \in [Cols -> [Rows -> Values]]
  BY PatchingSaves, SavingColumn, PatchedType DEF DataWriteFails
<1>2. SaveOK'
  BY DEF DataWriteFails, SaveOK
<1> QED
  BY <1>1, <1>2 DEF DataWriteFails, TypeOK, StatsFileOK, IndexOK, HasChunkStats

LEMMA CrashTypeOK ==
    ASSUME TypeOK, Crash
    PROVE  TypeOK'
<1>1. cells' \in [Cols -> [Rows -> Values]]
  <2>1. CASE Patching
    BY <2>1, PatchingSaves, SavingColumn, PatchedType DEF Crash
  <2>2. CASE ~Patching
    BY <2>2 DEF Crash, TypeOK
  <2> QED
    BY <2>1, <2>2
<1>2. StatsFileOK'
  <2>1. CASE save.phase = "refresh"
    <3>1. PICK written \in SUBSET save.dirty :
             statsFile' = [statsFile EXCEPT ![save.col] = Refreshed(@, written)]
      BY <2>1 DEF Crash
    <3> QED
      BY <2>1, <3>1, RefreshedStatsFile
  <2>2. CASE save.phase # "refresh"
    BY <2>2 DEF Crash, TypeOK, StatsFileOK
  <2> QED
    BY <2>1, <2>2
<1>3. overrides' \in [Windows -> [Cols -> [Rows -> Values \cup {NoEdit}]]]
  BY DEF Crash, Untouched
<1>4. IndexOK'
  BY DEF Crash, IndexOK, HasChunkStats
<1>5. SaveOK' /\ open' \subseteq Windows
  BY DEF Crash, SaveOK
<1> QED
  BY <1>1, <1>2, <1>3, <1>4, <1>5 DEF TypeOK

LEMMA OtherTypeOK ==
    ASSUME TypeOK, SkipColumn \/ DataOpenFails \/ FinishSave \/ UNCHANGED vars
    PROVE  TypeOK'
<1>1. SaveOK'
  <2>1. CASE SkipColumn
    <3>1. save # Idle /\ save.col \in Cols
      BY <2>1 DEF SkipColumn, Idle, Progress
    <3> QED
      BY <2>1, <3>1, NextColumnType DEF SkipColumn, SaveOK
  <2>2. CASE DataOpenFails \/ FinishSave
    BY <2>2 DEF DataOpenFails, FinishSave, SaveOK
  <2>3. CASE UNCHANGED vars
    BY <2>3 DEF TypeOK, SaveOK, vars, HasChunkStats
  <2> QED
    BY <2>1, <2>2, <2>3
<1> QED
  BY <1>1 DEF SkipColumn, DataOpenFails, FinishSave, vars, TypeOK, StatsFileOK, IndexOK,
              HasChunkStats

LEMMA NextTypeOK == TypeOK /\ [Next]_vars => TypeOK'
<1> SUFFICES ASSUME TypeOK, [Next]_vars PROVE TypeOK'
  OBVIOUS
<1>1. ASSUME NEW w \in Windows, OpenTable(w) \/ CloseTable(w) \/ BeginSave(w)
      PROVE  TypeOK'
  BY <1>1, OpenTypeOK, CloseTypeOK, BeginSaveTypeOK
<1>2. ASSUME NEW w \in Windows, NEW c \in Cols, NEW r \in Rows, NEW v \in Values,
             SetValue(w, c, r, v)
      PROVE  TypeOK'
  BY <1>2, SetValueTypeOK
<1>3. CASE SaveStep
  BY <1>3, OtherTypeOK, PatchColumnTypeOK, DataWriteFailsTypeOK, RefreshStatsTypeOK,
     StatsFailureTypeOK DEF SaveStep
<1>4. CASE Crash
  BY <1>4, CrashTypeOK
<1>5. CASE UNCHANGED vars
  BY <1>5, OtherTypeOK
<1> QED
  BY <1>1, <1>2, <1>3, <1>4, <1>5 DEF Next

(* Whatever fails, in however many windows and columns, the files, the      *)
(* override maps, the indexes and the progress of a save keep their types:  *)
(* in particular a column is only ever refreshed when it has records.       *)
THEOREM TableTypeOK == Spec => []TypeOK
  BY InitTypeOK, NextTypeOK, PTL DEF Spec
-------------------------------------------------------------------------------
(* What a save has done so far. *)

LEMMA NextSavedColumnsClean ==
    ASSUME TypeOK, SavedColumnsClean, [Next]_vars
    PROVE  SavedColumnsClean'
<1>1. ASSUME NEW w \in Windows, OpenTable(w) \/ CloseTable(w)
      PROVE  SavedColumnsClean'
  BY <1>1 DEF OpenTable, CloseTable, SavedColumnsClean
<1>2. ASSUME NEW w \in Windows, BeginSave(w)
      PROVE  SavedColumnsClean'
  BY <1>2, TableStoreAssumption DEF BeginSave, SavedColumnsClean, Progress, Cols
<1>3. ASSUME NEW w \in Windows, NEW c \in Cols, NEW r \in Rows, NEW v \in Values,
             SetValue(w, c, r, v)
      PROVE  SavedColumnsClean'
  BY <1>3 DEF SetValue, SavedColumnsClean
<1>4. CASE SkipColumn
  <2>1. \A w, c : EditedRows(w, c)' = EditedRows(w, c)
    BY <1>4 DEF SkipColumn, EditedRows
  <2>2. /\ save # Idle /\ save.col \in Cols /\ save.phase = "patch"
        /\ save'.window = save.window /\ save'.col = save.col + 1 /\ save'.phase = "patch"
    BY <1>4 DEF SkipColumn, Idle, Progress, NextColumn
  <2>3. EditedRows(save.window, save.col) = {}
    BY <1>4 DEF SkipColumn
  <2> QED
    BY <2>1, <2>2, <2>3, TableStoreAssumption DEF SavedColumnsClean, Cols
<1>5. CASE PatchColumn
  <2>1. /\ save # Idle /\ save.col \in Cols /\ save.window \in Windows /\ save.phase = "patch"
    BY <1>5, PatchingSaves, SavingColumn DEF PatchColumn, Patching
  <2>2. PICK w \in Windows, col \in Cols : w = save.window /\ col = save.col
    BY <2>1
  <2>3. \A c \in Cols : overrides'[w][c] = IF c = col THEN Untouched ELSE overrides[w][c]
    BY <1>5, <2>2 DEF PatchColumn, TypeOK
  <2>4. /\ EditedRows(w, col)' = {}
        /\ \A c \in Cols : c # col => EditedRows(w, c)' = EditedRows(w, c)
    BY <2>3 DEF EditedRows, Untouched
  <2>5. /\ save'.window = w
        /\ \/ save'.phase = "refresh" /\ save'.col = col
           \/ save'.phase = "patch" /\ save'.col = col + 1
    BY <1>5, <2>2 DEF PatchColumn, RefreshColumn, NextColumn, Progress
  <2>6. ASSUME NEW c \in Cols, c < save'.col \/ (c = save'.col /\ save'.phase = "refresh")
        PROVE  EditedRows(w, c)' = {}
    <3>1. CASE c = col
      BY <2>4, <3>1
    <3>2. CASE c # col
      <4>1. c < col
        BY <2>5, <2>6, <3>2, TableStoreAssumption DEF Cols
      <4> QED
        BY <2>1, <2>2, <2>4, <3>2, <4>1 DEF SavedColumnsClean
    <3> QED
      BY <3>1, <3>2
  <2> QED
    BY <2>5, <2>6 DEF SavedColumnsClean
<1>6. CASE RefreshStats
  <2>1. \A w, c : EditedRows(w, c)' = EditedRows(w, c)
    BY <1>6 DEF RefreshStats, EditedRows
  <2>2. /\ save # Idle /\ save.phase = "refresh" /\ save.col \in Cols
        /\ save'.window = save.window /\ save'.col = save.col + 1 /\ save'.phase = "patch"
    BY <1>6, SavingColumn DEF RefreshStats, Idle, Progress, NextColumn
  <2> QED
    BY <2>1, <2>2, TableStoreAssumption DEF SavedColumnsClean, Cols
<1>7. CASE \/ DataOpenFails \/ DataWriteFails \/ StatsOpenFails \/ StatsWriteFails
           \/ FinishSave \/ Crash
  BY <1>7 DEF DataOpenFails, DataWriteFails, StatsOpenFails, StatsWriteFails, FinishSave,
              Crash, SavedColumnsClean
<1>8. CASE UNCHANGED vars
  BY <1>8 DEF vars, SavedColumnsClean, EditedRows
<1> QED
  BY <1>1, <1>2, <1>3, <1>4, <1>5, <1>6, <1>7, <1>8 DEF Next, SaveStep

(* A save passes a column only when every edit of that column is in its     *)
(* file, so SaveOverrides answers true only when nothing is left unsaved.   *)
THEOREM TableSavedColumnsClean == Spec => []SavedColumnsClean
<1>1. Init => SavedColumnsClean
  BY DEF Init, SavedColumnsClean
<1>2. TypeOK /\ SavedColumnsClean /\ [Next]_vars => SavedColumnsClean'
  BY NextSavedColumnsClean
<1> QED
  BY <1>1, <1>2, TableTypeOK, PTL DEF Spec
-------------------------------------------------------------------------------
(* The statistics index.  A record depends on nothing but the rows of its   *)
(* chunk, and the rows of a chunk are found from the count in its record.   *)

\* The rows of a chunk of this dataset.
LEMMA ChunkSpan ==
    ASSUME NEW k \in Chunks
    PROVE  LET first == ChunkStart(k)
               last  == ChunkLast(k, NumRows)
           IN  /\ k \in Nat /\ first \in Nat /\ last \in Nat /\ first <= last /\ last < NumRows
               /\ first + RowsIn(first, last) - 1 = last
               /\ \A r \in first .. last : r \in Rows /\ ChunkOf(r) = k
<1> DEFINE first == ChunkStart(k)
           last  == ChunkLast(k, NumRows)
<1>1. NumRows \in Nat /\ ChunkSize \in Nat
  BY ChunkStatsAssumption, TableStoreAssumption
<1>2. PICK r \in Rows : k = ChunkOf(r)
  BY DEF Chunks
<1>3. r \in Nat /\ r < NumRows
  BY <1>1 DEF Rows
<1>4. k \in Nat /\ first \in Nat /\ first <= r
  BY <1>2, <1>3, ChunkBounds, ChunkNext
<1>5. /\ last \in Nat /\ first <= last /\ last < NumRows /\ last < first + ChunkSize
  BY <1>1, <1>3, <1>4, ChunkLastRow
<1> HIDE DEF first, last
<1>6. first + RowsIn(first, last) - 1 = last
  BY <1>4, <1>5 DEF RowsIn
<1>7. ASSUME NEW x \in first .. last PROVE x \in Rows /\ ChunkOf(x) = k
  <2>1. x \in Nat /\ first <= x /\ x < first + ChunkSize /\ x < NumRows
    BY <1>1, <1>4, <1>5
  <2> QED
    BY <1>1, <1>4, <2>1, ChunkUnique DEF Rows, first
<1> QED
  BY <1>4, <1>5, <1>6, <1>7 DEF first, last

LEMMA SummaryOfRows ==
    ASSUME NEW f, NEW g, NEW k \in Chunks,
           \A r \in ChunkStart(k) .. ChunkLast(k, NumRows) : f[r] = g[r]
    PROVE  ChunkRecord(f, k) = ChunkRecord(g, k)
<1>1. ChunkStart(k) \in Int /\ ChunkLast(k, NumRows) \in Int
  BY ChunkSpan
<1>2. ScanRange(f, ChunkStart(k), ChunkLast(k, NumRows), Empty)
          = ScanRange(g, ChunkStart(k), ChunkLast(k, NumRows), Empty)
  BY <1>1, ScanAgrees
<1> QED
  BY <1>2 DEF ChunkRecord, Summarize

\* Every record counts the rows of its chunk, stale or not: the count is what a
\* refresh uses to find the rows again.
RowCount(k) == RowsIn(ChunkStart(k), ChunkLast(k, NumRows))

LEMMA RecordCount == \A f : \A k \in Chunks : ChunkRecord(f, k).count = RowCount(k)
<1> SUFFICES ASSUME NEW f, NEW k \in Chunks PROVE ChunkRecord(f, k).count = RowCount(k)
  OBVIOUS
<1> DEFINE a == ChunkStart(k)
           b == ChunkLast(k, NumRows)
           scan == ScanRange(f, a, b, Empty)
<1>1. a \in Int /\ b \in Int /\ a <= b
  BY ChunkSpan
<1>2. scan = Add(ScanRange(f, a, b - 1, Empty), f[b])
  <2> HIDE DEF a, b
  <2> QED
    BY <1>1, ScanSteps
<1>3. ChunkRecord(f, k) = [scan EXCEPT !.count = RowsIn(a, b)]
  BY DEF ChunkRecord, Summarize
<1> HIDE DEF scan, a, b
<1>4. ChunkRecord(f, k).count = RowsIn(a, b)
  BY <1>2, <1>3 DEF Add
<1> QED
  BY <1>4 DEF RowCount, a, b

CountsExact ==
    /\ \A c \in NumericCols, k \in Chunks : statsFile[c][k].count = RowCount(k)
    /\ \A w \in Windows, c \in NumericCols :
          HasChunkStats(w, c) => \A k \in Chunks : index[w][c][k].count = RowCount(k)

\* A refreshed record summarises what the saving window shows of the chunk.
LEMMA RefreshedRecord ==
    ASSUME TypeOK, CountsExact, save.phase = "refresh", NEW records, IsVector(records),
           NEW chunks, NEW k \in Chunks
    PROVE  Refreshed(records, chunks)[k] =
               IF k \in chunks
               THEN ChunkRecord(Shown(save.window, save.col), k)
               ELSE records[k]
<1>1. /\ save.window \in Windows /\ save.col \in NumericCols
      /\ HasChunkStats(save.window, save.col)
  BY SavingColumn DEF Idle, Progress
<1>2. index[save.window][save.col][k].count = RowCount(k)
  BY <1>1 DEF CountsExact
<1>3. ChunkEnd(k, index[save.window][save.col]) = ChunkLast(k, NumRows)
  BY <1>2, ChunkSpan DEF ChunkEnd, RowCount
<1> QED
  BY <1>3 DEF Refreshed, IsVector, ChunkRecord

\* ... and once the overrides of the column are cleared, that is the file.
LEMMA RefreshedFromFile ==
    ASSUME TypeOK, SavedColumnsClean, save.phase = "refresh", NEW k \in Chunks
    PROVE  ChunkRecord(Shown(save.window, save.col), k) = ChunkRecord(cells[save.col], k)
<1>1. save # Idle /\ save.col \in Cols
  BY SavingColumn DEF Idle, Progress
<1>2. EditedRows(save.window, save.col) = {}
  BY <1>1 DEF SavedColumnsClean
<1>3. \A r \in Rows : Shown(save.window, save.col)[r] = cells[save.col][r]
  BY <1>2 DEF Shown, EditedRows
<1> QED
  BY <1>3, SummaryOfRows, ChunkSpan

\* Patching leaves the summary of every other column and of every chunk without
\* overrides as it was.
LEMMA PatchKeepsSummary ==
    ASSUME TypeOK, PatchColumn, NEW c \in Cols, NEW k \in Chunks,
           c # save.col \/ k \notin DirtyChunks(save.window, save.col)
    PROVE  ChunkRecord(cells'[c], k) = ChunkRecord(cells[c], k)
<1>1. save.col \in Cols
  BY PatchingSaves DEF PatchColumn
<1>2. CASE c # save.col
  BY <1>1, <1>2 DEF PatchColumn, Patched, TypeOK
<1>3. CASE c = save.col
  <2>1. \A r \in ChunkStart(k) .. ChunkLast(k, NumRows) :
           r \in Rows /\ r \notin EditedRows(save.window, c)
    BY <1>3, ChunkSpan DEF DirtyChunks
  <2>2. cells'[c] = [r \in Rows |-> IF r \in EditedRows(save.window, c)
                                   THEN overrides[save.window][c][r] ELSE cells[c][r]]
    BY <1>1, <1>3 DEF PatchColumn, Patched, TypeOK
  <2>3. \A r \in ChunkStart(k) .. ChunkLast(k, NumRows) : cells'[c][r] = cells[c][r]
    BY <2>1, <2>2
  <2> QED
    BY <2>3, SummaryOfRows
<1> QED
  BY <1>2, <1>3

LEMMA InitCountsExact == Init => CountsExact
<1> SUFFICES ASSUME Init PROVE CountsExact
  OBVIOUS
<1>1. \A c \in NumericCols, k \in Chunks : statsFile[c][k].count = RowCount(k)
  BY RecordCount, TableStoreAssumption DEF Init, Cols
<1>2. \A w \in Windows, c \in NumericCols : ~HasChunkStats(w, c)
  BY TableStoreAssumption DEF Init, HasChunkStats, Cols
<1> QED
  BY <1>1, <1>2 DEF CountsExact

LEMMA NextCountsExact ==
    ASSUME TypeOK, CountsExact, [Next]_vars
    PROVE  CountsExact'
<1> DEFINE FileCounts == \A c \in NumericCols, k \in Chunks : statsFile[c][k].count = RowCount(k)
           IndexCounts == \A w \in Windows, c \in NumericCols :
                HasChunkStats(w, c) => \A k \in Chunks : index[w][c][k].count = RowCount(k)
<1>0. FileCounts /\ IndexCounts /\ NumericCols \subseteq Cols
  BY TableStoreAssumption DEF CountsExact, Cols
<1>1. ASSUME save.phase = "refresh", NEW chunks,
             statsFile' = [statsFile EXCEPT ![save.col] = Refreshed(@, chunks)]
      PROVE  FileCounts'
  <2>1. ASSUME NEW c \in NumericCols, NEW k \in Chunks
        PROVE  statsFile'[c][k].count = RowCount(k)
    <3>1. statsFile'[c] = IF c = save.col THEN Refreshed(statsFile[c], chunks) ELSE statsFile[c]
      BY <1>0, <1>1, RefreshedStatsFile
    <3>2. IsVector(statsFile[c])
      BY <1>0 DEF TypeOK, StatsFileOK
    <3>3. Refreshed(statsFile[c], chunks)[k].count = RowCount(k)
      BY <1>0, <1>1, <3>2, RefreshedRecord, RecordCount
    <3> QED
      BY <1>0, <3>1, <3>3
  <2> QED
    BY <2>1
<1>2. ASSUME NEW w \in Windows, OpenTable(w)
      PROVE  CountsExact'
  BY <1>0, <1>2 DEF OpenTable, CountsExact, HasChunkStats, TypeOK, IndexOK
<1>3. ASSUME NEW w \in Windows, CloseTable(w)
      PROVE  CountsExact'
  <2>1. \A v \in Windows : index'[v] = IF v = w THEN [c \in Cols |-> NoRecords] ELSE index[v]
    BY <1>3 DEF CloseTable, TypeOK, IndexOK
  <2> QED
    BY <1>0, <1>3, <2>1 DEF CloseTable, CountsExact, HasChunkStats
<1>4. CASE RefreshStats
  <2>1. save.phase = "refresh"
    BY <1>4 DEF RefreshStats
  <2>2. FileCounts'
    BY <1>1, <1>4, <2>1 DEF RefreshStats
  <2>3. ASSUME NEW w \in Windows, NEW c \in NumericCols, HasChunkStats(w, c)', NEW k \in Chunks
        PROVE  index'[w][c][k].count = RowCount(k)
    <3>1. save.window \in Windows /\ save.col \in Cols /\ HasChunkStats(save.window, save.col)
      BY <2>1, SavingColumn DEF Idle, Progress
    <3>2. IsVector(index[save.window][save.col])
      BY <3>1 DEF TypeOK, IndexOK
    <3>3. CASE w = save.window /\ c = save.col
      <4>1. index'[w][c] = Refreshed(index[save.window][save.col], save.dirty)
        BY <1>0, <1>4, <3>3 DEF RefreshStats, TypeOK, IndexOK
      <4> QED
        BY <1>0, <2>1, <3>1, <3>2, <3>3, <4>1, RefreshedRecord, RecordCount
    <3>4. CASE ~(w = save.window /\ c = save.col)
      <4>1. index'[w][c] = index[w][c]
        BY <1>0, <1>4, <3>1, <3>4 DEF RefreshStats, TypeOK, IndexOK
      <4> QED
        BY <1>0, <2>3, <4>1 DEF HasChunkStats
    <3> QED
      BY <3>3, <3>4
  <2> QED
    BY <2>2, <2>3 DEF CountsExact
<1>5. CASE StatsOpenFails \/ StatsWriteFails
  <2>1. /\ save.phase = "refresh"
        /\ index' = [index EXCEPT ![save.window][save.col] = NoRecords]
    BY <1>5 DEF StatsOpenFails, StatsWriteFails
  <2>2. FileCounts'
    BY <1>0, <1>1, <1>5, <2>1 DEF StatsOpenFails, StatsWriteFails
  <2>3. \A w \in Windows, c \in Cols :
           index'[w][c] = IF w = save.window /\ c = save.col THEN NoRecords ELSE index[w][c]
    BY <1>0, <2>1, DroppedIndex
  <2> QED
    BY <1>0, <2>2, <2>3 DEF CountsExact, HasChunkStats
<1>6. CASE Crash
  <2>1. FileCounts'
    BY <1>0, <1>1, <1>6 DEF Crash
  <2> QED
    BY <1>0, <1>6, <2>1 DEF Crash, CountsExact, HasChunkStats
<1>7. CASE UNCHANGED <<statsFile, index>>
  BY <1>0, <1>7 DEF CountsExact, HasChunkStats
<1>8. \/ \E w \in Windows : OpenTable(w) \/ CloseTable(w)
      \/ RefreshStats \/ StatsOpenFails \/ StatsWriteFails \/ Crash
      \/ UNCHANGED <<statsFile, index>>
  BY DEF Next, SaveStep, BeginSave, SetValue, SkipColumn, PatchColumn, DataOpenFails,
         DataWriteFails, FinishSave, vars
<1> QED
  BY <1>2, <1>3, <1>4, <1>5, <1>6, <1>7, <1>8
-------------------------------------------------------------------------------
(* What the records are worth. *)

TableInv == TypeOK /\ SavedColumnsClean /\ CountsExact

THEOREM TableInvariant == Spec => []TableInv
<1>1. Init => TableInv
  BY InitTypeOK, InitCountsExact DEF TableInv, Init, SavedColumnsClean
<1>2. TableInv /\ [Next]_vars => TableInv'
  BY NextTypeOK, NextSavedColumnsClean, NextCountsExact DEF TableInv
<1> QED
  BY <1>1, <1>2, PTL DEF Spec

\* The records of column c before and after a patch that leads to a refresh.
LEMMA PatchReflects ==
    ASSUME TableInv, PatchColumn, NEW c \in NumericCols, NEW records, Reflects(records, c),
           c = save.col => HasChunkStats(save.window, c) \/ records = NoRecords
    PROVE  records # NoRecords =>
               \A k \in Chunks \ Refreshing(c)' : records[k] = ChunkRecord(cells'[c], k)
<1> USE DEF TableInv
<1>1. save.phase = "patch" /\ save # Idle /\ save.col \in Cols /\ c \in Cols
  BY PatchingSaves, TableStoreAssumption DEF PatchColumn, Patching, Cols
<1>2. Refreshing(c) = {}
  BY <1>1 DEF Refreshing
<1>3. CASE c # save.col
  BY <1>1, <1>2, <1>3, PatchKeepsSummary DEF Reflects
<1>4. CASE c = save.col /\ records # NoRecords
  <2>1. Refreshing(c)' = DirtyChunks(save.window, save.col)
    BY <1>4 DEF PatchColumn, Refreshing, RefreshColumn, Progress
  <2> QED
    BY <1>1, <1>2, <1>4, <2>1, PatchKeepsSummary DEF Reflects
<1> QED
  BY <1>3, <1>4

\* The records of column c before and after a refresh.
LEMMA RefreshReflects ==
    ASSUME TableInv, RefreshStats, NEW c \in NumericCols, NEW records, IsVector(records),
           Reflects(records, c),
           NEW after, after = IF c = save.col THEN Refreshed(records, save.dirty) ELSE records
    PROVE  after # NoRecords =>
               \A k \in Chunks \ Refreshing(c)' : after[k] = ChunkRecord(cells'[c], k)
<1> USE DEF TableInv
<1>1. save.phase = "refresh" /\ cells' = cells
  BY DEF RefreshStats
<1>2. Refreshing(c) = IF c = save.col THEN save.dirty ELSE {}
  BY <1>1 DEF Refreshing
<1>3. ASSUME NEW k \in Chunks, records # NoRecords
      PROVE  after[k] = ChunkRecord(cells[c], k)
  <2>1. CASE c # save.col
    BY <1>2, <1>3, <2>1 DEF Reflects
  <2>2. CASE c = save.col
    <3>1. after[k] = IF k \in save.dirty THEN ChunkRecord(cells[c], k) ELSE records[k]
      BY <1>1, <2>2, RefreshedRecord, RefreshedFromFile
    <3> QED
      BY <1>2, <1>3, <2>2, <3>1 DEF Reflects
  <2> QED
    BY <2>1, <2>2
<1>4. CASE records # NoRecords
  BY <1>1, <1>3, <1>4
<1>5. CASE records = NoRecords
  <2>1. Chunks = {}
    BY <1>5 DEF IsVector, NoRecords
  <2> QED
    BY <2>1
<1> QED
  BY <1>4, <1>5

LEMMA NextSoundIndex ==
    ASSUME TableInv, [Next]_vars, ~TornWrite,
           NEW w \in open \cap open', NEW c \in NumericCols,
           OwnTurn(w), Reflects(index[w][c], c)
    PROVE  Reflects(index[w][c], c)'
<1> USE DEF TableInv, OwnTurn
<1>0. w \in Windows /\ c \in Cols
  BY TableStoreAssumption DEF TypeOK, Cols
<1>1. ASSUME NEW v \in Windows, OpenTable(v) \/ CloseTable(v)
      PROVE  Reflects(index[w][c], c)'
  <2>1. v # w /\ cells' = cells /\ save' = save
    BY <1>0, <1>1 DEF OpenTable, CloseTable
  <2>2. index'[w] = index[w]
    BY <1>0, <1>1, <2>1 DEF OpenTable, CloseTable, TypeOK, IndexOK
  <2> QED
    BY <2>1, <2>2 DEF Reflects, Refreshing
<1>2. CASE PatchColumn
  <2>1. save.window = w
    BY <1>0, <1>2, PatchingSaves, SavingColumn DEF PatchColumn
  <2>2. index' = index
    BY <1>2 DEF PatchColumn
  <2> QED
    BY <1>2, <2>1, <2>2, PatchReflects DEF Reflects, HasChunkStats
<1>3. CASE RefreshStats
  <2>1. /\ save.phase = "refresh" /\ save.window = w /\ save.col \in Cols
        /\ HasChunkStats(save.window, save.col)
    BY <1>0, <1>3, SavingColumn DEF RefreshStats, Idle, Progress
  <2>2. index'[w][c] = IF c = save.col THEN Refreshed(index[w][c], save.dirty) ELSE index[w][c]
    BY <1>0, <1>3, <2>1 DEF RefreshStats, TypeOK, IndexOK
  <2>3. CASE HasChunkStats(w, c)
    <3>1. IsVector(index[w][c])
      BY <1>0, <2>3 DEF TypeOK, IndexOK
    <3> QED
      BY <1>3, <2>2, <3>1, RefreshReflects DEF Reflects
  <2>4. CASE ~HasChunkStats(w, c)
    BY <2>1, <2>2, <2>4 DEF Reflects, HasChunkStats
  <2> QED
    BY <2>3, <2>4
<1>4. CASE StatsOpenFails \/ StatsWriteFails
  <2>1. /\ save.phase = "refresh" /\ save.window = w /\ save # Idle /\ cells' = cells
        /\ index' = [index EXCEPT ![save.window][save.col] = NoRecords]
    BY <1>0, <1>4, SavingColumn DEF StatsOpenFails, StatsWriteFails, Idle, Progress
  <2>2. index'[w][c] = IF c = save.col THEN NoRecords ELSE index[w][c]
    BY <1>0, <2>1 DEF TypeOK, IndexOK
  <2>3. c # save.col => Refreshing(c) = {}
    BY DEF Refreshing
  <2> QED
    BY <2>1, <2>2, <2>3 DEF Reflects
<1>5. CASE DataWriteFails \/ Crash
  <2>1. CASE Crash
    BY <2>1 DEF Crash
  <2>2. CASE DataWriteFails
    <3>1. cells' = cells /\ index' = index
      BY <2>2 DEF DataWriteFails, TornWrite
    <3>2. Refreshing(c) = {} /\ Refreshing(c)' = {}
      BY <2>2 DEF DataWriteFails, Patching, Refreshing, Idle, Progress
    <3> QED
      BY <3>1, <3>2 DEF Reflects
  <2> QED
    BY <1>5, <2>1, <2>2
<1>6. CASE \/ cells' = cells /\ index' = index /\ save' = save
           \/ SkipColumn \/ DataOpenFails \/ FinishSave
           \/ \E v \in Windows : BeginSave(v)
  <2>1. /\ cells' = cells /\ index' = index
        /\ save' = save \/ (Refreshing(c) = {} /\ Refreshing(c)' = {})
    BY <1>6 DEF SkipColumn, DataOpenFails, Patching, FinishSave, BeginSave, Refreshing,
                NextColumn, Progress, Idle
  <2> QED
    BY <2>1 DEF Reflects, Refreshing
<1>7. \/ \E v \in Windows : OpenTable(v) \/ CloseTable(v)
      \/ PatchColumn \/ RefreshStats \/ StatsOpenFails \/ StatsWriteFails
      \/ DataWriteFails \/ Crash
      \/ cells' = cells /\ index' = index /\ save' = save
      \/ SkipColumn \/ DataOpenFails \/ FinishSave
      \/ \E v \in Windows : BeginSave(v)
  BY DEF Next, SaveStep, SetValue, vars
<1> QED
  BY <1>1, <1>2, <1>3, <1>4, <1>5, <1>6, <1>7

(* Short of a torn write of a column file, a window keeps a sound index     *)
(* sound through every step of its own, whatever else fails and however     *)
(* many windows there are: "full scans stay correct"                        *)
(* (mmapped_table.cpp:330).                                                 *)
THEOREM TableSoundIndex == Spec => SoundIndexStaysSound
<1>1. ASSUME TableInv, [Next]_vars
      PROVE  \A w \in open \cap open', c \in NumericCols :
                 OwnTurn(w) /\ ~TornWrite /\ Reflects(index[w][c], c)
                     => Reflects(index[w][c], c)'
  BY <1>1, NextSoundIndex
<1>2. TableInv /\ [Next]_vars =>
         [\A w \in open \cap open', c \in NumericCols :
             OwnTurn(w) /\ ~TornWrite /\ Reflects(index[w][c], c)
                 => Reflects(index[w][c], c)']_vars
  BY <1>1
<1> QED
  BY <1>2, TableInvariant, PTL DEF Spec, SoundIndexStaysSound

(* With no failure but a column file that cannot be opened, the statistics  *)
(* files and the index of the only window reflect the data files, except    *)
(* for the chunks the running save has patched and not yet rescanned.       *)
OneWindow  == \A v, w \in Windows : v = w
MildFaults == Faults \subseteq {"dataOpen"}

\* An open window then has records for every numeric column.
IndexLoaded == \A w \in open, c \in NumericCols : IsVector(index[w][c])

ReflectInv == TableInv /\ IndexLoaded /\ IndexReflectsDisk /\ StatsFileReflectsDisk

LEMMA InitReflectInv == Init => IndexLoaded /\ IndexReflectsDisk /\ StatsFileReflectsDisk
<1> SUFFICES ASSUME Init PROVE IndexLoaded /\ IndexReflectsDisk /\ StatsFileReflectsDisk
  OBVIOUS
<1>1. open = {} /\ NumericCols \subseteq Cols
  BY TableStoreAssumption DEF Init, Cols
<1>2. \A c \in NumericCols : statsFile[c] = [k \in Chunks |-> ChunkRecord(cells[c], k)]
  BY <1>1 DEF Init
<1> QED
  BY <1>1, <1>2 DEF IndexLoaded, IndexReflectsDisk, StatsFileReflectsDisk, Reflects

LEMMA NextReflectInv ==
    ASSUME OneWindow, MildFaults, ReflectInv, [Next]_vars
    PROVE  IndexLoaded' /\ IndexReflectsDisk' /\ StatsFileReflectsDisk'
<1> USE DEF ReflectInv, TableInv
<1>0. NumericCols \subseteq Cols /\ open \subseteq Windows
  BY TableStoreAssumption DEF Cols, TypeOK
<1>8. \A w \in open : OwnTurn(w)
  BY <1>0, SavingColumn DEF OwnTurn, OneWindow
<1>9. PatchColumn \/ RefreshStats => ~TornWrite
  <2>1. PatchColumn => save' # Idle
    <3>1. ASSUME PatchColumn PROVE save'.window \in Windows
      BY <3>1, PatchingSaves, SavingColumn
         DEF PatchColumn, NextColumn, RefreshColumn, Progress
    <3> QED
      BY <3>1, TableStoreAssumption DEF Idle, Progress
  <2>2. RefreshStats => cells' = cells
    BY DEF RefreshStats
  <2> QED
    BY <2>1, <2>2 DEF TornWrite
<1>1. ASSUME NEW w \in Windows, OpenTable(w)
      PROVE  IndexLoaded' /\ IndexReflectsDisk' /\ StatsFileReflectsDisk'
  <2>1. /\ open' = {w} /\ index'[w] = statsFile /\ cells' = cells
        /\ statsFile' = statsFile /\ save' = save
    BY <1>0, <1>1 DEF OpenTable, OneWindow, TypeOK, IndexOK
  <2> QED
    BY <1>0, <2>1 DEF IndexLoaded, IndexReflectsDisk, StatsFileReflectsDisk, Reflects,
                      Refreshing, TypeOK, StatsFileOK
<1>2. ASSUME NEW w \in Windows, CloseTable(w)
      PROVE  IndexLoaded' /\ IndexReflectsDisk' /\ StatsFileReflectsDisk'
  <2>1. open' = {} /\ cells' = cells /\ statsFile' = statsFile /\ save' = save
    BY <1>0, <1>2 DEF CloseTable, OneWindow
  <2> QED
    BY <2>1 DEF IndexLoaded, IndexReflectsDisk, StatsFileReflectsDisk, Reflects, Refreshing
<1>3. CASE PatchColumn
  <2>1. /\ save.window \in open /\ save.col \in Cols /\ open' = open
        /\ index' = index /\ statsFile' = statsFile
        /\ EditedRows(save.window, save.col) # {}
    BY <1>3, PatchingSaves, SavingColumn DEF PatchColumn, Patching
  <2>2. Chunks # {}
    BY <2>1, EditedIsRows, ChunkOfRow
  <2>3. \A c \in NumericCols : c = save.col => HasChunkStats(save.window, c)
    BY <2>1, <2>2 DEF IndexLoaded, IsVector, HasChunkStats, NoRecords
  <2>4. ASSUME NEW c \in NumericCols PROVE Reflects(statsFile[c], c)'
    <3>1. Reflects(statsFile[c], c)
      BY DEF StatsFileReflectsDisk
    <3>2. statsFile[c]' = statsFile[c]
      BY <2>1
    <3> QED
      BY <1>0, <1>3, <2>3, <3>1, <3>2, PatchReflects DEF Reflects
  <2>5. \A w \in open', c \in NumericCols : Reflects(index[w][c], c)'
    BY <1>0, <1>8, <1>9, <1>3, <2>1, NextSoundIndex DEF IndexReflectsDisk
  <2> QED
    BY <2>1, <2>4, <2>5 DEF IndexLoaded, IndexReflectsDisk, StatsFileReflectsDisk
<1>4. CASE RefreshStats
  <2>1. /\ save.phase = "refresh" /\ save.window \in Windows /\ save.col \in Cols
        /\ open' = open /\ HasChunkStats(save.window, save.col)
    BY <1>4, SavingColumn DEF RefreshStats, Idle, Progress
  <2>2. ASSUME NEW c \in NumericCols PROVE Reflects(statsFile[c], c)'
    <3>1. statsFile'[c] = IF c = save.col THEN Refreshed(statsFile[c], save.dirty)
                                          ELSE statsFile[c]
      BY <1>0, <1>4, <2>1, RefreshedStatsFile DEF RefreshStats
    <3>2. IsVector(statsFile[c]) /\ Reflects(statsFile[c], c)
      BY <1>0 DEF TypeOK, StatsFileOK, StatsFileReflectsDisk
    <3> QED
      BY <1>4, <3>1, <3>2, RefreshReflects DEF Reflects
  <2>3. \A w \in open', c \in NumericCols : Reflects(index[w][c], c)'
    BY <1>0, <1>8, <1>9, <1>4, <2>1, NextSoundIndex DEF IndexReflectsDisk
  <2>4. ASSUME NEW w \in open, NEW c \in NumericCols PROVE IsVector(index'[w][c])
    <3>1. index'[w][c] = index[w][c] \/ index'[w][c] = Refreshed(index[w][c], save.dirty)
      BY <1>0, <1>4, <2>1 DEF RefreshStats, TypeOK, IndexOK
    <3> QED
      BY <3>1, RefreshedVector DEF IndexLoaded
  <2> QED
    BY <2>1, <2>2, <2>3, <2>4 DEF IndexLoaded, IndexReflectsDisk, StatsFileReflectsDisk
<1>5. CASE DataWriteFails \/ StatsOpenFails \/ StatsWriteFails \/ Crash
  BY <1>5 DEF DataWriteFails, StatsOpenFails, StatsWriteFails, Crash, MildFaults
<1>6. CASE \/ SkipColumn \/ DataOpenFails \/ FinishSave
           \/ \E v \in Windows : BeginSave(v)
           \/ UNCHANGED <<cells, statsFile, open, index, save>>
  <2>1. /\ cells' = cells /\ index' = index /\ statsFile' = statsFile /\ open' = open
        /\ \A c : Refreshing(c)' = Refreshing(c)
    BY <1>6 DEF SkipColumn, DataOpenFails, Patching, FinishSave, BeginSave, Refreshing,
                NextColumn, Progress, Idle
  <2> QED
    BY <2>1 DEF IndexLoaded, IndexReflectsDisk, StatsFileReflectsDisk, Reflects
<1> QED
  BY <1>1, <1>2, <1>3, <1>4, <1>5, <1>6 DEF Next, SaveStep, SetValue, vars

THEOREM TableReflectInv == OneWindow /\ MildFaults /\ Spec => []ReflectInv
<1>1. CASE ~(OneWindow /\ MildFaults)
  BY <1>1
<1>2. CASE OneWindow /\ MildFaults
  <2>1. Init => IndexLoaded /\ IndexReflectsDisk /\ StatsFileReflectsDisk
    BY InitReflectInv
  <2>2. TableInv /\ (IndexLoaded /\ IndexReflectsDisk /\ StatsFileReflectsDisk) /\ [Next]_vars
            => (IndexLoaded /\ IndexReflectsDisk /\ StatsFileReflectsDisk)'
    BY <1>2, NextReflectInv DEF ReflectInv
  <2>3. ReflectInv <=> TableInv /\ (IndexLoaded /\ IndexReflectsDisk /\ StatsFileReflectsDisk)
    BY DEF ReflectInv
  <2> QED
    BY <2>1, <2>2, <2>3, TableInvariant, PTL DEF Spec
<1> QED
  BY <1>1, <1>2

(* The in-memory records of the only window reflect the data files.         *)
THEOREM TableIndexReflectsDisk == OneWindow /\ MildFaults /\ Spec => []IndexReflectsDisk
<1>1. ReflectInv => IndexReflectsDisk
  BY DEF ReflectInv
<1> QED
  BY <1>1, TableReflectInv, PTL

(* The statistics files, which the next window loads unchecked, reflect the *)
(* data files.                                                              *)
THEOREM TableStatsFileReflectsDisk == OneWindow /\ MildFaults /\ Spec => []StatsFileReflectsDisk
<1>1. ReflectInv => StatsFileReflectsDisk
  BY DEF ReflectInv
<1> QED
  BY <1>1, TableReflectInv, PTL
-------------------------------------------------------------------------------
(* What queries answer. *)

\* A record that reflects the file serves a window for every chunk it has not
\* edited; a chunk it has edited is dirty.
LEMMA IndexServes ==
    ASSUME TableInv, NEW w \in open, NEW c \in NumericCols, Reflects(index[w][c], c),
           Refreshing(c) = {}, NEW k \in Chunks, HasChunkStats(w, c)
    PROVE  Usable(Shown(w, c), NumRows, index[w][c], DirtyChunks(w, c), k)
<1> USE DEF TableInv
<1>0. w \in Windows /\ c \in Cols
  BY TableStoreAssumption DEF TypeOK, Cols
<1>1. k \in DOMAIN index[w][c]
  BY <1>0 DEF TypeOK, IndexOK, IsVector
<1>2. index[w][c][k].count = RowsIn(ChunkStart(k), ChunkLast(k, NumRows))
  BY <1>0 DEF CountsExact, RowCount
<1>3. ASSUME k \notin DirtyChunks(w, c)
      PROVE  index[w][c][k] = ChunkRecord(Shown(w, c), k)
  <2>1. index[w][c][k] = ChunkRecord(cells[c], k)
    BY DEF Reflects, HasChunkStats
  <2>2. \A r \in ChunkStart(k) .. ChunkLast(k, NumRows) : Shown(w, c)[r] = cells[c][r]
    BY <1>3, ChunkSpan DEF DirtyChunks, EditedRows, Shown
  <2> QED
    BY <2>1, <2>2, SummaryOfRows
<1> QED
  BY <1>1, <1>2, <1>3 DEF Usable, ChunkRecord

LEMMA ShownCells ==
    ASSUME TypeOK, NEW w \in Windows, NEW c \in Cols
    PROVE  \A r \in 0 .. NumRows - 1 : Shown(w, c)[r] \in Cell
<1> SUFFICES ASSUME NEW r \in Rows PROVE Shown(w, c)[r] \in Cell
  BY DEF Rows
<1>1. overrides[w][c][r] \in Values \cup {NoEdit} /\ cells[c][r] \in Values
  BY DEF TypeOK
<1>2. Shown(w, c)[r] \in Values
  BY <1>1 DEF Shown
<1> QED
  BY <1>2, TableStoreAssumption DEF Cell

\* A window whose records of a column reflect the file, or that has none, answers
\* every query of that column with what it shows, unless a save has patched the
\* column and not yet refreshed its records.
SoundAnswers ==
    \A w \in open, c \in NumericCols : Refreshing(c) = {} /\ Reflects(index[w][c], c) =>
        \A first \in Rows : \A last \in first .. NumRows - 1 :
            ComputeStats(Shown(w, c), index[w][c], first, last, DirtyChunks(w, c)).result
                = Reference(Shown(w, c), first, last)

LEMMA SoundIndexAnswers == TableInv => SoundAnswers
<1> SUFFICES ASSUME TableInv, NEW w \in open, NEW c \in NumericCols,
                    Refreshing(c) = {}, Reflects(index[w][c], c),
                    NEW first \in Rows, NEW last \in first .. NumRows - 1
             PROVE  ComputeStats(Shown(w, c), index[w][c], first, last, DirtyChunks(w, c)).result
                        = Reference(Shown(w, c), first, last)
  BY DEF SoundAnswers
<1> DEFINE shown == Shown(w, c)
           recs  == index[w][c]
           dirty == DirtyChunks(w, c)
<1>1. w \in Windows /\ c \in Cols /\ NumRows \in Nat
  BY TableStoreAssumption DEF TableInv, TypeOK, Cols
<1>2. first \in Nat /\ last \in Nat /\ first <= last /\ last < NumRows
  BY <1>1 DEF Rows
<1>3. \A r \in 0 .. NumRows - 1 : shown[r] \in Cell
  BY <1>1, ShownCells DEF TableInv
<1>4. Serves(shown, NumRows, recs, dirty, first, last)
  <2> SUFFICES ASSUME recs # NoRecords, NEW k \in ChunkOf(first) .. ChunkOf(last)
               PROVE  Usable(shown, NumRows, recs, dirty, k)
    BY DEF Serves
  <2>1. k \in Chunks
    <3>1. /\ ChunkOf(first) \in Nat /\ ChunkOf(last) \in Nat /\ ChunkStart(ChunkOf(last)) <= last
          /\ ChunkStart(ChunkOf(last)) \in Nat
      BY <1>2, ChunkBounds, ChunkNext
    <3>2. k \in Nat /\ ChunkStart(k) \in Nat /\ (k = ChunkOf(last) \/ k < ChunkOf(last))
      BY <3>1, ChunkNext
    <3>3. k < ChunkOf(last) => ChunkStart(k) + ChunkSize <= ChunkStart(ChunkOf(last))
      BY <3>1, <3>2, ChunkOrder
    <3>4. ChunkStart(k) <= last
      BY <1>2, <3>1, <3>2, <3>3, ChunkStatsAssumption
    <3>5. ChunkStart(k) \in Rows /\ ChunkStart(k) < ChunkStart(k) + ChunkSize
      BY <1>1, <1>2, <3>2, <3>4, ChunkStatsAssumption DEF Rows
    <3>6. ChunkOf(ChunkStart(k)) = k
      BY <3>2, <3>5, ChunkUnique
    <3> QED
      BY <3>5, <3>6 DEF Chunks
  <2> QED
    BY <2>1, IndexServes DEF HasChunkStats
<1> HIDE DEF shown, recs, dirty
<1>5. ComputeStats(shown, recs, first, last, dirty).result = Reference(shown, first, last)
  BY <1>1, <1>2, <1>3, <1>4, ComputeStatsExact
<1> QED
  BY <1>5 DEF shown, recs, dirty

(* Whatever fails and however many windows there are, a window's answers    *)
(* are as good as its records: of a column whose records reflect the data   *)
(* file, or that has none ("full scans stay correct", mmapped_table.cpp:    *)
(* 330), every query answers what a scan of the cells the window shows      *)
(* would, unsaved edits included.  It holds between saves and during one,   *)
(* but for a column the save has patched and not yet refreshed.             *)
THEOREM TableSoundAnswers == Spec => []SoundAnswers
  BY SoundIndexAnswers, TableInvariant, PTL

(* With one window and no failure but a column file that cannot be opened,  *)
(* every range query answers what a scan of the cells the window shows      *)
(* would, between saves and during one, but for the column the save has     *)
(* patched and not yet refreshed: for every chunk size, table and sequence  *)
(* of edits.                                                                *)
THEOREM TableQueriesExact == OneWindow /\ MildFaults /\ Spec => []QueriesExact
<1>1. ReflectInv => QueriesExact
  BY SoundIndexAnswers DEF ReflectInv, IndexReflectsDisk, SoundAnswers, QueriesExact
<1> QED
  BY <1>1, TableReflectInv, PTL
-------------------------------------------------------------------------------
(* The table store implements the abstract sheet: under every fault, with   *)
(* any number of windows, every step of the store is a step of the sheet or *)
(* leaves the sheet as it is.                                               *)

\* What the sheet's variables stand for.
Show == [w \in Windows |-> [c \in Cols |-> Shown(w, c)]]
Pend == [w \in Windows |-> {x \in Cols \X Rows : x[2] \in EditedRows(w, x[1])}]

Grid == [Cols -> [Rows -> Values]]

LEMMA ShowType == TypeOK => Show \in [Windows -> Grid]
<1> SUFFICES ASSUME TypeOK, NEW w \in Windows, NEW c \in Cols, NEW r \in Rows
             PROVE  (IF overrides[w][c][r] # NoEdit THEN overrides[w][c][r] ELSE cells[c][r]) \in Values
  BY DEF Show, Shown, Grid
<1>1. overrides[w][c][r] \in Values \cup {NoEdit} /\ cells[c][r] \in Values
  BY DEF TypeOK
<1> QED
  BY <1>1

LEMMA ShowTypeNext == TypeOK' => (Show \in [Windows -> Grid])'
  BY ShowType, PTL

LEMMA ShowAt ==
    ASSUME NEW w \in Windows, NEW c \in Cols, NEW r \in Rows
    PROVE  Show[w][c][r] = IF overrides[w][c][r] # NoEdit THEN overrides[w][c][r] ELSE cells[c][r]
  BY DEF Show, Shown

LEMMA PendAt ==
    ASSUME NEW w \in Windows, NEW c \in Cols, NEW r \in Rows
    PROVE  <<c, r>> \in Pend[w] <=> overrides[w][c][r] # NoEdit
  BY DEF Pend, EditedRows

LEMMA PendType == \A w \in Windows : Pend[w] \subseteq Cols \X Rows
  BY DEF Pend

\* Two grids, and two sets of cells, that agree everywhere are the same.
LEMMA SameGrid ==
    ASSUME NEW f \in Grid, NEW g \in Grid,
           \A c \in Cols, r \in Rows : f[c][r] = g[c][r]
    PROVE  f = g
<1>1. \A c \in Cols : f[c] \in [Rows -> Values] /\ g[c] \in [Rows -> Values]
  BY DEF Grid
<1>2. \A c \in Cols : f[c] = g[c]
  BY <1>1
<1> QED
  BY <1>2 DEF Grid

LEMMA SameCells ==
    ASSUME NEW S \in SUBSET (Cols \X Rows), NEW T \in SUBSET (Cols \X Rows),
           \A c \in Cols, r \in Rows : <<c, r>> \in S <=> <<c, r>> \in T
    PROVE  S = T
  OBVIOUS
-------------------------------------------------------------------------------
LEMMA InitSheet == Init => Sheet!Init
<1> SUFFICES ASSUME Init PROVE Sheet!Init
  OBVIOUS
<1>1. TypeOK
  BY InitTypeOK
<1>2. \A w \in Windows, c \in Cols, r \in Rows : overrides[w][c][r] = NoEdit
  BY DEF Init, Untouched
<1>3. Show = [w \in Windows |-> cells]
  <2>1. ASSUME NEW w \in Windows PROVE Show[w] = cells
    <3>1. Show[w] \in Grid /\ cells \in Grid
      BY <1>1, ShowType DEF TypeOK, Grid
    <3> QED
      BY <1>2, <3>1, ShowAt, SameGrid
  <2> QED
    BY <2>1 DEF Show
<1>4. Pend = [w \in Windows |-> {}]
  <2>1. ASSUME NEW w \in Windows PROVE Pend[w] = {}
    BY <1>2, PendAt, PendType, SameCells
  <2> QED
    BY <2>1 DEF Pend
<1> QED
  BY <1>3, <1>4 DEF Init, Sheet!Init, Show, Pend
-------------------------------------------------------------------------------
(* What the sheet's actions say of the store's variables. *)

\* Nothing the sheet shows has changed.
LEMMA SheetStutters ==
    ASSUME UNCHANGED <<cells, open, overrides>>
    PROVE  UNCHANGED Sheet!vars
  BY DEF Sheet!vars, Shown, EditedRows

LEMMA OpensSheet ==
    ASSUME NEW w \in Windows, OpenTable(w)
    PROVE  Sheet!Open(w)
  BY DEF OpenTable, Sheet!Open, Shown, EditedRows

LEMMA ClosesSheet ==
    ASSUME TypeOK, TypeOK', NEW w \in Windows, CloseTable(w)
    PROVE  Sheet!Close(w)
<1> USE DEF CloseTable
<1>1. \A v \in Windows, c \in Cols, r \in Rows :
          overrides'[v][c][r] = IF v = w THEN NoEdit ELSE overrides[v][c][r]
  BY DEF TypeOK, Untouched
<1>2. Show' = [Show EXCEPT ![w] = cells]
  <2>1. Show'[w] = cells
    <3>1. \A c \in Cols, r \in Rows : Show'[w][c][r] = cells[c][r]
      BY <1>1 DEF Show, Shown
    <3>2. Show'[w] \in Grid /\ cells \in Grid
      <4>1. Show' \in [Windows -> Grid]
        BY ShowTypeNext
      <4> QED
        BY <4>1 DEF TypeOK, Grid
    <3> QED
      BY <3>1, <3>2, SameGrid
  <2>2. ASSUME NEW v \in Windows, v # w PROVE Show'[v] = Show[v]
    BY <2>2, <1>1 DEF Show, Shown, TypeOK
  <2> QED
    BY <2>1, <2>2 DEF Show
<1>3. Pend' = [Pend EXCEPT ![w] = {}]
  <2>1. ASSUME NEW v \in Windows
        PROVE  Pend'[v] = IF v = w THEN {} ELSE Pend[v]
    <3>1. \A c \in Cols, r \in Rows :
              r \in EditedRows(v, c)' <=> v # w /\ r \in EditedRows(v, c)
      BY <1>1 DEF EditedRows
    <3> QED
      BY <3>1 DEF Pend
  <2> QED
    BY <2>1 DEF Pend
<1> QED
  BY <1>2, <1>3 DEF Sheet!Close, Show, Pend

LEMMA EditsSheet ==
    ASSUME TypeOK, TypeOK',
           NEW w \in Windows, NEW c \in Cols, NEW r \in Rows, NEW v \in Values,
           SetValue(w, c, r, v)
    PROVE  Sheet!Edit(w, c, r, v)
<1> USE DEF SetValue
<1>1. \A u \in Windows, d \in Cols, q \in Rows :
          overrides'[u][d][q] = IF u = w /\ d = c /\ q = r
                                THEN (IF v = cells[c][r] THEN NoEdit ELSE v)
                                ELSE overrides[u][d][q]
  BY DEF TypeOK
<1>2. v # NoEdit
  BY TableStoreAssumption
<1>3. Show \in [Windows -> Grid] /\ Show' \in [Windows -> Grid]
  BY ShowType, ShowTypeNext
<1>4. Show' = [Show EXCEPT ![w][c][r] = v]
  <2> DEFINE next == [Show EXCEPT ![w][c][r] = v]
  <2>1. next \in [Windows -> Grid]
    BY <1>3 DEF Grid
  <2>2. \A u \in Windows, d \in Cols, q \in Rows :
            next[u][d][q] = IF u = w /\ d = c /\ q = r THEN v ELSE Show[u][d][q]
    BY <1>3 DEF Grid
  <2> HIDE DEF next
  <2>3. ASSUME NEW u \in Windows, NEW d \in Cols, NEW q \in Rows
        PROVE  Show'[u][d][q] = next[u][d][q]
    <3>1. Show'[u][d][q] = IF overrides'[u][d][q] # NoEdit THEN overrides'[u][d][q]
                                                            ELSE cells[d][q]
      BY DEF Show, Shown
    <3> QED
      BY <1>1, <1>2, <2>2, <3>1, ShowAt
  <2>4. \A u \in Windows : Show'[u] = next[u]
    BY <1>3, <2>1, <2>3, SameGrid
  <2>5. Show' = next
    BY <1>3, <2>1, <2>4
  <2> QED
    BY <2>5 DEF next
<1>5. Pend' = [Pend EXCEPT ![w] = IF v = cells[c][r] THEN @ \ {<<c, r>>}
                                                      ELSE @ \cup {<<c, r>>}]
  <2>1. ASSUME NEW u \in Windows
        PROVE  Pend'[u] = IF u # w THEN Pend[u]
                          ELSE IF v = cells[c][r] THEN Pend[w] \ {<<c, r>>}
                          ELSE Pend[w] \cup {<<c, r>>}
    <3> DEFINE S == IF u # w THEN Pend[u]
                    ELSE IF v = cells[c][r] THEN Pend[w] \ {<<c, r>>}
                    ELSE Pend[w] \cup {<<c, r>>}
    <3>1. Pend'[u] \in SUBSET (Cols \X Rows) /\ S \in SUBSET (Cols \X Rows)
      BY DEF Pend
    <3>2. ASSUME NEW d \in Cols, NEW q \in Rows
          PROVE  <<d, q>> \in Pend'[u] <=> <<d, q>> \in S
      <4>1. <<d, q>> \in Pend'[u] <=> overrides'[u][d][q] # NoEdit
        BY DEF Pend, EditedRows
      <4> QED
        BY <1>1, <1>2, <4>1, PendAt
    <3> HIDE DEF S
    <3>3. Pend'[u] = S
      BY <3>1, <3>2, SameCells
    <3> QED
      BY <3>3 DEF S
  <2> QED
    BY <2>1 DEF Pend
<1> QED
  BY <1>4, <1>5 DEF Sheet!Edit, Show, Pend
-------------------------------------------------------------------------------
(* A patch, whole or torn. *)

LEMMA PersistsSheet ==
    ASSUME TypeOK, TypeOK', NEW w \in open,
           NEW written \in SUBSET Pend[w], NEW forgotten \in {{}, written},
           open' = open,
           \A c \in Cols, r \in Rows :
               cells'[c][r] = IF <<c, r>> \in written THEN overrides[w][c][r] ELSE cells[c][r],
           \A v \in Windows, c \in Cols, r \in Rows :
               overrides'[v][c][r] = IF v = w /\ <<c, r>> \in forgotten
                                     THEN NoEdit ELSE overrides[v][c][r]
    PROVE  Sheet!Persist(w, written, forgotten)
<1> DEFINE committed == [c \in Cols |-> [r \in Rows |-> IF <<c, r>> \in written
                                                        THEN Show[w][c][r] ELSE cells[c][r]]]
           viewed(v) == [c \in Cols |-> [r \in Rows |-> IF <<c, r>> \in Pend'[v]
                                                        THEN Show[v][c][r] ELSE cells'[c][r]]]
<1>1. w \in Windows
  BY DEF TypeOK
<1>2. Show \in [Windows -> Grid] /\ Show' \in [Windows -> Grid]
  BY ShowType, ShowTypeNext
<1>3. \A v \in Windows, c \in Cols, r \in Rows :
          <<c, r>> \in Pend'[v] <=> overrides'[v][c][r] # NoEdit
  BY DEF Pend, EditedRows
<1>4. cells' = committed
  <2>1. cells' \in Grid /\ committed \in Grid
    BY <1>1, <1>2 DEF TypeOK, Grid
  <2>2. ASSUME NEW c \in Cols, NEW r \in Rows
        PROVE  cells'[c][r] = committed[c][r]
    <3>1. <<c, r>> \in written => Show[w][c][r] = overrides[w][c][r]
      BY <1>1, PendAt, ShowAt
    <3> QED
      BY <3>1
  <2> HIDE DEF committed
  <2> QED
    BY <2>1, <2>2, SameGrid
<1>5. Pend' = [Pend EXCEPT ![w] = @ \ forgotten]
  <2>1. ASSUME NEW v \in Windows
        PROVE  Pend'[v] = IF v = w THEN Pend[w] \ forgotten ELSE Pend[v]
    <3> DEFINE S == IF v = w THEN Pend[w] \ forgotten ELSE Pend[v]
    <3>1. Pend'[v] \in SUBSET (Cols \X Rows) /\ S \in SUBSET (Cols \X Rows)
      BY DEF Pend
    <3>2. ASSUME NEW c \in Cols, NEW r \in Rows
          PROVE  <<c, r>> \in Pend'[v] <=> <<c, r>> \in S
      <4>1. <<c, r>> \in Pend[v] <=> overrides[v][c][r] # NoEdit
        BY PendAt
      <4>2. CASE v = w
        BY <1>3, <4>1, <4>2
      <4>3. CASE v # w
        BY <1>3, <4>1, <4>3
      <4> QED
        BY <4>2, <4>3
    <3> HIDE DEF S
    <3>3. Pend'[v] = S
      BY <3>1, <3>2, SameCells
    <3> QED
      BY <3>3 DEF S
  <2> QED
    BY <2>1 DEF Pend
<1>6. Show' = [v \in Windows |-> viewed(v)]
  <2>1. ASSUME NEW v \in Windows
        PROVE  Show'[v] = viewed(v)
    <3>1. Show'[v] \in Grid /\ viewed(v) \in Grid
      BY <1>2 DEF TypeOK, Grid
    <3>2. ASSUME NEW c \in Cols, NEW r \in Rows
          PROVE  Show'[v][c][r] = viewed(v)[c][r]
      <4>1. Show'[v][c][r] = IF overrides'[v][c][r] # NoEdit THEN overrides'[v][c][r]
                                                              ELSE cells'[c][r]
        BY DEF Show, Shown
      <4>2. overrides'[v][c][r] # NoEdit => overrides'[v][c][r] = overrides[v][c][r]
        OBVIOUS
      <4>3. overrides[v][c][r] # NoEdit => Show[v][c][r] = overrides[v][c][r]
        BY ShowAt
      <4> QED
        BY <1>3, <4>1, <4>2, <4>3
    <3> HIDE DEF viewed
    <3> QED
      BY <3>1, <3>2, SameGrid
  <2> QED
    BY <2>1 DEF Show
<1> QED
  BY <1>4, <1>5, <1>6
  DEF Sheet!Persist, Sheet!Committed, Sheet!View, Show, Pend
-------------------------------------------------------------------------------
(* The steps of a save. *)

\* The cells of a column that a patch writes.
Patch(rows) == {save.col} \X rows

LEMMA PatchFacts ==
    ASSUME TypeOK, Patching, NEW rows \in SUBSET EditedRows(save.window, save.col)
    PROVE  /\ save.window \in open /\ save.window \in Windows /\ save.col \in Cols
           /\ Patch(rows) \in SUBSET Pend[save.window]
           /\ \A c \in Cols, r \in Rows :
                 Patched(rows)[c][r] = IF <<c, r>> \in Patch(rows)
                                       THEN overrides[save.window][c][r] ELSE cells[c][r]
<1>1. save.window \in open /\ save.window \in Windows /\ save.col \in Cols
  BY PatchingSaves, SavingColumn
<1>2. rows \subseteq Rows
  BY EditedIsRows
<1>3. Patch(rows) \in SUBSET Pend[save.window]
  BY <1>1, <1>2 DEF Patch, Pend
<1>4. cells \in [Cols -> [Rows -> Values]]
  BY DEF TypeOK
<1>5. \A c \in Cols, r \in Rows :
          Patched(rows)[c][r] = IF c = save.col /\ r \in rows
                                THEN overrides[save.window][c][r] ELSE cells[c][r]
  BY <1>1, <1>4 DEF Patched
<1>6. \A c \in Cols, r \in Rows : <<c, r>> \in Patch(rows) <=> c = save.col /\ r \in rows
  BY DEF Patch
<1> QED
  BY <1>1, <1>3, <1>5, <1>6

LEMMA PatchPersists ==
    ASSUME TypeOK, TypeOK', PatchColumn
    PROVE  Sheet!PersistSome
<1>1. Patching /\ cells' = Patched(EditedRows(save.window, save.col)) /\ open' = open
  BY DEF PatchColumn
<1>2. PICK w, written : w = save.window /\ written = Patch(EditedRows(save.window, save.col))
  OBVIOUS
<1>3. /\ w \in open /\ w \in Windows /\ save.col \in Cols
      /\ written \in SUBSET Pend[w]
      /\ \A c \in Cols, r \in Rows :
            cells'[c][r] = IF <<c, r>> \in written THEN overrides[w][c][r] ELSE cells[c][r]
  BY <1>1, <1>2, PatchFacts
<1>4. \A v \in Windows, c \in Cols, r \in Rows :
          overrides'[v][c][r] = IF v = w /\ c = save.col THEN NoEdit ELSE overrides[v][c][r]
  BY <1>2, <1>3 DEF PatchColumn, TypeOK, Untouched
<1>5. \A v \in Windows, c \in Cols, r \in Rows :
          overrides'[v][c][r] = IF v = w /\ <<c, r>> \in written
                                THEN NoEdit ELSE overrides[v][c][r]
  BY <1>2, <1>4 DEF Patch, EditedRows
<1>6. Sheet!Persist(w, written, written)
  BY <1>1, <1>3, <1>5, PersistsSheet
<1> QED
  BY <1>3, <1>6 DEF Sheet!PersistSome, Pend

LEMMA TornPatchPersists ==
    ASSUME TypeOK, TypeOK', DataWriteFails
    PROVE  Sheet!PersistSome
<1>1. PICK rows \in SUBSET EditedRows(save.window, save.col) : cells' = Patched(rows)
  BY DEF DataWriteFails
<1> DEFINE w == save.window
           written == Patch(rows)
<1>2. Patching /\ open' = open /\ overrides' = overrides
  BY DEF DataWriteFails
<1>3. /\ w \in open /\ w \in Windows
      /\ written \in SUBSET Pend[w]
      /\ \A c \in Cols, r \in Rows :
            cells'[c][r] = IF <<c, r>> \in written THEN overrides[w][c][r] ELSE cells[c][r]
  BY <1>1, <1>2, PatchFacts
<1> HIDE DEF written, w
<1>4. Sheet!Persist(w, written, {})
  BY <1>2, <1>3, PersistsSheet
<1> QED
  BY <1>3, <1>4 DEF Sheet!PersistSome, Pend

LEMMA CrashesSheet ==
    ASSUME TypeOK, TypeOK', Crash
    PROVE  Sheet!Crash
<1>1. /\ open # {} /\ open' = {}
      /\ \A v \in Windows, c \in Cols, r \in Rows : overrides'[v][c][r] = NoEdit
  BY DEF Crash, Untouched
<1>2. Show \in [Windows -> Grid] /\ Show' \in [Windows -> Grid] /\ cells \in Grid /\ cells' \in Grid
  BY ShowType, ShowTypeNext DEF TypeOK, Grid
<1>3. Show' = [v \in Windows |-> cells']
  <2>1. ASSUME NEW v \in Windows PROVE Show'[v] = cells'
    <3>1. \A c \in Cols, r \in Rows : Show'[v][c][r] = cells'[c][r]
      BY <1>1 DEF Show, Shown
    <3>2. Show'[v] \in Grid
      BY <1>2
    <3> QED
      BY <1>2, <3>1, <3>2, SameGrid
  <2> QED
    BY <2>1 DEF Show
<1>4. Pend' = [v \in Windows |-> {}]
  <2>1. ASSUME NEW v \in Windows PROVE Pend'[v] = {}
    BY <1>1 DEF Pend, EditedRows
  <2> QED
    BY <2>1 DEF Pend
<1>5. ASSUME NEW w \in open, NEW written \in SUBSET Pend[w],
             \A c \in Cols, r \in Rows :
                 cells'[c][r] = IF <<c, r>> \in written THEN overrides[w][c][r] ELSE cells[c][r]
      PROVE  cells' = [c \in Cols |-> [r \in Rows |-> IF <<c, r>> \in written
                                                      THEN Show[w][c][r] ELSE cells[c][r]]]
  <2> DEFINE committed == [c \in Cols |-> [r \in Rows |-> IF <<c, r>> \in written
                                                          THEN Show[w][c][r] ELSE cells[c][r]]]
  <2>1. w \in Windows
    BY DEF TypeOK
  <2>2. committed \in Grid
    BY <1>2, <2>1 DEF Grid
  <2>3. ASSUME NEW c \in Cols, NEW r \in Rows
        PROVE  cells'[c][r] = committed[c][r]
    <3>1. <<c, r>> \in written => Show[w][c][r] = overrides[w][c][r]
      BY <2>1, PendAt, ShowAt
    <3>2. cells'[c][r] = IF <<c, r>> \in written THEN overrides[w][c][r] ELSE cells[c][r]
      BY <1>5
    <3> QED
      BY <3>1, <3>2
  <2> HIDE DEF committed
  <2>4. cells' = committed
    BY <1>2, <2>2, <2>3, SameGrid
  <2> QED
    BY <2>4 DEF committed
<1>6. PICK w \in open : \E written \in SUBSET Pend[w] :
          cells' = [c \in Cols |-> [r \in Rows |-> IF <<c, r>> \in written
                                                   THEN Show[w][c][r] ELSE cells[c][r]]]
  <2>1. CASE Patching
    <3>1. PICK rows \in SUBSET EditedRows(save.window, save.col) : cells' = Patched(rows)
      BY <2>1 DEF Crash
    <3>2. PICK w, written : w = save.window /\ written = Patch(rows)
      OBVIOUS
    <3>3. /\ w \in open /\ written \in SUBSET Pend[w]
          /\ \A c \in Cols, r \in Rows :
                cells'[c][r] = IF <<c, r>> \in written THEN overrides[w][c][r] ELSE cells[c][r]
      BY <2>1, <3>1, <3>2, PatchFacts
    <3> QED
      BY <1>5, <3>3
  <2>2. CASE ~Patching
    <3>1. cells' = cells
      BY <2>2 DEF Crash
    <3>2. PICK w \in open : TRUE
      BY <1>1
    <3>3. {} \in SUBSET Pend[w]
      OBVIOUS
    <3>4. \A c \in Cols, r \in Rows :
              cells'[c][r] = IF <<c, r>> \in {} THEN overrides[w][c][r] ELSE cells[c][r]
      BY <3>1
    <3> QED
      BY <1>5, <3>3, <3>4
  <2> QED
    BY <2>1, <2>2
<1>7. w \in Windows
  BY DEF TypeOK
<1> QED
  BY <1>1, <1>3, <1>4, <1>6, <1>7 DEF Sheet!Crash, Sheet!Committed, Show, Pend

LEMMA StepSheet ==
    ASSUME TypeOK, TypeOK', [Next]_vars
    PROVE  [Sheet!Next]_(Sheet!vars)
<1>1. ASSUME NEW w \in Windows, OpenTable(w)
      PROVE  Sheet!Next
  BY <1>1, OpensSheet DEF Sheet!Next
<1>2. ASSUME NEW w \in Windows, CloseTable(w)
      PROVE  Sheet!Next
  BY <1>2, ClosesSheet DEF Sheet!Next
<1>3. ASSUME NEW w \in Windows, NEW c \in Cols, NEW r \in Rows, NEW v \in Values, SetValue(w, c, r, v)
      PROVE  Sheet!Next
  BY <1>3, EditsSheet DEF Sheet!Next
<1>4. CASE PatchColumn \/ DataWriteFails
  BY <1>4, PatchPersists, TornPatchPersists DEF Sheet!Next
<1>5. CASE Crash
  BY <1>5, CrashesSheet DEF Sheet!Next
<1>6. CASE UNCHANGED <<cells, open, overrides>>
  BY <1>6, SheetStutters
<1> QED
  BY <1>1, <1>2, <1>3, <1>4, <1>5, <1>6
  DEF Next, SaveStep, BeginSave, SkipColumn, DataOpenFails, RefreshStats, StatsOpenFails,
      StatsWriteFails, FinishSave, vars

(* Saving, failing to save and crashing never change what the saving        *)
(* window shows, lose an edit that is not yet durable, or make another      *)
(* window show anything but its own edits over the file (SaveOverrides).    *)
THEOREM TableImplementsSheet == Spec => SheetSpec
<1>1. Init => Sheet!Init
  BY InitSheet
<1>2. TypeOK /\ TypeOK' /\ [Next]_vars => [Sheet!Next]_(Sheet!vars)
  BY StepSheet
<1> QED
  BY <1>1, <1>2, TableTypeOK, PTL DEF Spec, SheetSpec, Sheet!Spec
===============================================================================
