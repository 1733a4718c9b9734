--------------------------- MODULE StatsIndexProofs ---------------------------
(***************************************************************************)
(* For every chunk size, every set of values and every number of rows, the *)
(* importer's chunk records stay aligned with the rows they summarise, and *)
(* queries answered from them are exact.                                   *)
(***************************************************************************)
EXTENDS StatsIndex, ChunkStatsProofs

\* The size of a vector is its number of 0-based positions.
LEMMA SizeOfVector ==
    ASSUME NEW n \in Nat, NEW S, NEW f \in [0 .. n - 1 -> S]
    PROVE  Size(f) = n
<1>1. DOMAIN f = 0 .. n - 1
  OBVIOUS
<1>2. Cardinality(0 .. n - 1) = n
  BY FS_Interval
<1> QED
  BY <1>1, <1>2 DEF Size

\* push_back makes a vector one longer and leaves its elements alone.
LEMMA PushBackVector ==
    ASSUME NEW S, NEW f, NEW x \in S, Size(f) \in Nat, f \in [0 .. Size(f) - 1 -> S]
    PROVE  /\ PushBack(f, x) \in [0 .. Size(f) -> S]
           /\ Size(PushBack(f, x)) = Size(f) + 1
           /\ PushBack(f, x) \in [0 .. Size(PushBack(f, x)) - 1 -> S]
           /\ \A i \in 0 .. Size(f) - 1 : PushBack(f, x)[i] = f[i]
           /\ PushBack(f, x)[Size(f)] = x
<1> DEFINE n == Size(f)
           g == PushBack(f, x)
<1>0. n \in Nat /\ f \in [0 .. n - 1 -> S]
  OBVIOUS
<1>1. g = [i \in 0 .. n |-> IF i \in DOMAIN f THEN f[i] ELSE x]
  BY DEF PushBack
<1>2. g \in [0 .. n -> S]
  BY <1>0, <1>1
<1>3. g \in [0 .. (n + 1) - 1 -> S]
  BY <1>0, <1>2
<1>4. Size(g) = n + 1
  <2>1. n + 1 \in Nat
    BY <1>0
  <2> HIDE DEF g, n
  <2> QED
    BY <2>1, <1>3, SizeOfVector, Zenon
<1>5. Size(g) - 1 = n
  BY <1>0, <1>4
<1>6. \A i \in 0 .. n - 1 : g[i] = f[i]
  BY <1>0, <1>1
<1>7. g[n] = x
  BY <1>0, <1>1
<1> QED
  BY <1>2, <1>4, <1>5, <1>6, <1>7

\* TypeOK does not say that sizes are numbers: this invariant does.
Sizes == Size(column) \in Nat /\ Size(records) \in Nat

IInv == TypeOK /\ Sizes /\ ChunksAligned

LEMMA EmptyRecord == Empty \in Record
  BY ChunkStatsAssumption DEF Empty, Record

LEMMA CountedRecord ==
    ASSUME NEW v \in Values, acc \in Record
    PROVE  Counted(v) \in Record /\ Counted(v).count = acc.count + 1
  BY StatsIndexAssumption DEF Counted, Add, Record

\* The arithmetic of NumChunks: full chunks plus one more for a remainder.
LEMMA ChunkCount ==
    ASSUME NEW q \in Nat, NEW rest \in 0 .. ChunkSize - 1
    PROVE  NumChunks(q * ChunkSize + rest) = IF rest = 0 THEN q ELSE q + 1
<1> DEFINE K == ChunkSize
<1>1. K \in Nat \ {0} /\ q * K \in Nat
  BY ChunkStatsAssumption
<1>2. \A a \in Nat, b \in 0 .. K - 1 : (a * K + b) \div K = a
  BY <1>1, SMTT(60)
<1>3. CASE rest = 0
  <2>1. q * K + rest + K - 1 = q * K + (K - 1)
    BY <1>1, <1>3
  <2> QED
    BY <1>1, <1>2, <1>3, <2>1 DEF NumChunks
<1>4. CASE rest # 0
  <2>1. q * K + rest + K - 1 = (q + 1) * K + (rest - 1)
    BY <1>1
  <2>2. rest - 1 \in 0 .. K - 1 /\ q + 1 \in Nat
    BY <1>1, <1>4
  <2> QED
    BY <1>1, <1>2, <1>4, <2>1, <2>2 DEF NumChunks
<1> QED
  BY <1>3, <1>4
-------------------------------------------------------------------------------
LEMMA InitIInv == Init => IInv
<1> SUFFICES ASSUME Init PROVE IInv
  OBVIOUS
<1>1. \A S : << >> \in [0 .. 0 - 1 -> S]
  OBVIOUS
<1>2. Size(<< >>) = 0
  BY <1>1, FS_EmptySet DEF Size
<1>3. TypeOK
  BY <1>1, <1>2, EmptyRecord DEF Init, TypeOK, NoRecords
<1>4. Sizes
  BY <1>2 DEF Init, Sizes, NoRecords
<1>5. ChunksAligned
  BY <1>2, ChunkStatsAssumption DEF Init, ChunksAligned, Empty, NoRecords, NoFile
<1> QED
  BY <1>3, <1>4, <1>5 DEF IInv

\* A row either fills the open chunk, which joins the closed ones, or does not.
LEMMA AddRowIInv ==
    ASSUME IInv, NEW v \in Values, AddRow(v)
    PROVE  IInv'
<1> DEFINE filled == Counted(v)
<1> USE DEF IInv
<1>1. /\ column' = PushBack(column, v)
      /\ file' = file /\ ~file.exists /\ file = NoFile
  BY DEF AddRow, TypeOK, StatsFile, NoFile
<1>2. /\ column' \in [0 .. Size(column') - 1 -> Values]
      /\ Size(column') = Size(column) + 1
  BY <1>1, PushBackVector DEF TypeOK, Sizes
<1>3. filled \in Record /\ filled.count = acc.count + 1
  BY CountedRecord DEF TypeOK
<1>4. acc.count \in Nat /\ acc.count < ChunkSize /\ ChunkSize \in Nat
  BY ChunkStatsAssumption DEF TypeOK, ChunksAligned, Record
<1>5. /\ Size(column) = Size(records) * ChunkSize + acc.count
      /\ \A k \in DOMAIN records : records[k].count = ChunkSize
  BY <1>1 DEF ChunksAligned
<1>6. CASE filled.count = ChunkSize
  <2>1. records' = PushBack(records, filled) /\ acc' = Empty
    BY <1>6 DEF AddRow
  <2>2. /\ records' \in [0 .. Size(records) -> Record]
        /\ Size(records') = Size(records) + 1
        /\ records' \in [0 .. Size(records') - 1 -> Record]
        /\ \A k \in 0 .. Size(records) - 1 : records'[k] = records[k]
        /\ records'[Size(records)] = filled
    BY <2>1, <1>3, PushBackVector DEF TypeOK, Sizes
  <2>3. TypeOK' /\ Sizes'
    BY <1>1, <1>2, <2>1, <2>2, EmptyRecord DEF TypeOK, Sizes
  <2>4. \A k \in DOMAIN records' : records'[k].count = ChunkSize
    BY <1>5, <1>6, <2>2 DEF TypeOK, Sizes
  <2>5. Size(column') = Size(records') * ChunkSize + 0
    <3>1. (Size(records) + 1) * ChunkSize = Size(records) * ChunkSize + ChunkSize
      BY <1>4 DEF Sizes
    <3> QED
      BY <1>2, <1>3, <1>4, <1>5, <1>6, <2>2, <3>1 DEF Sizes
  <2>6. ChunksAligned'
    BY <1>1, <1>4, <2>1, <2>4, <2>5, ChunkStatsAssumption DEF ChunksAligned, Empty
  <2> QED
    BY <2>3, <2>6
<1>7. CASE filled.count # ChunkSize
  <2>1. records' = records /\ acc' = filled
    BY <1>7 DEF AddRow
  <2>2. TypeOK' /\ Sizes'
    BY <1>1, <1>2, <1>3, <2>1 DEF TypeOK, Sizes
  <2>3. Size(records) * ChunkSize \in Nat
    BY <1>4 DEF Sizes
  <2>4. ChunksAligned'
    BY <1>1, <1>2, <1>3, <1>4, <1>5, <1>7, <2>1, <2>3 DEF ChunksAligned
  <2> QED
    BY <2>2, <2>4
<1> QED
  BY <1>6, <1>7

\* Finishing closes the partly filled chunk, if there is one: the records are
\* then as many as NumChunks says, and only the last may be short.
LEMMA WriteStatsIInv ==
    ASSUME IInv, WriteStats
    PROVE  IInv'
<1> USE DEF IInv
<1>1. /\ column' = column /\ acc' = Empty /\ ~file.exists
      /\ file' = StatsFile(Size(column), records') /\ file'.exists
  BY DEF WriteStats, StatsFile
<1>2. /\ Size(column) = Size(records) * ChunkSize + acc.count
      /\ \A k \in DOMAIN records : records[k].count = ChunkSize
  BY <1>1 DEF ChunksAligned
<1>3. acc.count \in 0 .. ChunkSize - 1 /\ ChunkSize \in Nat \ {0}
  BY ChunkStatsAssumption DEF TypeOK, ChunksAligned, Record
<1>4. NumChunks(Size(column)) = IF acc.count = 0 THEN Size(records) ELSE Size(records) + 1
  BY <1>2, <1>3, ChunkCount DEF Sizes
<1>5. DOMAIN records = 0 .. Size(records) - 1 /\ Size(records) \in Nat
  BY DEF TypeOK, Sizes
<1>6. CASE acc.count = 0
  <2>1. records' = records
    BY <1>6 DEF WriteStats
  <2>2. TypeOK' /\ Sizes'
    BY <1>1, <2>1, EmptyRecord DEF TypeOK, Sizes
  <2>3. ASSUME NEW k \in DOMAIN records
        PROVE  records[k].count = IF k = Size(records) - 1
                                  THEN Size(column) - ChunkStart(k) ELSE ChunkSize
    <3>1. Size(column) = Size(records) * ChunkSize
      BY <1>2, <1>3, <1>5, <1>6
    <3>2. Size(records) * ChunkSize - (Size(records) - 1) * ChunkSize = ChunkSize
      BY <1>3, <1>5
    <3> QED
      BY <1>2, <3>1, <3>2 DEF ChunkStart
  <2>4. ChunksAligned'
    BY <1>1, <1>3, <1>4, <1>6, <2>1, <2>3 DEF ChunksAligned, Empty
  <2> QED
    BY <2>2, <2>4
<1>7. CASE acc.count # 0
  <2>1. records' = PushBack(records, acc)
    BY <1>3, <1>7 DEF WriteStats
  <2>2. /\ Size(records') = Size(records) + 1
        /\ records' \in [0 .. Size(records') - 1 -> Record]
        /\ \A k \in 0 .. Size(records) - 1 : records'[k] = records[k]
        /\ records'[Size(records)] = acc
    BY <2>1, PushBackVector DEF TypeOK, Sizes
  <2>3. TypeOK' /\ Sizes'
    BY <1>1, <1>5, <2>2, EmptyRecord DEF TypeOK, Sizes
  <2>4. DOMAIN records' = 0 .. Size(records)
    BY <1>5, <2>2
  <2>5. \A k \in DOMAIN records' :
            records'[k].count = IF k = Size(records') - 1
                                THEN Size(column) - ChunkStart(k) ELSE ChunkSize
    <3>1. Size(column) - ChunkStart(Size(records)) = acc.count
      BY <1>2, <1>3, <1>5 DEF ChunkStart
    <3> QED
      BY <1>2, <1>5, <2>2, <2>4, <3>1
  <2>6. ChunksAligned'
    BY <1>1, <1>3, <1>4, <1>7, <2>2, <2>5 DEF ChunksAligned, Empty
  <2> QED
    BY <2>3, <2>6
<1> QED
  BY <1>6, <1>7

(* The inductive invariant of an import: well-typed, with the chunk         *)
(* boundaries of the accumulator and of the written file aligned with rows. *)
THEOREM ImportInvariant == Spec => []IInv
<1>1. IInv /\ [Next]_vars => IInv'
  <2> SUFFICES ASSUME IInv, [Next]_vars PROVE IInv'
    OBVIOUS
  <2>1. ASSUME NEW v \in Values, AddRow(v) PROVE IInv'
    BY <2>1, AddRowIInv
  <2>2. CASE WriteStats
    BY <2>2, WriteStatsIInv
  <2>3. CASE UNCHANGED vars
    BY <2>3 DEF vars, IInv, TypeOK, Sizes, ChunksAligned
  <2> QED
    BY <2>1, <2>2, <2>3 DEF Next
<1> QED
  BY <1>1, InitIInv, PTL DEF Spec

(* Every closed record stands for exactly ChunkSize rows, the last one of a *)
(* finished file for the remainder, and the number of records is the one    *)
(* the reader derives from the row count: for every chunk size.             *)
THEOREM ImportAligned == Spec => []ChunksAligned
  BY ImportInvariant, PTL DEF IInv

(* The values, accumulators and files of an import keep their types.        *)
THEOREM ImportTypeOK == Spec => []TypeOK
  BY ImportInvariant, PTL DEF IInv
-------------------------------------------------------------------------------
(* What the records are worth. *)

\* A record summarises the rows it counts, from the start of its chunk; and the
\* open chunk those read since the last record was closed.
RecordsSound ==
    /\ \A k \in DOMAIN records :
          records[k] = Summarize(column, ChunkStart(k), ChunkStart(k) + records[k].count - 1)
    /\ ~file.exists =>
          acc = [ScanRange(column, ChunkStart(Size(records)), Size(column) - 1, Empty)
                 EXCEPT !.count = acc.count]

SoundInv == IInv /\ RecordsSound

LEMMA CellsOfColumn ==
    ASSUME TypeOK
    PROVE  DOMAIN column = 0 .. Size(column) - 1 /\ \A r \in DOMAIN column : column[r] \in Cell
  BY StatsIndexAssumption DEF TypeOK, Cell

\* A closed record's rows were written before the ones of the open chunk.
LEMMA RecordRows ==
    ASSUME IInv, ~file.exists, NEW k \in DOMAIN records
    PROVE  /\ k \in Nat /\ ChunkStart(k) \in Nat /\ records[k].count \in Nat
           /\ ChunkStart(k) + records[k].count - 1 < Size(column)
<1>1. /\ DOMAIN records = 0 .. Size(records) - 1 /\ Size(records) \in Nat
      /\ k \in Nat /\ k < Size(records)
  BY DEF IInv, TypeOK, Sizes
<1>2. /\ records[k].count = ChunkSize /\ ChunkSize \in Nat
      /\ acc.count \in Nat
      /\ Size(column) = ChunkStart(Size(records)) + acc.count
  BY ChunkStatsAssumption DEF IInv, TypeOK, ChunksAligned, Record, ChunkStart
<1>3. /\ ChunkStart(k) \in Nat /\ ChunkStart(Size(records)) \in Nat
      /\ ChunkStart(k) + ChunkSize <= ChunkStart(Size(records))
  BY <1>1, ChunkNext, ChunkOrder
<1> QED
  BY <1>1, <1>2, <1>3

LEMMA InitRecordsSound == Init => RecordsSound
<1> SUFFICES ASSUME Init PROVE RecordsSound
  OBVIOUS
<1>1. Size(<< >>) = 0
  BY FS_EmptySet DEF Size
<1>2. ScanRange(column, ChunkStart(0), 0 - 1, Empty) = Empty
  <2>1. ChunkStart(0) \in Nat
    BY ChunkNext
  <2> QED
    BY <2>1, ScanSteps
<1> QED
  BY <1>1, <1>2 DEF Init, RecordsSound, NoRecords, Empty

\* A row joins the scan of the open chunk, or is the first of the next one.
LEMMA AddRowSound ==
    ASSUME SoundInv, NEW v \in Values, AddRow(v)
    PROVE  RecordsSound'
<1> DEFINE n == Size(column)
           s == ChunkStart(Size(records))
           filled == Counted(v)
           before == ScanRange(column, s, n - 1, Empty)
           after == ScanRange(column', s, n, Empty)
<1> USE DEF SoundInv, IInv
<1>1. /\ ~file.exists /\ file' = file /\ column' = PushBack(column, v)
      /\ n \in Nat /\ Size(records) \in Nat /\ s \in Nat
  BY ChunkNext DEF AddRow, Sizes
<1>2. /\ Size(column') = n + 1 /\ column'[n] = v
      /\ \A r \in 0 .. n - 1 : column'[r] = column[r]
  <2>1. column \in [0 .. n - 1 -> Values]
    BY DEF TypeOK
  <2>2. /\ Size(PushBack(column, v)) = n + 1 /\ PushBack(column, v)[n] = v
        /\ \A r \in 0 .. n - 1 : PushBack(column, v)[r] = column[r]
    BY <1>1, <2>1, PushBackVector
  <2> QED
    BY <1>1, <2>2
<1>3. /\ n = s + acc.count /\ acc.count \in Nat /\ ChunkSize \in Nat
  BY <1>1, ChunkStatsAssumption DEF ChunksAligned, TypeOK, Record, ChunkStart
<1>4. acc = [before EXCEPT !.count = acc.count]
  BY <1>1 DEF RecordsSound
<1>5. before \in Stats
  <2>1. \A r \in s .. n - 1 : column[r] \in Cell
    BY <1>1, CellsOfColumn
  <2> QED
    BY <1>1, <2>1, ScanStats, EmptyStats
<1>6. after = Add(before, v)
  <2>1. after = Add(ScanRange(column', s, n - 1, Empty), column'[n])
    BY <1>1, <1>3, ScanSteps
  <2>2. ScanRange(column', s, n - 1, Empty) = before
    BY <1>1, <1>2, ScanAgrees
  <2> QED
    BY <1>2, <2>1, <2>2
<1>7. filled = [after EXCEPT !.count = acc.count + 1]
  <2> HIDE DEF before, after
  <2> QED
    BY <1>4, <1>5, <1>6 DEF Counted, Add, Stats
<1>8. ASSUME NEW k \in DOMAIN records
      PROVE  records[k] = Summarize(column', ChunkStart(k), ChunkStart(k) + records[k].count - 1)
  <2>1. /\ ChunkStart(k) \in Nat /\ records[k].count \in Nat
        /\ ChunkStart(k) + records[k].count - 1 < n
    BY <1>1, RecordRows
  <2>2. ScanRange(column', ChunkStart(k), ChunkStart(k) + records[k].count - 1, Empty)
          = ScanRange(column, ChunkStart(k), ChunkStart(k) + records[k].count - 1, Empty)
    BY <1>1, <1>2, <2>1, ScanAgrees
  <2> QED
    BY <2>2 DEF RecordsSound, Summarize
<1>9. CASE filled.count = ChunkSize
  <2>1. records' = PushBack(records, filled) /\ acc' = Empty
    BY <1>9 DEF AddRow
  <2>2. filled \in Record /\ filled.count = acc.count + 1
    BY CountedRecord DEF TypeOK
  <2>3. /\ Size(records') = Size(records) + 1
        /\ DOMAIN records' = 0 .. Size(records)
        /\ \A k \in 0 .. Size(records) - 1 : records'[k] = records[k]
        /\ records'[Size(records)] = filled
        /\ DOMAIN records = 0 .. Size(records) - 1
    BY <2>1, <2>2, PushBackVector DEF TypeOK, Sizes
  <2>4. filled = Summarize(column', s, s + filled.count - 1)
    <3>1. s + filled.count - 1 = n /\ RowsIn(s, n) = acc.count + 1
      BY <1>1, <1>3, <2>2 DEF RowsIn
    <3>2. Summarize(column', s, n) = [after EXCEPT !.count = acc.count + 1]
      BY <3>1 DEF Summarize
    <3> HIDE DEF after, filled
    <3> QED
      BY <1>7, <3>1, <3>2
  <2>5. \A k \in DOMAIN records' :
           records'[k] = Summarize(column', ChunkStart(k), ChunkStart(k) + records'[k].count - 1)
    <3> HIDE DEF filled
    <3> QED
      BY <1>1, <1>8, <2>3, <2>4
  <2>6. ScanRange(column', ChunkStart(Size(records')), Size(column') - 1, Empty) = Empty
    <3>1. ChunkStart(Size(records')) = s + ChunkSize
      BY <1>1, <2>3, ChunkNext
    <3>2. Size(column') - 1 = n
      BY <1>1, <1>2
    <3>3. n < s + ChunkSize
      BY <1>1, <1>3, <1>9, <2>2
    <3>4. s + ChunkSize \in Int
      BY <1>1, <1>3
    <3> HIDE DEF n, s
    <3> QED
      BY <1>1, <3>1, <3>2, <3>3, <3>4, ScanSteps
  <2> QED
    BY <2>1, <2>5, <2>6 DEF RecordsSound, Empty
<1>10. CASE filled.count # ChunkSize
  <2>1. records' = records /\ acc' = filled
    BY <1>10 DEF AddRow
  <2>2. filled.count = acc.count + 1
    BY CountedRecord DEF TypeOK
  <2>3. acc' = [after EXCEPT !.count = acc'.count]
    <3> HIDE DEF after, filled
    <3> QED
      BY <1>7, <2>1, <2>2
  <2>4. Size(column') - 1 = n
    BY <1>1, <1>2
  <2> QED
    BY <1>8, <2>1, <2>3, <2>4 DEF RecordsSound
<1> QED
  BY <1>9, <1>10

\* Finishing closes the open chunk with the rows it has.
LEMMA WriteStatsSound ==
    ASSUME SoundInv, WriteStats
    PROVE  RecordsSound'
<1> DEFINE n == Size(column)
           s == ChunkStart(Size(records))
<1> USE DEF SoundInv, IInv
<1>1. column' = column /\ file'.exists /\ ~file.exists
  BY DEF WriteStats, StatsFile
<1>2. CASE ~(acc.count > 0)
  <2>1. records' = records
    BY <1>2 DEF WriteStats
  <2> QED
    BY <1>1, <2>1 DEF RecordsSound
<1>3. CASE acc.count > 0
  <2>1. records' = PushBack(records, acc)
    BY <1>3 DEF WriteStats
  <2>2. /\ DOMAIN records' = 0 .. Size(records)
        /\ \A k \in 0 .. Size(records) - 1 : records'[k] = records[k]
        /\ records'[Size(records)] = acc
        /\ DOMAIN records = 0 .. Size(records) - 1 /\ Size(records) \in Nat
    BY <2>1, PushBackVector DEF TypeOK, Sizes
  <2>3. n = s + acc.count /\ acc.count \in Nat /\ s \in Nat
    BY <1>1, <2>2, ChunkNext DEF ChunksAligned, TypeOK, Record, ChunkStart
  <2>4. acc = Summarize(column, s, s + acc.count - 1)
    <3>1. s + acc.count - 1 = n - 1 /\ RowsIn(s, n - 1) = acc.count
      BY <1>3, <2>3 DEF RowsIn
    <3>2. acc = [ScanRange(column, s, n - 1, Empty) EXCEPT !.count = acc.count]
      BY <1>1 DEF RecordsSound
    <3> QED
      BY <3>1, <3>2 DEF Summarize
  <2>5. \A k \in DOMAIN records :
           records[k] = Summarize(column, ChunkStart(k), ChunkStart(k) + records[k].count - 1)
    BY DEF RecordsSound
  <2>6. \A k \in DOMAIN records' :
           records'[k] = Summarize(column, ChunkStart(k), ChunkStart(k) + records'[k].count - 1)
    <3> HIDE DEF n
    <3> QED
      BY <2>2, <2>4, <2>5
  <2> QED
    BY <1>1, <2>6 DEF RecordsSound
<1> QED
  BY <1>2, <1>3

LEMMA ImportSound == Spec => []SoundInv
<1>1. SoundInv /\ [Next]_vars => RecordsSound'
  <2> SUFFICES ASSUME SoundInv, [Next]_vars PROVE RecordsSound'
    OBVIOUS
  <2>1. ASSUME NEW v \in Values, AddRow(v) PROVE RecordsSound'
    BY <2>1, AddRowSound
  <2>2. CASE WriteStats
    BY <2>2, WriteStatsSound
  <2>3. CASE UNCHANGED vars
    BY <2>3 DEF vars, SoundInv, RecordsSound
  <2> QED
    BY <2>1, <2>2, <2>3 DEF Next
<1>2. SoundInv <=> IInv /\ RecordsSound
  BY DEF SoundInv
<1> QED
  BY <1>1, <1>2, InitRecordsSound, ImportInvariant, PTL DEF Spec
-------------------------------------------------------------------------------
(* What the loaded records are worth. *)

\* Every chunk NumChunks counts starts within the rows, and only the last of
\* them may be short.
LEMMA ChunkWithin ==
    ASSUME NEW n \in Nat, NEW k \in 0 .. NumChunks(n) - 1
    PROVE  /\ NumChunks(n) \in Nat /\ k \in Nat /\ ChunkStart(k) \in Nat
           /\ ChunkStart(k) < n
           /\ k # NumChunks(n) - 1 => ChunkStart(k) + ChunkSize <= n
           /\ k = NumChunks(n) - 1 => n <= ChunkStart(k) + ChunkSize
<1> DEFINE q == ChunkOf(n)
           rest == n - ChunkStart(q)
<1>1. /\ q \in Nat /\ ChunkStart(q) \in Nat /\ rest \in 0 .. ChunkSize - 1
      /\ n = ChunkStart(q) + rest /\ ChunkSize \in Nat \ {0}
  BY ChunkBounds, ChunkNext, ChunkStatsAssumption
<1>2. NumChunks(n) = IF rest = 0 THEN q ELSE q + 1
  <2>1. n = q * ChunkSize + rest
    BY <1>1 DEF ChunkStart
  <2> HIDE DEF q, rest
  <2> QED
    BY <1>1, <2>1, ChunkCount
<1> HIDE DEF q, rest
<1>3. k \in Nat /\ ChunkStart(k) \in Nat /\ k <= q /\ NumChunks(n) \in Nat
  BY <1>1, <1>2, ChunkNext
<1>4. k < q => ChunkStart(k) + ChunkSize <= ChunkStart(q)
  BY <1>1, <1>3, ChunkOrder
<1>5. k = q \/ k < q
  BY <1>1, <1>3
<1>6. k + 1 = q => ChunkStart(q) = ChunkStart(k) + ChunkSize
  BY <1>3, ChunkNext
<1>7. ChunkStart(k) < n
  BY <1>1, <1>2, <1>3, <1>4, <1>5
<1>8. k # NumChunks(n) - 1 => ChunkStart(k) + ChunkSize <= n
  BY <1>1, <1>2, <1>3, <1>4, <1>5
<1>9. k = NumChunks(n) - 1 => n <= ChunkStart(k) + ChunkSize
  BY <1>1, <1>2, <1>3, <1>5, <1>6
<1> QED
  BY <1>3, <1>7, <1>8, <1>9

\* NumChunks counts the chunk of every row.
LEMMA LastChunk ==
    ASSUME NEW n \in Nat, NEW r \in Nat, r < n
    PROVE  NumChunks(n) \in Nat /\ ChunkOf(r) < NumChunks(n)
<1> DEFINE q == ChunkOf(n)
           rest == n - ChunkStart(q)
           c == ChunkOf(r)
<1>1. /\ q \in Nat /\ ChunkStart(q) \in Nat /\ rest \in 0 .. ChunkSize - 1
      /\ n = ChunkStart(q) + rest /\ ChunkSize \in Nat \ {0}
      /\ c \in Nat /\ ChunkStart(c) \in Nat /\ ChunkStart(c) <= r
  BY ChunkBounds, ChunkNext, ChunkStatsAssumption
<1>2. NumChunks(n) = IF rest = 0 THEN q ELSE q + 1
  <2>1. n = q * ChunkSize + rest
    BY <1>1 DEF ChunkStart
  <2> HIDE DEF q, rest
  <2> QED
    BY <1>1, <2>1, ChunkCount
<1>3. q < c => ChunkStart(q) + ChunkSize <= ChunkStart(c)
  BY <1>1, ChunkOrder
<1> HIDE DEF q, rest, c
<1>4. c <= q /\ (c = q => rest # 0)
  BY <1>1, <1>3
<1> QED
  BY <1>1, <1>2, <1>4 DEF c

\* A finished column's record of each of its chunks summarises that chunk, and
\* is the one the reader loads.
LEMMA LoadedRecord ==
    ASSUME SoundInv, file.exists, NEW k \in 0 .. NumChunks(Size(column)) - 1
    PROVE  LET first == ChunkStart(k)
               last  == ChunkLast(k, Size(column))
           IN  /\ first \in Nat /\ last \in Nat /\ first <= last /\ last < Size(column)
               /\ k \in DOMAIN LoadOneColumn(Size(column))
               /\ LoadOneColumn(Size(column))[k] = Summarize(column, first, last)
               /\ LoadOneColumn(Size(column))[k].count = RowsIn(first, last)
<1> DEFINE n == Size(column)
           s == ChunkStart(k)
           e == ChunkLast(k, n)
<1> USE DEF SoundInv, IInv
<1>1. n \in Nat /\ ChunkSize \in Nat \ {0}
  BY ChunkStatsAssumption DEF Sizes
<1>2. /\ k \in Nat /\ s \in Nat /\ s < n /\ NumChunks(n) \in Nat
      /\ k # NumChunks(n) - 1 => s + ChunkSize <= n
      /\ k = NumChunks(n) - 1 => n <= s + ChunkSize
  <2> HIDE DEF n
  <2> QED
    BY <1>1, ChunkWithin DEF n
<1>3. /\ e \in Nat /\ s <= e /\ e < n
      /\ s + ChunkSize <= n => e = s + ChunkSize - 1
      /\ n <= s + ChunkSize => e = n - 1
  <2> HIDE DEF n
  <2> QED
    BY <1>1, <1>2, ChunkLastRow
<1>4. /\ Size(records) = NumChunks(n) /\ DOMAIN records = 0 .. NumChunks(n) - 1
      /\ records[k].count = IF k = NumChunks(n) - 1 THEN n - s ELSE ChunkSize
  BY DEF ChunksAligned, TypeOK
<1>5. s + records[k].count - 1 = e
  <2> HIDE DEF n, s, e
  <2>1. CASE k = NumChunks(n) - 1
    BY <1>1, <1>2, <1>3, <1>4, <2>1
  <2>2. CASE k # NumChunks(n) - 1
    BY <1>1, <1>2, <1>3, <1>4, <2>2
  <2> QED
    BY <2>1, <2>2
<1>6. records[k].count = RowsIn(s, e)
  <2>1. records[k].count \in Int
    BY <1>1, <1>2, <1>4
  <2> HIDE DEF n, s, e
  <2> QED
    BY <1>2, <1>3, <1>5, <2>1 DEF RowsIn
<1>7. records[k] = Summarize(column, s, e)
  BY <1>4, <1>5 DEF RecordsSound
<1>8. LoadOneColumn(n) = Restrict(records, 0 .. NumChunks(n) - 1)
  <2>1. file = StatsFile(n, records)
    BY DEF TypeOK, NoFile
  <2>2. /\ file.exists /\ file.chunkSize = ChunkSize /\ file.numRows = n /\ file.records = records
    BY <2>1 DEF StatsFile
  <2>3. n # 0 /\ NumChunks(n) <= Size(records)
    BY <1>1, <1>2, <1>4
  <2> QED
    BY <2>2, <2>3 DEF LoadOneColumn
<1>9. /\ k \in DOMAIN LoadOneColumn(n) /\ LoadOneColumn(n)[k] = records[k]
  BY <1>8 DEF Restrict
<1> HIDE DEF n, s, e
<1> QED
  BY <1>2, <1>3, <1>6, <1>7, <1>9 DEF n, s, e

(* A finished, non-empty column always loads, and each loaded record is     *)
(* what the reference says of the rows of its chunk, the short last one     *)
(* included: for every chunk size, number of rows and values.               *)
THEOREM ImportRecordsSummarise == Spec => []LoadedRecordsSummarise
<1>1. SoundInv => LoadedRecordsSummarise
  <2> SUFFICES ASSUME SoundInv, file.exists, NEW k \in 0 .. NumChunks(Size(column)) - 1
               PROVE  /\ k \in DOMAIN LoadOneColumn(Size(column))
                      /\ LoadOneColumn(Size(column))[k] =
                             Reference(column, ChunkStart(k), ChunkLast(k, Size(column)))
    BY DEF LoadedRecordsSummarise
  <2> DEFINE s == ChunkStart(k)
             e == ChunkLast(k, Size(column))
  <2>1. /\ s \in Nat /\ e \in Nat /\ s <= e /\ e < Size(column)
        /\ k \in DOMAIN LoadOneColumn(Size(column))
        /\ LoadOneColumn(Size(column))[k] = Summarize(column, s, e)
    BY LoadedRecord
  <2>2. \A r \in 0 .. e : column[r] \in Cell
    <3>1. Size(column) \in Nat
      BY DEF SoundInv, IInv, Sizes
    <3> QED
      BY <2>1, <3>1, CellsOfColumn DEF SoundInv, IInv
  <2>3. Summarize(column, s, e) = Reference(column, s, e)
    <3> HIDE DEF s, e
    <3> QED
      BY <2>1, <2>2, SummaryIsReference
  <2> QED
    BY <2>1, <2>3
<1> QED
  BY <1>1, ImportSound, PTL

\* A chunk with no edited row is shown as it was imported, so its loaded record
\* still serves; an edited one is dirty.
LEMMA LoadedUsable ==
    ASSUME SoundInv, file.exists, NEW edited \in SUBSET DOMAIN column, NEW v \in Values,
           NEW k \in 0 .. NumChunks(Size(column)) - 1
    PROVE  Usable(Edited(edited, v), Size(column), LoadOneColumn(Size(column)),
                  DirtyChunks(edited), k)
<1> DEFINE n == Size(column)
           s == ChunkStart(k)
           e == ChunkLast(k, n)
           recs == LoadOneColumn(n)
           shown == Edited(edited, v)
<1>1. /\ s \in Nat /\ e \in Nat /\ s <= e /\ e < n /\ n \in Nat /\ k \in Nat
      /\ k \in DOMAIN recs /\ recs[k] = Summarize(column, s, e)
      /\ recs[k].count = RowsIn(s, e)
  <2>1. n \in Nat
    BY DEF SoundInv, IInv, Sizes
  <2>2. k \in Nat
    BY <2>1, ChunkWithin
  <2> QED
    BY <2>1, <2>2, LoadedRecord
<1>2. ASSUME k \notin DirtyChunks(edited)
      PROVE  Summarize(shown, s, e) = Summarize(column, s, e)
  <2>1. DOMAIN column = 0 .. n - 1
    BY CellsOfColumn DEF SoundInv, IInv
  <2>2. ASSUME NEW r \in s .. e
        PROVE  shown[r] = column[r]
    <3>1. r \in 0 .. n - 1 /\ r \in Nat /\ s <= r /\ r <= e
      BY <1>1
    <3>2. e < s + ChunkSize
      <4>1. s < n
        BY <1>1
      <4> HIDE DEF n
      <4>2. /\ s + ChunkSize <= n => e = s + ChunkSize - 1
            /\ n <= s + ChunkSize => e = n - 1
        BY <1>1, <4>1, ChunkLastRow
      <4> HIDE DEF s, e
      <4> QED
        BY <1>1, <4>2, ChunkStatsAssumption
    <3>3. r < s + ChunkSize
      <4> HIDE DEF s, e
      <4> QED
        BY <1>1, <3>1, <3>2, ChunkStatsAssumption
    <3>4. ChunkOf(r) = k
      BY <1>1, <3>1, <3>3, ChunkUnique
    <3>5. r \notin edited
      BY <1>2, <3>4 DEF DirtyChunks
    <3> QED
      BY <2>1, <3>1, <3>5 DEF Edited
  <2>3. ScanRange(shown, s, e, Empty) = ScanRange(column, s, e, Empty)
    <3> HIDE DEF shown, s, e
    <3> QED
      BY <1>1, <2>2, ScanAgrees
  <2> QED
    BY <2>3 DEF Summarize
<1> QED
  BY <1>1, <1>2 DEF Usable

\* Of the loaded records, a query uses that of a chunk exactly when all the
\* chunk's rows are in the range and none of them is edited.
LEMMA IndexedChunk ==
    ASSUME SoundInv, file.exists, NEW edited \in SUBSET DOMAIN column,
           NEW first \in Nat, NEW last \in Nat,
           NEW k \in 0 .. NumChunks(Size(column)) - 1
    PROVE  Indexed(k, LoadOneColumn(Size(column)), first, last, DirtyChunks(edited))
               <=> \A other \in DOMAIN column :
                       ChunkOf(other) = k => other \in (first .. last) \ edited
<1> DEFINE n == Size(column)
           s == ChunkStart(k)
           e == ChunkLast(k, n)
           recs == LoadOneColumn(n)
           dirty == DirtyChunks(edited)
<1>1. n \in Nat /\ DOMAIN column = 0 .. n - 1
  BY CellsOfColumn DEF SoundInv, IInv, Sizes
<1>2. /\ s \in Nat /\ e \in Nat /\ s <= e /\ e < n /\ k \in Nat
      /\ recs[k].count = RowsIn(s, e)
  BY <1>1, LoadedRecord, ChunkWithin
<1>3. /\ e < s + ChunkSize
      /\ e = n - 1 \/ e = s + ChunkSize - 1
  <2>1. s < n
    BY <1>1, <1>2
  <2> HIDE DEF n
  <2>2. /\ e < s + ChunkSize
        /\ s + ChunkSize <= n => e = s + ChunkSize - 1
        /\ n <= s + ChunkSize => e = n - 1
    BY <1>1, <1>2, <2>1, ChunkLastRow
  <2> HIDE DEF s, e
  <2> QED
    BY <1>1, <1>2, <2>2, ChunkStatsAssumption
<1>4. ChunkEnd(k, recs) = e
  <2>1. ChunkEnd(k, recs) = s + RowsIn(s, e) - 1
    BY <1>2 DEF ChunkEnd
  <2> HIDE DEF s, e
  <2> QED
    BY <1>2, <2>1 DEF RowsIn
<1>5. ASSUME NEW r \in DOMAIN column
      PROVE  ChunkOf(r) = k <=> s <= r /\ r <= e
  <2>1. r \in Nat /\ r < n
    BY <1>1
  <2>2. ChunkOf(r) = k => s <= r /\ r < s + ChunkSize
    BY <2>1, ChunkBounds
  <2>3. s <= r /\ r < s + ChunkSize => ChunkOf(r) = k
    BY <1>2, <2>1, ChunkUnique
  <2> HIDE DEF n, s, e
  <2> QED
    BY <1>1, <1>2, <1>3, <2>1, <2>2, <2>3, ChunkStatsAssumption
<1>6. ASSUME Indexed(k, recs, first, last, dirty), NEW other \in DOMAIN column, ChunkOf(other) = k
      PROVE  other \in (first .. last) \ edited
  <2>1. other \notin edited
    BY <1>6 DEF Indexed, DirtyChunks
  <2>2. other \in Nat /\ s <= other /\ other <= e
    BY <1>1, <1>5, <1>6
  <2>3. first <= s /\ e <= last
    BY <1>4, <1>6 DEF Indexed
  <2> HIDE DEF s, e
  <2> QED
    BY <1>2, <2>1, <2>2, <2>3
<1>7. ASSUME \A other \in DOMAIN column : ChunkOf(other) = k => other \in (first .. last) \ edited
      PROVE  Indexed(k, recs, first, last, dirty)
  <2>1. s \in DOMAIN column /\ e \in DOMAIN column
    <3> HIDE DEF n, s, e
    <3> QED
      BY <1>1, <1>2
  <2>2. ChunkOf(s) = k /\ ChunkOf(e) = k
    <3> HIDE DEF s, e
    <3> QED
      BY <1>2, <1>5, <2>1
  <2>3. s \in first .. last /\ e \in first .. last
    BY <1>7, <2>1, <2>2
  <2>4. k \notin dirty
    BY <1>7 DEF DirtyChunks
  <2> QED
    BY <1>4, <2>3, <2>4 DEF Indexed
<1> QED
  BY <1>6, <1>7

\* So a query with the loaded records says that it used them exactly when some
\* chunk needs no scan.
LEMMA UsedIndexRight ==
    ASSUME SoundInv, file.exists, NEW edited \in SUBSET DOMAIN column, NEW shown,
           NEW first \in Nat, NEW last \in Nat, first <= last, last < Size(column)
    PROVE  ComputeStats(shown, LoadOneColumn(Size(column)), first, last,
                        DirtyChunks(edited)).usedIndex
               <=> HasCleanChunk(edited, first, last)
<1> DEFINE n == Size(column)
           recs == LoadOneColumn(n)
           dirty == DirtyChunks(edited)
           touched == (ChunkOf(first) .. ChunkOf(last)) \cap DOMAIN recs
<1>1. n \in Nat /\ DOMAIN column = 0 .. n - 1
  BY CellsOfColumn DEF SoundInv, IInv, Sizes
<1>2. ComputeStats(shown, recs, first, last, dirty).usedIndex
          <=> \E c \in touched : Indexed(c, recs, first, last, dirty)
  BY DEF ComputeStats
<1>3. /\ ChunkOf(first) \in Nat /\ ChunkOf(last) \in Nat
      /\ NumChunks(n) \in Nat /\ ChunkOf(last) < NumChunks(n)
  BY <1>1, ChunkBounds, LastChunk
<1>4. ASSUME NEW c \in touched, Indexed(c, recs, first, last, dirty)
      PROVE  HasCleanChunk(edited, first, last)
  <2>1. c \in 0 .. NumChunks(n) - 1
    BY <1>3
  <2>2. \A other \in DOMAIN column : ChunkOf(other) = c => other \in (first .. last) \ edited
    BY <1>4, <2>1, IndexedChunk
  <2>3. c \in Nat /\ ChunkStart(c) \in Nat /\ ChunkStart(c) < n
    BY <1>1, <2>1, ChunkWithin
  <2>4. ChunkOf(ChunkStart(c)) = c
    <3>1. ChunkStart(c) < ChunkStart(c) + ChunkSize
      BY <2>3, ChunkStatsAssumption
    <3> QED
      BY <2>3, <3>1, ChunkUnique
  <2>5. ChunkStart(c) \in DOMAIN column
    BY <1>1, <2>3
  <2> QED
    BY <2>2, <2>4, <2>5 DEF HasCleanChunk
<1>5. ASSUME NEW r \in DOMAIN column,
             \A other \in DOMAIN column :
                 ChunkOf(other) = ChunkOf(r) => other \in (first .. last) \ edited
      PROVE  \E c \in touched : Indexed(c, recs, first, last, dirty)
  <2> DEFINE k == ChunkOf(r)
  <2>1. r \in Nat /\ r < n /\ first <= r /\ r <= last
    BY <1>1, <1>5
  <2>2. k \in Nat /\ k < NumChunks(n)
    BY <1>1, <2>1, ChunkBounds, LastChunk
  <2>3. k \in 0 .. NumChunks(n) - 1
    BY <1>3, <2>2
  <2>4. k \in DOMAIN recs
    BY <2>3, LoadedRecord
  <2>5. Indexed(k, recs, first, last, dirty)
    BY <1>5, <2>3, IndexedChunk
  <2>6. ASSUME NEW a \in Nat, NEW b \in Nat, a <= b PROVE ChunkOf(a) <= ChunkOf(b)
    <3>1. /\ ChunkOf(a) \in Nat /\ ChunkStart(ChunkOf(a)) <= a
          /\ ChunkOf(b) \in Nat /\ b < ChunkStart(ChunkOf(b)) + ChunkSize
      BY ChunkBounds
    <3>2. ChunkOf(b) < ChunkOf(a) =>
              ChunkStart(ChunkOf(b)) + ChunkSize <= ChunkStart(ChunkOf(a))
      BY <3>1, ChunkOrder
    <3>3. ChunkStart(ChunkOf(a)) \in Nat /\ ChunkStart(ChunkOf(b)) \in Nat
      BY <3>1, ChunkNext
    <3> QED
      BY <2>6, <3>1, <3>2, <3>3, ChunkStatsAssumption
  <2>7. k \in ChunkOf(first) .. ChunkOf(last)
    BY <1>3, <2>1, <2>2, <2>6
  <2> QED
    BY <2>4, <2>5, <2>7
<1> QED
  BY <1>2, <1>4, <1>5 DEF HasCleanChunk

(* Whatever rows carry unsaved edits, and whether or not the statistics     *)
(* file could be loaded, every range query answers exactly what the         *)
(* reference says of the shown rows, and says that it used the index        *)
(* exactly when there is one and some chunk needed no scan: for every chunk *)
(* size, number of rows and values.                                         *)
THEOREM ImportAnswersExact == Spec => []AnswersExact
<1>1. SoundInv => AnswersExact
  <2> SUFFICES ASSUME SoundInv, file.exists,
                      NEW edited \in SUBSET DOMAIN column, NEW v \in Values,
                      NEW first \in DOMAIN column, NEW last \in first .. Size(column) - 1,
                      NEW recs \in {LoadOneColumn(Size(column)), NoRecords}
               PROVE  LET answer == ComputeStats(Edited(edited, v), recs, first, last,
                                                 DirtyChunks(edited))
                      IN  /\ answer.valid
                          /\ answer.usedIndex <=>
                                 recs # NoRecords /\ HasCleanChunk(edited, first, last)
                          /\ answer.result = Reference(Edited(edited, v), first, last)
    BY DEF AnswersExact
  <2> DEFINE n == Size(column)
             shown == Edited(edited, v)
             dirty == DirtyChunks(edited)
             answer == ComputeStats(shown, recs, first, last, dirty)
  <2>1. n \in Nat /\ DOMAIN column = 0 .. n - 1
    BY CellsOfColumn DEF SoundInv, IInv, Sizes
  <2>2. first \in Nat /\ last \in Nat /\ first <= last /\ last < n
    BY <2>1
  <2>3. \A r \in 0 .. n - 1 : shown[r] \in Cell
    BY <2>1, CellsOfColumn, StatsIndexAssumption DEF Edited, Cell, SoundInv, IInv
  <2>4. Serves(shown, n, recs, dirty, first, last)
    <3> SUFFICES ASSUME recs = LoadOneColumn(n), NEW c \in ChunkOf(first) .. ChunkOf(last)
                 PROVE  Usable(shown, n, recs, dirty, c)
      BY DEF Serves
    <3>1. c \in 0 .. NumChunks(n) - 1
      <4>1. ChunkOf(first) \in Nat /\ ChunkOf(last) \in Nat
        BY <2>2, ChunkBounds
      <4> HIDE DEF n
      <4>2. NumChunks(n) \in Nat /\ ChunkOf(last) < NumChunks(n)
        BY <2>1, <2>2, LastChunk
      <4> QED
        BY <4>1, <4>2
    <3> QED
      BY <3>1, LoadedUsable
  <2>5. answer.result = Reference(shown, first, last)
    <3> HIDE DEF n, shown, dirty
    <3> QED
      BY <2>1, <2>2, <2>3, <2>4, ComputeStatsExact
  <2>6. answer.valid
    BY <2>2 DEF ComputeStats
  <2>7. answer.usedIndex <=> recs # NoRecords /\ HasCleanChunk(edited, first, last)
    <3>1. CASE recs = NoRecords
      <4>1. ~answer.usedIndex
        BY <2>2, <3>1 DEF ComputeStats, NoRecords
      <4> QED
        BY <3>1, <4>1
    <3>2. CASE recs # NoRecords
      <4>1. recs = LoadOneColumn(n)
        BY <3>2
      <4>2. answer.usedIndex <=> HasCleanChunk(edited, first, last)
        BY <2>2, <4>1, UsedIndexRight
      <4> QED
        BY <3>2, <4>2
    <3> QED
      BY <3>1, <3>2
  <2> HIDE DEF answer
  <2>8. /\ answer.valid
        /\ answer.usedIndex <=> recs # NoRecords /\ HasCleanChunk(edited, first, last)
        /\ answer.result = Reference(shown, first, last)
    BY <2>5, <2>6, <2>7
  <2> QED
    BY <2>8 DEF answer
<1> QED
  BY <1>1, ImportSound, PTL
===============================================================================
