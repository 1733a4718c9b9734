---------------------------- MODULE WriteBackProofs ----------------------------
(***************************************************************************)
(* What a save does to the dataset and to the CSV, for every CSV, every    *)
(* pair of conversions and every fault.                                    *)
(***************************************************************************)
EXTENDS MCWriteBack, TLAPS

DatasetType == dataset \in Seq([Cols -> Values])
EditsType   == \A x \in DOMAIN edits : edits[x] \in Values
SaveOpen    == save.step # "idle" => open

\* The rows captured by DoSave are those the override maps still mention.
Captured == save.step = "columns" => \A x \in DOMAIN edits : x[1] \in save.rows

\* What the export meant to write, from the file it mapped.
Prepared == save.step = "replace" => save.crc = Exported(save.src, save.rows)

\* Files stay sequences of records.
FileType == /\ csv \in Seq(Records)
            /\ save.step = "replace" => save.src \in Seq(Records) /\ save.out \in Seq(Records)

Inv == DatasetType /\ EditsType /\ FileType /\ SaveOpen /\ Captured /\ Prepared

LEMMA IdleStep == Idle.step = "idle"
  BY DEF Idle, Progress

LEMMA OverlayType ==
    ASSUME DatasetType, EditsType, NEW written, written \subseteq DOMAIN edits
    PROVE  /\ Overlay(written) \in Seq([Cols -> Values])
           /\ DOMAIN Overlay(written) = DOMAIN dataset
<1>1. DOMAIN Overlay(written) = DOMAIN dataset
  BY DEF Overlay
<1>2. \A r \in DOMAIN dataset : Overlay(written)[r] \in [Cols -> Values]
  <2> SUFFICES ASSUME NEW r \in DOMAIN dataset
               PROVE  Overlay(written)[r] \in [Cols -> Values]
    OBVIOUS
  <2>1. dataset[r] \in [Cols -> Values]
    BY DEF DatasetType
  <2>2. \A c \in Cols : <<r, c>> \in written => edits[<<r, c>>] \in Values
    BY DEF EditsType
  <2> QED
    BY <2>1, <2>2 DEF Overlay
<1>3. DOMAIN dataset = 1 .. Len(dataset) /\ Len(dataset) \in Nat
  BY DEF DatasetType
<1>4. Overlay(written) \in [1 .. Len(dataset) -> [Cols -> Values]]
  BY <1>1, <1>2, <1>3 DEF Overlay
<1> QED
  BY <1>1, <1>3, <1>4

\* A row that no written cell is in stays as it was.
LEMMA OverlayChanges ==
    ASSUME DatasetType, NEW written, NEW r \in DOMAIN dataset, Overlay(written)[r] # dataset[r]
    PROVE  \E x \in written : x[1] = r
<1> SUFFICES ASSUME \A c \in Cols : <<r, c>> \notin written
             PROVE  Overlay(written)[r] = dataset[r]
  OBVIOUS
<1>1. dataset[r] \in [Cols -> Values]
  BY DEF DatasetType
<1> QED
  BY <1>1 DEF Overlay

LEMMA WithoutType ==
    ASSUME EditsType, NEW cells
    PROVE  /\ DOMAIN Without(cells) \subseteq DOMAIN edits
           /\ \A x \in DOMAIN Without(cells) : Without(cells)[x] \in Values
  BY DEF Without, Restrict, EditsType
-------------------------------------------------------------------------------
LEMMA ImportedType ==
    ASSUME WriteBackAssumption, NEW file \in Seq(Records)
    PROVE  Imported(file) \in Seq([Cols -> Values])
<1>1. \A r \in DOMAIN file : Imported(file)[r] \in [Cols -> Values]
  BY DEF Imported, Records, WriteBackAssumption
<1>2. DOMAIN file = 1 .. Len(file) /\ Len(file) \in Nat
  OBVIOUS
<1>3. Imported(file) \in [1 .. Len(file) -> [Cols -> Values]]
  BY <1>1, <1>2 DEF Imported
<1> QED
  BY <1>2, <1>3

LEMMA SerialisedType ==
    ASSUME WriteBackAssumption, NEW row \in [Cols -> Values]
    PROVE  Serialised(row) \in Records
  BY DEF Serialised, Records, WriteBackAssumption

LEMMA ExportedType ==
    ASSUME WriteBackAssumption, DatasetType, NEW file \in Seq(Records), NEW rows
    PROVE  /\ Exported(file, rows) \in Seq(Records)
           /\ Len(Exported(file, rows)) = Len(dataset)
<1>1. DOMAIN dataset = 1 .. Len(dataset) /\ Len(dataset) \in Nat
  BY DEF DatasetType
<1>2. \A r \in DOMAIN dataset : Exported(file, rows)[r] \in Records
  <2> SUFFICES ASSUME NEW r \in DOMAIN dataset
               PROVE  Exported(file, rows)[r] \in Records
    OBVIOUS
  <2>1. Serialised(dataset[r]) \in Records
    BY SerialisedType DEF DatasetType
  <2>2. Len(file) = Len(dataset) => file[r] \in Records
    BY <1>1
  <2> QED
    BY <2>1, <2>2 DEF Exported
<1>3. Exported(file, rows) \in [1 .. Len(dataset) -> Records]
  BY <1>1, <1>2 DEF Exported
<1> QED
  BY <1>1, <1>3

LEMMA CutShortType ==
    ASSUME WriteBackAssumption, NEW out \in Seq(Records), NEW cut \in CutShort(out)
    PROVE  cut \in Seq(Records)
<1> DEFINE blank == [c \in Cols |-> Blank]
<1>1. blank \in Records
  BY DEF Records, WriteBackAssumption
<1>2. \A n \in 0 .. Len(out) - 1 : SubSeq(out, 1, n) \in Seq(Records)
  OBVIOUS
<1>3. PICK n \in 0 .. Len(out) - 1 :
          cut = SubSeq(out, 1, n) \/ cut = Append(SubSeq(out, 1, n), blank)
  BY DEF CutShort
<1> HIDE DEF blank
<1> QED
  BY <1>1, <1>2, <1>3
-------------------------------------------------------------------------------
(* The invariant. *)

LEMMA InitInv == Init => Inv
<1> SUFFICES ASSUME Init PROVE Inv
  OBVIOUS
<1>1. csv \in Seq(Records)
  BY WriteBackAssumption DEF Init
<1>2. save.step = "idle"
  BY IdleStep DEF Init
<1>3. DatasetType
  BY <1>1, ImportedType, WriteBackAssumption DEF Init, DatasetType
<1>4. EditsType
  BY DEF Init, EditsType
<1> QED
  BY <1>1, <1>2, <1>3, <1>4 DEF Inv, FileType, SaveOpen, Captured, Prepared

LEMMA SaveBegins ==
    ASSUME Inv, BeginSave
    PROVE  Inv'
<1>1. save'.step = "columns" /\ save'.rows = {x[1] : x \in DOMAIN edits}
  BY DEF BeginSave, Progress
<1> QED
  BY <1>1 DEF BeginSave, Inv, DatasetType, EditsType, FileType, SaveOpen, Captured, Prepared

\* SaveOverrides, however it ends.
LEMMA ColumnsSaved ==
    ASSUME Inv, NEW written, written \subseteq DOMAIN edits, NEW cells,
           dataset' = Overlay(written), edits' = Without(cells) \/ edits' = << >>,
           csv' = csv, open' = open, save'.step \in {"idle", "export"},
           save'.step = "idle" \/ open
    PROVE  Inv'
<1>1. DatasetType'
  BY OverlayType DEF Inv, DatasetType
<1>2. EditsType'
  BY WithoutType DEF Inv, EditsType
<1> QED
  BY <1>1, <1>2 DEF Inv, FileType, SaveOpen, Captured, Prepared

LEMMA EditedInEdits == ASSUME NEW cols PROVE EditedIn(cols) \subseteq DOMAIN edits
  BY DEF EditedIn

LEMMA NextInv == Inv /\ [Next]_vars => Inv'
<1> SUFFICES ASSUME Inv, [Next]_vars PROVE Inv'
  OBVIOUS
<1> USE WriteBackAssumption
<1>1. ASSUME NEW r \in DOMAIN dataset, NEW c \in Cols, NEW v \in Values, SetValue(r, c, v)
      PROVE  Inv'
  <2>1. EditsType'
    BY <1>1, WithoutType DEF SetValue, EditsType, Inv
  <2>2. save.step = "idle"
    BY <1>1, IdleStep DEF SetValue
  <2> QED
    BY <1>1, <2>1, <2>2 DEF SetValue, Inv, DatasetType, FileType, SaveOpen, Captured, Prepared
<1>2. CASE BeginSave
  BY <1>2, SaveBegins
<1>3. CASE SaveColumns
  BY <1>3, ColumnsSaved DEF SaveColumns, Inv, SaveOpen
<1>4. ASSUME NEW c \in Cols, ColumnWriteFails(c)
      PROVE  Inv'
  <2>1. PICK torn \in SUBSET EditedIn({c}) : dataset' = Overlay(EditedIn(0 .. c - 1) \cup torn)
    BY <1>4 DEF ColumnWriteFails
  <2>2. EditedIn(0 .. c - 1) \cup torn \subseteq DOMAIN edits
    BY EditedInEdits
  <2> QED
    BY <1>4, <2>1, <2>2, ColumnsSaved, IdleStep DEF ColumnWriteFails
<1>5. ASSUME NEW c \in Cols, StatsWriteFails(c)
      PROVE  Inv'
  BY <1>5, ColumnsSaved, EditedInEdits, IdleStep DEF StatsWriteFails
<1>6. CASE WriteTempFile
  <2>1. PICK out \in {Exported(csv, save.rows)} \cup CutShort(Exported(csv, save.rows)) :
            save' = Progress("replace", save.rows, csv, out, Exported(csv, save.rows))
    BY <1>6 DEF WriteTempFile
  <2>2. out \in Seq(Records)
    BY ExportedType, CutShortType DEF Inv, FileType
  <2>3. /\ save'.step = "replace" /\ save'.rows = save.rows /\ save'.src = csv
        /\ save'.out = out /\ save'.crc = Exported(csv, save.rows)
    BY <2>1 DEF Progress
  <2>4. Exported(csv, save.rows) = Exported(csv, save.rows)'
    BY <1>6, <2>3 DEF WriteTempFile, Exported, Serialised
  <2>5. FileType'
    BY <1>6, <2>2, <2>3 DEF WriteTempFile, Inv, FileType
  <2>6. SaveOpen'
    BY <1>6 DEF WriteTempFile, Inv, SaveOpen
  <2>7. Prepared'
    BY <1>6, <2>3, <2>4 DEF WriteTempFile, Prepared
  <2> QED
    BY <1>6, <2>3, <2>5, <2>6, <2>7 DEF WriteTempFile, Inv, DatasetType, EditsType, Captured
<1>7. CASE TempOpenFails
  BY <1>7, IdleStep DEF TempOpenFails, Inv, DatasetType, EditsType, FileType, SaveOpen, Captured, Prepared
<1>8. CASE ReplaceCsv
  <2>1. save'.step = "record"
    BY <1>8 DEF ReplaceCsv
  <2> QED
    BY <1>8, <2>1 DEF ReplaceCsv, Inv, DatasetType, EditsType, FileType, SaveOpen, Captured, Prepared
<1>9. CASE ReplaceFails
  <2>1. csv' \in Seq(Records)
    BY <1>9, CutShortType DEF ReplaceFails, Inv, FileType
  <2> QED
    BY <1>9, <2>1, IdleStep
    DEF ReplaceFails, Inv, DatasetType, EditsType, FileType, SaveOpen, Captured, Prepared
<1>10. CASE RecordSource
  BY <1>10, IdleStep DEF RecordSource, Inv, DatasetType, EditsType, FileType, SaveOpen, Captured, Prepared
<1>11. CASE SourceWriteFails
  BY <1>11, IdleStep
  DEF SourceWriteFails, Inv, DatasetType, EditsType, FileType, SaveOpen, Captured, Prepared
<1>12. CASE CloseWindow
  BY <1>12, IdleStep DEF CloseWindow, Inv, DatasetType, EditsType, FileType, SaveOpen, Captured, Prepared
<1>13. CASE OpenCsv
  <2>1. save.step = "idle"
    BY <1>13 DEF OpenCsv, Inv, SaveOpen
  <2>2. DatasetType'
    BY <1>13, ImportedType DEF OpenCsv, Inv, DatasetType, FileType
  <2> QED
    BY <1>13, <2>1, <2>2 DEF OpenCsv, Inv, EditsType, FileType, SaveOpen, Captured, Prepared
<1>14. CASE ExternalChange
  <2>1. csv' \in Seq(Records)
    BY <1>14 DEF ExternalChange, WriteBackAssumption
  <2>2. Prepared'
    BY <1>14 DEF ExternalChange, Inv, Prepared, Exported, Serialised
  <2> QED
    BY <1>14, <2>1, <2>2 DEF ExternalChange, Inv, DatasetType, EditsType, FileType, SaveOpen, Captured
<1>15. CASE Crash
  <2>1. DatasetType'
    BY <1>15, OverlayType DEF Crash, Inv, DatasetType
  <2>2. csv' \in Seq(Records)
    BY <1>15, CutShortType DEF Crash, Inv, FileType
  <2>3. save'.step = "idle" /\ edits' = << >>
    BY <1>15, IdleStep DEF Crash
  <2> QED
    BY <2>1, <2>2, <2>3 DEF Inv, EditsType, FileType, SaveOpen, Captured, Prepared
<1>16. CASE UNCHANGED vars
  <2>1. Prepared'
    BY <1>16 DEF vars, Inv, Prepared, Exported, Serialised
  <2> QED
    BY <1>16, <2>1 DEF vars, Inv, DatasetType, EditsType, FileType, SaveOpen, Captured
<1> QED
  BY <1>1, <1>2, <1>3, <1>4, <1>5, <1>6, <1>7, <1>8, <1>9, <1>10, <1>11, <1>12, <1>13,
     <1>14, <1>15, <1>16 DEF Next

LEMMA InvAlways == Spec => []Inv
  BY InitInv, NextInv, PTL DEF Spec
-------------------------------------------------------------------------------
(* The theorems. *)

LEMMA OnlySavedRowsChange ==
    ASSUME Inv, save.step = "columns", NEW written \in SUBSET DOMAIN edits,
           dataset' = Overlay(written), NEW r \in Rows, dataset'[r] # dataset[r]
    PROVE  r \in save.rows
<1>1. PICK x \in written : x[1] = r
  BY OverlayChanges DEF Inv, Rows
<1> QED
  BY <1>1 DEF Inv, Captured

(* Whatever fails while the overrides are saved, a row that changed in the  *)
(* dataset was captured for the export beforehand (DoSave).                 *)
THEOREM SavedRowsCaptured == Spec => ChangedRowsCaptured
<1>1. Inv /\ [Next]_vars =>
          [save.step = "columns" =>
              \A r \in Rows : dataset'[r] # dataset[r] => r \in save.rows]_vars
  <2> SUFFICES ASSUME Inv, [Next]_vars, save.step = "columns",
                      NEW r \in Rows, dataset'[r] # dataset[r]
               PROVE  r \in save.rows
    OBVIOUS
  <2>1. CASE SaveColumns
    BY <2>1, OnlySavedRowsChange DEF SaveColumns
  <2>2. ASSUME NEW c \in Cols, ColumnWriteFails(c)
        PROVE  r \in save.rows
    <3>1. PICK torn \in SUBSET EditedIn({c}) :
              dataset' = Overlay(EditedIn(0 .. c - 1) \cup torn)
      BY <2>2 DEF ColumnWriteFails
    <3>2. EditedIn(0 .. c - 1) \cup torn \in SUBSET DOMAIN edits
      BY EditedInEdits
    <3> QED
      BY <3>1, <3>2, OnlySavedRowsChange
  <2>3. ASSUME NEW c \in Cols, StatsWriteFails(c)
        PROVE  r \in save.rows
    <3>1. EditedIn(0 .. c) \in SUBSET DOMAIN edits
      BY EditedInEdits
    <3> QED
      BY <2>3, <3>1, OnlySavedRowsChange DEF StatsWriteFails
  <2>4. CASE Crash
    <3>1. PICK written \in SUBSET DOMAIN edits : dataset' = Overlay(written)
      BY <2>4 DEF Crash
    <3> QED
      BY <3>1, OnlySavedRowsChange
  <2>5. CASE OpenCsv
    BY <2>5 DEF OpenCsv, Inv, SaveOpen
  <2>6. CASE dataset' = dataset
    BY <2>6
  <2> QED
    BY <2>1, <2>2, <2>3, <2>4, <2>5, <2>6
    DEF Next, vars, SetValue, BeginSave, WriteTempFile, TempOpenFails, ReplaceCsv,
        ReplaceFails, RecordSource, SourceWriteFails, CloseWindow, ExternalChange
<1> QED
  BY <1>1, InvAlways, PTL DEF Spec, ChangedRowsCaptured

\* Only the replacement, whole or cut short, changes the CSV.
LEMMA OnlyReplacementWrites ==
    ASSUME [Next]_vars, csv' # csv, ~Foreign
    PROVE  save.step = "replace"
<1> USE DEF Foreign
<1>1. CASE ReplaceCsv \/ ReplaceFails
  BY <1>1 DEF ReplaceCsv, ReplaceFails
<1>2. CASE Crash
  BY <1>2 DEF Crash
<1>3. CASE ExternalChange
  BY <1>3 DEF ExternalChange
<1>4. CASE csv' = csv
  BY <1>4
<1> QED
  BY <1>1, <1>2, <1>3, <1>4
  DEF Next, vars, SetValue, BeginSave, SaveColumns, ColumnWriteFails, StatsWriteFails,
      WriteTempFile, TempOpenFails, RecordSource, SourceWriteFails, CloseWindow, OpenCsv

(* The records of rows that were not edited keep their text exactly         *)
(* (mmapped_table.hpp:145), however the save ends.                          *)
THEOREM UneditedVerbatim == Spec => UneditedRowsVerbatim
<1>1. Inv /\ [Next]_vars =>
          [csv' # csv /\ ~Foreign =>
              /\ save.step = "replace"
              /\ Torn \/ Raced \/
                    /\ Len(csv') = Len(csv)
                    /\ \A r \in DOMAIN csv :
                          csv'[r] # csv[r] => /\ r \in save.rows
                                              /\ csv'[r] = Serialised(dataset[r])]_vars
  <2> SUFFICES ASSUME Inv, [Next]_vars, csv' # csv, ~Foreign, ~Torn, ~Raced
               PROVE  /\ save.step = "replace"
                      /\ Len(csv') = Len(csv)
                      /\ \A r \in DOMAIN csv :
                            csv'[r] # csv[r] => /\ r \in save.rows
                                                /\ csv'[r] = Serialised(dataset[r])
    BY OnlyReplacementWrites
  <2>1. save.step = "replace"
    BY OnlyReplacementWrites
  <2>2. csv' = Exported(csv, save.rows)
    BY <2>1 DEF Inv, Prepared, Torn, Raced
  <2>3. csv \in Seq(Records) /\ Len(csv) = Len(dataset)
    BY DEF Inv, FileType, Raced
  <2>4. Len(csv') = Len(csv)
    BY <2>2, <2>3, ExportedType, WriteBackAssumption DEF Inv
  <2>5. DOMAIN csv = DOMAIN dataset
    BY <2>3 DEF Inv, DatasetType
  <2>6. \A r \in DOMAIN csv :
            csv'[r] # csv[r] => r \in save.rows /\ csv'[r] = Serialised(dataset[r])
    BY <2>2, <2>3, <2>5 DEF Exported
  <2> QED
    BY <2>1, <2>4, <2>6
<1> QED
  BY <1>1, InvAlways, PTL DEF Spec, UneditedRowsVerbatim
-------------------------------------------------------------------------------
(* The dataset and its CSV say the same, for every CSV and every pair of    *)
(* conversions, until the first fault, crash or foreign write: what a save  *)
(* has still to write is in the rows it captured.                           *)

\* A file whose rows outside `rows` say what the dataset holds.
MirrorsBut(file, rows) ==
    /\ Len(file) = Len(dataset)
    /\ \A r \in Rows \ rows, c \in Cols : Agree(file[r][c], dataset[r][c])

Steps == {"idle", "columns", "export", "replace", "record"}

InStep ==
    /\ save.step \in Steps
    /\ save.step \in {"idle", "columns"} => Mirrors(csv)
    /\ save.step = "export" => MirrorsBut(csv, save.rows)
    /\ save.step = "replace" => Mirrors(save.out) /\ save.out = save.crc
    /\ save.step = "record" => Mirrors(csv)

Synced == disturbances \in Nat /\ (disturbances = 0 => InStep)

LEMMA DatasetRows ==
    ASSUME DatasetType
    PROVE  Rows = 1 .. Len(dataset) /\ \A r \in Rows : dataset[r] \in [Cols -> Values]
  BY DEF DatasetType, Rows

\* An import says what the file says.
LEMMA ImportMirrors ==
    ASSUME WriteBackAssumption, csv \in Seq(Records), csv' = csv, dataset' = Imported(csv)
    PROVE  Mirrors(csv)'
<1>1. Imported(csv) \in Seq([Cols -> Values]) /\ DOMAIN Imported(csv) = DOMAIN csv
  BY ImportedType DEF Imported
<1>2. Len(Imported(csv)) = Len(csv)
  BY <1>1
<1>3. \A r \in DOMAIN csv, c \in Cols : Imported(csv)[r][c] = Stored[csv[r][c]]
  BY DEF Imported
<1> QED
  BY <1>1, <1>2, <1>3 DEF Mirrors, Rows, Agree

\* The export completes a file that says the rest already.
LEMMA ExportMirrors ==
    ASSUME WriteBackAssumption, DatasetType, csv \in Seq(Records),
           NEW rows, MirrorsBut(csv, rows)
    PROVE  Mirrors(Exported(csv, rows))
<1>1. Len(Exported(csv, rows)) = Len(dataset)
  BY ExportedType
<1>2. ASSUME NEW r \in Rows, NEW c \in Cols
      PROVE  Agree(Exported(csv, rows)[r][c], dataset[r][c])
  <2>1. CASE r \in rows
    BY <2>1, <1>2 DEF Exported, Serialised, Agree, Rows
  <2>2. CASE r \notin rows
    BY <2>2, <1>2 DEF Exported, MirrorsBut, Rows
  <2> QED
    BY <2>1, <2>2
<1> QED
  BY <1>1, <1>2 DEF Mirrors

\* Saving the columns changes the captured rows only.
LEMMA SavedMirrors ==
    ASSUME Inv, Mirrors(csv), save.step = "columns", SaveColumns
    PROVE  MirrorsBut(csv, save.rows)'
<1>1. dataset' = Overlay(DOMAIN edits) /\ csv' = csv /\ save'.rows = save.rows
  BY DEF SaveColumns
<1>2. dataset' \in Seq([Cols -> Values]) /\ DOMAIN dataset' = DOMAIN dataset
  BY <1>1, OverlayType DEF Inv
<1>3. Len(dataset') = Len(dataset)
  BY <1>2 DEF Inv, DatasetType
<1>4. \A r \in Rows \ save.rows : dataset'[r] = dataset[r]
  BY <1>1, OnlySavedRowsChange
<1> QED
  BY <1>1, <1>2, <1>3, <1>4 DEF Mirrors, MirrorsBut, Rows, Agree
-------------------------------------------------------------------------------
LEMMA InitSynced == CountedInit => Synced
<1> SUFFICES ASSUME CountedInit PROVE Mirrors(csv) /\ save.step = "idle"
  BY DEF CountedInit, Synced, InStep, Steps
<1>1. csv \in Seq(Records) /\ dataset = Imported(csv)
  BY WriteBackAssumption DEF CountedInit, Init
<1>2. Imported(csv) \in Seq([Cols -> Values]) /\ DOMAIN Imported(csv) = DOMAIN csv
  BY <1>1, ImportedType, WriteBackAssumption DEF Imported
<1>3. \A r \in DOMAIN csv, c \in Cols : dataset[r][c] = Stored[csv[r][c]]
  BY <1>1 DEF Imported
<1> QED
  BY <1>1, <1>2, <1>3, IdleStep DEF CountedInit, Init, Mirrors, Rows, Agree

\* A step without a disturbance.
LEMMA StepSynced ==
    ASSUME Inv, InStep, Next, ~Disturbed
    PROVE  InStep'
<1> USE WriteBackAssumption
<1>1. ASSUME NEW r \in DOMAIN dataset, NEW c \in Cols, NEW v \in Values, SetValue(r, c, v)
      PROVE  InStep'
  BY <1>1, IdleStep DEF SetValue, InStep, Steps, Mirrors, Rows
<1>2. CASE BeginSave
  <2>1. save'.step = "columns"
    BY <1>2 DEF BeginSave, Progress
  <2> QED
    BY <1>2, <2>1, IdleStep DEF BeginSave, InStep, Steps, Mirrors, Rows
<1>3. CASE SaveColumns
  <2>1. save.step = "columns"
    BY <1>3 DEF SaveColumns
  <2>2. save'.step = "export"
    BY <1>3 DEF SaveColumns
  <2>3. MirrorsBut(csv, save.rows)'
    BY <1>3, <2>1, SavedMirrors DEF InStep
  <2> QED
    BY <2>2, <2>3 DEF InStep, Steps
<1>4. CASE WriteTempFile
  <2>1. PICK out \in {Exported(csv, save.rows)} \cup CutShort(Exported(csv, save.rows)) :
            save' = Progress("replace", save.rows, csv, out, Exported(csv, save.rows))
    BY <1>4 DEF WriteTempFile
  <2>2. save'.step = "replace" /\ save'.out = out /\ save'.crc = Exported(csv, save.rows)
    BY <2>1 DEF Progress
  <2>3. out = Exported(csv, save.rows)
    BY <1>4, <2>2 DEF Disturbed
  <2>4. Mirrors(Exported(csv, save.rows))
    BY <1>4, ExportMirrors DEF WriteTempFile, InStep, Inv, FileType
  <2>5. Mirrors(save.out)'
    BY <1>4, <2>2, <2>3, <2>4 DEF WriteTempFile, Mirrors, Rows
  <2> QED
    BY <2>2, <2>3, <2>5 DEF InStep, Steps
<1>5. CASE ReplaceCsv
  <2>1. save'.step = "record"
    BY <1>5 DEF ReplaceCsv
  <2> QED
    BY <1>5, <2>1 DEF ReplaceCsv, InStep, Steps, Mirrors, Rows
<1>6. CASE RecordSource
  BY <1>6, IdleStep DEF RecordSource, InStep, Steps, Mirrors, Rows
<1>7. CASE CloseWindow
  BY <1>7, IdleStep DEF CloseWindow, InStep, Steps, Mirrors, Rows
<1>8. CASE OpenCsv
  <2>1. save.step = "idle" /\ csv \in Seq(Records)
    BY <1>8 DEF OpenCsv, Inv, SaveOpen, InStep, Steps, FileType
  <2>2. Mirrors(csv)'
    <3>1. CASE Matches(csv)
      BY <1>8, <2>1, <3>1 DEF OpenCsv, InStep, Mirrors, Rows
    <3>2. CASE ~Matches(csv)
      BY <1>8, <2>1, <3>2, ImportMirrors DEF OpenCsv
    <3> QED
      BY <3>1, <3>2
  <2> QED
    BY <1>8, <2>1, <2>2 DEF OpenCsv, InStep, Steps
<1> QED
  BY <1>1, <1>2, <1>3, <1>4, <1>5, <1>6, <1>7, <1>8 DEF Next, Disturbed

LEMMA NextSynced == Inv /\ Synced /\ [CountedNext]_<<vars, disturbances>> => Synced'
<1> SUFFICES ASSUME Inv, Synced, [CountedNext]_<<vars, disturbances>> PROVE Synced'
  OBVIOUS
<1>1. CASE CountedNext /\ Disturbed
  BY <1>1 DEF CountedNext, Synced
<1>2. CASE CountedNext /\ ~Disturbed
  BY <1>2, StepSynced DEF CountedNext, Synced
<1>3. CASE UNCHANGED <<vars, disturbances>>
  BY <1>3 DEF vars, Synced, InStep, Mirrors, MirrorsBut, Rows
<1> QED
  BY <1>1, <1>2, <1>3

(* Until the first fault, crash or foreign write, a save that replaced the  *)
(* CSV has put every edit into it, and a CSV that is recognised says what   *)
(* the dataset shows (DoSave, WriteSourceInfo, FindConvertedDirByStat).     *)
THEOREM InSync == CountedSpec => []InSyncUntilDisturbed
<1>1. CountedInit => Inv /\ Synced
  BY InitInv, InitSynced DEF CountedInit
<1>2. Inv /\ Synced /\ [CountedNext]_<<vars, disturbances>> => Inv' /\ Synced'
  BY NextInv, NextSynced DEF CountedNext, vars
<1>3. Synced => InSyncUntilDisturbed
  BY IdleStep DEF Synced, InStep, InSyncUntilDisturbed, WrittenBack, ReuseShowsFile
<1> QED
  BY <1>1, <1>2, <1>3, PTL DEF CountedSpec
===============================================================================
