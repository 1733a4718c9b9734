------------------------------- MODULE WriteBack -------------------------------
(***************************************************************************)
(* One dataset and the CSV file it was imported from: saving writes the    *)
(* edits to the dataset, mirrors them into the CSV, and records the new    *)
(* CSV's fingerprint so that reopening it finds the dataset again          *)
(* (SpreadsheetFrame::DoSave, SaveOverrides, ExportBaseColumnsToCsv,       *)
(* WriteSourceInfo).  The CSV belongs to the user: other programs may      *)
(* change it at any time, also while a save is running.                    *)
(*                                                                         *)
(* A CSV is the sequence of its data records, a record the texts of its    *)
(* cells.  Storing a text and printing a value are the two conversions:    *)
(* many texts store the same value ("1", "01", "+1"), and printing need    *)
(* not reproduce it (doubles are printed with 15 digits).  A fingerprint   *)
(* is the content it was taken from: equal checksums mean equal contents,  *)
(* and so do equal size and modification time.                             *)
(***************************************************************************)
EXTENDS Integers, FiniteSets, Sequences, Functions

CONSTANTS NumCols,        \* numBaseCols
          Texts,          \* what a CSV cell may say
          Values,         \* what a dataset cell may hold
          Stored,         \* [Texts -> Values]: the importer
          Printed,        \* [Values -> Texts]: AppendCsvRow
          Blank,          \* the text of a cell that was cut off
          InitialFiles,   \* the CSV when it is first imported
          ExternalFiles,  \* what other programs may turn it into
          NoSource,       \* source.txt is missing or unreadable
          Faults          \* what may go wrong, see FaultKinds

FaultKinds == {"columnWrite", "statsWrite", "tempOpen", "shortWrite", "rename",
               "copy", "sourceWrite", "external", "crash"}

Cols    == 0 .. NumCols - 1
Records == [Cols -> Texts]

ASSUME WriteBackAssumption ==
    /\ NumCols \in Nat
    /\ Stored \in [Texts -> Values]
    /\ Printed \in [Values -> Texts]
    /\ Blank \in Texts
    /\ InitialFiles \cup ExternalFiles \subseteq Seq(Records)
    /\ Faults \subseteq FaultKinds

VARIABLES csv,       \* the user's file
          dataset,   \* the column files
          recorded,  \* source.txt: the fingerprints of the CSV
          open,      \* a window shows the dataset
          edits,     \* its unsaved edits: <<row, column>> -> value
          save       \* how far DoSave has got

vars == <<csv, dataset, recorded, open, edits, save>>

Imported(file)  == [r \in DOMAIN file |-> [c \in Cols |-> Stored[file[r][c]]]]
Fingerprint(file) == [crc |-> file, stat |-> file]
Serialised(row) == [c \in Cols |-> Printed[row[c]]]

\* rows: the rows captured for the export; src: the CSV as the export mapped it;
\* out: the temporary file; crc: what the writer of that file computed.
Progress(step, rows, src, out, crc) ==
    [step |-> step, rows |-> rows, src |-> src, out |-> out, crc |-> crc]
Idle == Progress("idle", {}, << >>, << >>, << >>)

EditedIn(cols) == {x \in DOMAIN edits : x[2] \in cols}
Without(cells) == Restrict(edits, DOMAIN edits \ cells)

\* The column files once the edits at `written` are in them.
Overlay(written) ==
    [r \in DOMAIN dataset |->
        [c \in Cols |-> IF <<r, c>> \in written THEN edits[<<r, c>>] ELSE dataset[r][c]]]

Init ==
    /\ csv \in InitialFiles
    /\ dataset = Imported(csv)
    /\ recorded = Fingerprint(csv)
    /\ open = TRUE
    /\ edits = << >>
    /\ save = Idle
-------------------------------------------------------------------------------
\* SetValue: typing the stored value back drops the override.
SetValue(r, c, v) ==
    /\ open
    /\ save = Idle
    /\ edits' = IF v = dataset[r][c]
                THEN Without({<<r, c>>})
                ELSE [x \in DOMAIN edits \cup {<<r, c>>} |->
                         IF x = <<r, c>> THEN v ELSE edits[x]]
    /\ UNCHANGED <<csv, dataset, recorded, open, save>>

BeginSave_CapturesLate ==   \* mutant: the edited rows are collected after the save
    /\ open
    /\ save = Idle
    /\ DOMAIN edits # {}
    /\ save' = Progress("columns", {}, << >>, << >>, << >>)
    /\ UNCHANGED <<csv, dataset, recorded, open, edits>>

\* DoSave: capture the edited rows before the override maps are cleared.
BeginSave ==
    /\ open
    /\ save = Idle
    /\ DOMAIN edits # {}
    /\ save' = Progress("columns", {x[1] : x \in DOMAIN edits}, << >>, << >>, << >>)
    /\ UNCHANGED <<csv, dataset, recorded, open, edits>>

\* SaveOverrides succeeds (its own steps are in TableStore).
SaveColumns ==
    /\ save.step = "columns"
    /\ dataset' = Overlay(DOMAIN edits)
    /\ edits' = << >>
    /\ save' = [save EXCEPT !.step = "export"]
    /\ UNCHANGED <<csv, recorded, open>>

\* SaveOverrides stops at column c, whose patch is not or only partly written:
\* the earlier columns are saved, and DoSave returns without an export.
ColumnWriteFails(c) ==
    /\ "columnWrite" \in Faults
    /\ save.step = "columns"
    /\ EditedIn({c}) # {}
    /\ \E torn \in SUBSET EditedIn({c}) : dataset' = Overlay(EditedIn(0 .. c - 1) \cup torn)
    /\ edits' = Without(EditedIn(0 .. c - 1))
    /\ save' = Idle
    /\ UNCHANGED <<csv, recorded, open>>

\* SaveOverrides stops at column c, saved but for its statistics.
StatsWriteFails(c) ==
    /\ "statsWrite" \in Faults
    /\ save.step = "columns"
    /\ EditedIn({c}) # {}
    /\ dataset' = Overlay(EditedIn(0 .. c))
    /\ edits' = Without(EditedIn(0 .. c))
    /\ save' = Idle
    /\ UNCHANGED <<csv, recorded, open>>

Exported_SplicesRowAfter(file, rows) == \* mutant: record r taken for row r
    [r \in DOMAIN dataset |-> IF Len(file) = Len(dataset) /\ (r - 1) \notin rows
                              THEN file[r]
                              ELSE Serialised(dataset[r])]

Exported_PrintsAll(file, rows) ==   \* mutant: copies no record
    [r \in DOMAIN dataset |-> Serialised(dataset[r])]

\* The file the export writes: the captured rows printed anew and the other records
\* copied, provided the CSV still has one record per row; else every row printed.
Exported(file, rows) ==
    [r \in DOMAIN dataset |-> IF Len(file) = Len(dataset) /\ r \notin rows
                              THEN file[r]
                              ELSE Serialised(dataset[r])]

\* What of a file is on disk when writing it stopped early: its first records,
\* perhaps followed by one whose cells are cut off.
CutShort(out) ==
    {SubSeq(out, 1, n) : n \in 0 .. Len(out) - 1} \cup
    {Append(SubSeq(out, 1, n), [c \in Cols |-> Blank]) : n \in 0 .. Len(out) - 1}

\* ExportBaseColumnsToCsv up to the replacement, from the CSV as it is now.  A
\* write error is not noticed: the tee's stream fails, the tested one does not.
WriteTempFile ==
    /\ save.step = "export"
    /\ LET whole == Exported(csv, save.rows) IN
       \E out \in {whole} \cup (IF "shortWrite" \in Faults THEN CutShort(whole) ELSE {}) :
          save' = Progress("replace", save.rows, csv, out, whole)
    /\ UNCHANGED <<csv, dataset, recorded, open, edits>>

\* No temporary file: the save ends with a warning.
TempOpenFails ==
    /\ "tempOpen" \in Faults
    /\ save.step = "export"
    /\ save' = Idle
    /\ UNCHANGED <<csv, dataset, recorded, open, edits>>

\* The temporary file is renamed over the CSV, or copied over it.
ReplaceCsv ==
    /\ save.step = "replace"
    /\ csv' = save.out
    /\ save' = [save EXCEPT !.step = "record"]
    /\ UNCHANGED <<dataset, recorded, open, edits>>

\* Neither works: the rename has no effect, the copy may leave part of the file.
ReplaceFails ==
    /\ "rename" \in Faults
    /\ save.step = "replace"
    /\ csv' \in {csv} \cup (IF "copy" \in Faults THEN CutShort(save.out) ELSE {})
    /\ save' = Idle
    /\ UNCHANGED <<dataset, recorded, open, edits>>

\* WriteSourceInfo: the writer's checksum, and the size and time the CSV has now.
RecordSource ==
    /\ save.step = "record"
    /\ recorded' = [crc |-> save.crc, stat |-> csv]
    /\ save' = Idle
    /\ UNCHANGED <<csv, dataset, open, edits>>

\* source.txt was truncated for writing and nothing more could be written.
SourceWriteFails ==
    /\ "sourceWrite" \in Faults
    /\ save.step = "record"
    /\ recorded' = NoSource
    /\ save' = Idle
    /\ UNCHANGED <<csv, dataset, open, edits>>

\* The window closes with nothing unsaved, or its user declines to save.
CloseWindow ==
    /\ open
    /\ save = Idle
    /\ open' = FALSE
    /\ edits' = << >>
    /\ UNCHANGED <<csv, dataset, recorded, save>>

Matches(file) == recorded # NoSource /\ (recorded.stat = file \/ recorded.crc = file)

\* Opening the CSV: reuse the dataset its fingerprint finds, else import it anew.
OpenCsv ==
    /\ ~open
    /\ csv # << >>
    /\ IF Matches(csv)
       THEN UNCHANGED <<dataset, recorded>>
       ELSE /\ dataset' = Imported(csv)
            /\ recorded' = Fingerprint(csv)
    /\ open' = TRUE
    /\ UNCHANGED <<csv, edits, save>>

\* Another program rewrites the CSV.
ExternalChange ==
    /\ "external" \in Faults
    /\ csv' \in ExternalFiles \ {csv}
    /\ UNCHANGED <<dataset, recorded, open, edits, save>>

\* The process dies: what it was writing may be there, in whole or in part.
Crash ==
    /\ "crash" \in Faults
    /\ open
    /\ IF save.step = "columns"
       THEN \E written \in SUBSET DOMAIN edits : dataset' = Overlay(written)
       ELSE UNCHANGED dataset
    /\ csv' \in {csv} \cup (IF save.step = "replace" /\ "copy" \in Faults
                            THEN CutShort(save.out) ELSE {})
    /\ recorded' \in {recorded} \cup (IF save.step = "record" THEN {NoSource} ELSE {})
    /\ open' = FALSE
    /\ edits' = << >>
    /\ save' = Idle

Next ==
    \/ \E r \in DOMAIN dataset, c \in Cols, v \in Values : SetValue(r, c, v)
    \/ BeginSave
    \/ SaveColumns
    \/ \E c \in Cols : ColumnWriteFails(c) \/ StatsWriteFails(c)
    \/ WriteTempFile \/ TempOpenFails
    \/ ReplaceCsv \/ ReplaceFails
    \/ RecordSource \/ SourceWriteFails
    \/ CloseWindow \/ OpenCsv
    \/ ExternalChange
    \/ Crash

Spec == Init /\ [][Next]_vars
-------------------------------------------------------------------------------
Rows == DOMAIN dataset

\* A text and a value agree when the text stores the value, or is how the value
\* is printed.
Agree(text, v) == Stored[text] = v \/ text = Printed[v]

Mirrors(file) ==
    /\ Len(file) = Len(dataset)
    /\ \A r \in Rows, c \in Cols : Agree(file[r][c], dataset[r][c])

(* A save that got as far as replacing the CSV has put every edit into it:  *)
(* the file "stays in sync with our internal format"                        *)
(* (spreadsheet_frame.cpp:915).                                             *)
WrittenBack == save.step = "record" => Mirrors(csv)

(* A CSV that the recorded fingerprint recognises is opened as this         *)
(* dataset, unread: so the dataset must show what the CSV says.             *)
ReuseShowsFile == save = Idle /\ Matches(csv) => Mirrors(csv)

\* Another program wrote the CSV, or the export's copy of it was cut short.
Foreign == save' = save
Torn    == save.out # save.crc \/ csv' # save.out
Raced   == csv # save.src \/ Len(csv) # Len(dataset)

(* The export "keeps their original text exactly" (mmapped_table.hpp:145):  *)
(* however the save ends and whatever earlier ones failed to mirror, a save *)
(* changes the CSV only by replacing it whole, only in rows that were       *)
(* edited, and there to the values of the dataset.  A cut-off copy and a    *)
(* CSV that changed under the export, or no longer has a record per row,    *)
(* are excepted.                                                            *)
UneditedRowsVerbatim ==
    [][csv' # csv /\ ~Foreign =>
          /\ save.step = "replace"
          /\ Torn \/ Raced \/
                /\ Len(csv') = Len(csv)
                /\ \A r \in DOMAIN csv :
                      csv'[r] # csv[r] => /\ r \in save.rows
                                          /\ csv'[r] = Serialised(dataset[r])]_vars

(* Every row a save changes in the dataset is among the rows it captured    *)
(* for the export, whatever fails meanwhile.                                *)
ChangedRowsCaptured ==
    [][save.step = "columns" =>
          \A r \in Rows : dataset'[r] # dataset[r] => r \in save.rows]_vars
===============================================================================
