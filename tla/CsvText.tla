-------------------------------- MODULE CsvText --------------------------------
(***************************************************************************)
(* The text of a CSV, character by character: how the importer's reader    *)
(* splits it into records and fields (third-party/csv-parser/csv.hpp), how *)
(* the importer types and stores the fields (storage/csv_importer.cpp), and *)
(* how a save finds the records again with a scanner of its own and prints *)
(* the edited rows over them (model/mmapped_table.cpp).  WriteBack takes a *)
(* CSV as whole records; this module is why it may.                        *)
(*                                                                         *)
(* A text is a sequence of characters, an offset counts from 0.  Columns   *)
(* are integers or text: an integer is kept as its numeral, and numerals   *)
(* are strings of 1s or the default 0, so a printed integer is the text it *)
(* came from (what printing doubles loses is left to WriteBack).           *)
(***************************************************************************)
EXTENDS Integers, Sequences, FiniteSetsExt, SequencesExt

CONSTANTS Delimiter,    \* what guess_csv found in this file
          Letters,      \* ordinary characters of texts and labels
          Beginnings,   \* how a file may begin
          MaxTyped,     \* bound on the characters after that
          MaxText,      \* bytes a text column keeps
          EditTexts,    \* what is typed into text cells
          MaxEdits      \* bound on the edits

Quote == "\""
CR    == "\r"
LF    == "\n"
Comma == ","
One   == "1"
Zero  == <<"0">>
EndOfText == "end"

Chars == Letters \cup {Delimiter, Quote, CR, LF, One}

ASSUME CsvTextAssumption ==
    /\ Delimiter \notin {Quote, CR, LF}
    /\ Beginnings \subseteq Seq(Chars)
    /\ EditTexts \subseteq Seq(Chars \cup {Comma})
    /\ MaxText \in Nat

VARIABLES csv,      \* the file
          sheet,    \* the dataset: labels, types and cells; NoSheet before the import
          saved,    \* the cells as the column files have them
          edits     \* how many edits were made

vars == <<csv, sheet, saved, edits>>

\* PendingEditedRows: an override is a cell that differs from its file.
EditedRows == {r \in DOMAIN saved : sheet.cells[r] # saved[r]}
-------------------------------------------------------------------------------
(* The reader. *)

AddChar(s, c) == [s EXCEPT !.field = Append(@, c)]
PushField(s)  == [s EXCEPT !.row = Append(@, s.field), !.field = << >>, !.started = FALSE]

\* push_row; the next record starts at offset `next`.
PushRow(s, next) ==
    [s EXCEPT !.records = Append(@, s.row), !.row = << >>,
              !.starts = Append(@, s.from), !.from = next]

\* finish_row: an empty line is a record without fields.
FinishRow(s, next) ==
    PushRow(IF s.field # << >> \/ s.started \/ s.row # << >> THEN PushField(s) ELSE s, next)

\* parse, one character: a quote opens a quoted field only at its start, and
\* inside one it closes the field, is one of a pair, or stands for itself.
ReadChar(text, s, i) ==
    LET c    == text[i]
        next == IF i < Len(text) THEN text[i + 1] ELSE EndOfText
        ends == {Delimiter, CR, LF, EndOfText}
    IN  IF s.skip THEN [s EXCEPT !.skip = FALSE]
        ELSE IF s.quoted
        THEN CASE c = Quote /\ next = Quote   -> [AddChar(s, c) EXCEPT !.skip = TRUE]
               [] c = Quote /\ next \in ends  -> [s EXCEPT !.quoted = FALSE]
               [] OTHER                       -> AddChar(s, c)
        ELSE CASE c = Delimiter -> PushField(s)
               [] c = LF        -> FinishRow(s, i)
               [] c = CR        -> IF next = LF THEN [FinishRow(s, i + 1) EXCEPT !.skip = TRUE]
                                   ELSE FinishRow(s, i)
               [] c = Quote /\ s.field = << >> -> [s EXCEPT !.quoted = TRUE, !.started = TRUE]
               [] OTHER         -> AddChar(s, c)

\* end_feed: a last record that no newline ends.
EndFeed(text, s) ==
    LET p == IF s.field # << >> \/ (text # << >> /\ Last(text) \in {Delimiter, Quote})
             THEN PushField(s) ELSE s
    IN  IF p.row # << >> THEN PushRow(p, Len(text)) ELSE p

Fresh == [records |-> << >>, starts |-> << >>, from |-> 0, row |-> << >>, field |-> << >>,
          started |-> FALSE, quoted |-> FALSE, skip |-> FALSE]

\* The reader after the first n characters.
ReadUpTo(text, n) ==
    LET read[i \in 0 .. Len(text)] == IF i = 0 THEN Fresh ELSE ReadChar(text, read[i - 1], i)
    IN  read[n]

Read(text) == EndFeed(text, ReadUpTo(text, Len(text)))
-------------------------------------------------------------------------------
(* The importer. *)

IsInt(field) == field = Zero \/ (field # << >> /\ ToSet(field) = {One})

\* Does record `row` have a field in column c?
Has(row, c) == c <= Len(row)

InferTypes_Sampled(records, numCols) == \* mutant: only the first record is looked at
    [c \in 1 .. numCols |->
        LET fields == {records[r][c] : r \in {k \in {1} \cap DOMAIN records : Has(records[k], c)}}
        IN  IF fields # {} /\ \A f \in fields : IsInt(f) THEN "int" ELSE "text"]

\* InferTypes: over every record; fields a short record lacks do not count.
InferTypes(records, numCols) ==
    [c \in 1 .. numCols |->
        LET fields == {records[r][c] : r \in {k \in DOMAIN records : Has(records[k], c)}}
        IN  IF fields # {} /\ \A f \in fields : IsInt(f) THEN "int" ELSE "text"]

\* ToCharBuf.
CutText(text) == SubSeq(text, 1, Min({Len(text), MaxText}))

\* WriteDataFiles: what one column of a record stores.  A missing field, and a
\* field that does not convert, is the type's default.
StoredAs(type, row, c) ==
    CASE type = "int"  -> IF Has(row, c) /\ IsInt(row[c]) THEN row[c] ELSE Zero
      [] type = "text" -> IF Has(row, c) THEN CutText(row[c]) ELSE << >>

Stored(types, records) ==
    [r \in DOMAIN records |-> [c \in DOMAIN types |-> StoredAs(types[c], records[r], c)]]

\* MakeColumnName; "C" stands for "Column n".
ColumnName(label) == IF label = << >> THEN <<"C">> ELSE label

NoSheet == [labels |-> << >>, types |-> << >>, cells |-> << >>, sound |-> FALSE]
-------------------------------------------------------------------------------
(* The save. *)

ScanCsvRecordStarts_Plain(text) ==  \* mutant: quotes are not looked at
    SelectSeq([i \in 1 .. Len(text) |-> i - 1], LAMBDA i : i = 0 \/ text[i] = LF)

\* ScanCsvRecordStarts: after the start, after every newline that an even
\* number of quotes precedes, but not at the end of the file.
ScanChar(text, s, i) ==
    CASE text[i] = Quote -> [s EXCEPT !.inQuotes = ~@]
      [] text[i] = LF /\ ~s.inQuotes /\ i < Len(text) -> [s EXCEPT !.starts = Append(@, i)]
      [] OTHER -> s

ScanUpTo(text, n) ==
    LET scan[i \in 0 .. Len(text)] ==
            IF i = 0 THEN [inQuotes |-> FALSE, starts |-> IF text = << >> THEN << >> ELSE <<0>>]
            ELSE ScanChar(text, scan[i - 1], i)
    IN  scan[n]

ScanCsvRecordStarts(text) == ScanUpTo(text, Len(text)).starts

AppendCsvEscaped_Bare(text) ==  \* mutant: a quote alone does not ask for quoting
    IF ToSet(text) \cap {Comma, CR, LF} = {} THEN text
    ELSE <<Quote>> \o FlattenSeq([i \in DOMAIN text |->
                          IF text[i] = Quote THEN <<Quote, Quote>> ELSE <<text[i]>>]) \o <<Quote>>

AppendCsvEscaped(text) ==
    IF ToSet(text) \cap {Comma, Quote, CR, LF} = {} THEN text
    ELSE <<Quote>> \o FlattenSeq([i \in DOMAIN text |->
                          IF text[i] = Quote THEN <<Quote, Quote>> ELSE <<text[i]>>]) \o <<Quote>>

\* AppendCsvRow, and the header of a full rewrite: always commas, always LF.
AppendCsvRow(texts) ==
    FlattenSeq([c \in DOMAIN texts |->
        IF c = 1 THEN AppendCsvEscaped(texts[c]) ELSE <<Comma>> \o AppendCsvEscaped(texts[c])])
    \o <<LF>>

\* The text of record k, its newline included.
RecordText(text, starts, k) ==
    SubSeq(text, starts[k] + 1, IF k < Len(starts) THEN starts[k + 1] ELSE Len(text))

Export_RowForRecord(text, cells, labels, rows) ==   \* mutant: the header is not counted
    LET starts == ScanCsvRecordStarts(text)
    IN  IF Len(starts) = Len(cells) + 1
        THEN FlattenSeq([k \in DOMAIN starts |->
                 IF k \in rows THEN AppendCsvRow(cells[k]) ELSE RecordText(text, starts, k)])
        ELSE FlattenSeq(<<AppendCsvRow(labels)>> \o [r \in DOMAIN cells |-> AppendCsvRow(cells[r])])

\* ExportBaseColumnsToCsv: the edited records printed, all else copied, unless
\* the file does not scan into a header and as many records as there are rows.
Export(text, cells, labels, rows) ==
    LET starts == ScanCsvRecordStarts(text)
    IN  IF Len(starts) = Len(cells) + 1
        THEN FlattenSeq([k \in DOMAIN starts |->
                 IF k - 1 \in rows THEN AppendCsvRow(cells[k - 1]) ELSE RecordText(text, starts, k)])
        ELSE FlattenSeq(<<AppendCsvRow(labels)>> \o [r \in DOMAIN cells |-> AppendCsvRow(cells[r])])
-------------------------------------------------------------------------------
(* RFC 4180 as an automaton over the characters, so as not to trust either   *)
(* of the two readers above: quotes only around whole fields or in pairs     *)
(* within them, and CR only before LF unless quoted.                         *)
FieldChar(state, c) ==
    CASE state = "quoted"  -> IF c = Quote THEN "closed" ELSE "quoted"
      [] state = "bad" \/ (state = "cr" /\ c # LF) -> "bad"
      [] state = "cr" /\ c = LF -> "start"
      [] state \in {"start", "plain", "closed"} ->
            CASE c \in {Delimiter, LF} -> "start"
              [] c = CR                -> "cr"
              [] c = Quote             -> IF state = "plain" THEN "bad" ELSE "quoted"
              [] OTHER                 -> IF state = "closed" THEN "bad" ELSE "plain"

StateAfter(text, n) ==
    LET state[i \in 0 .. Len(text)] == IF i = 0 THEN "start" ELSE FieldChar(state[i - 1], text[i])
    IN  state[n]

WellFormed(text) == StateAfter(text, Len(text)) \in {"start", "plain", "closed"}
-------------------------------------------------------------------------------
Init ==
    /\ csv \in Beginnings
    /\ sheet = NoSheet
    /\ saved = << >>
    /\ edits = 0

\* Whoever writes the file.
Write(c) ==
    /\ sheet = NoSheet
    /\ \E b \in Beginnings : IsPrefix(b, csv) /\ Len(csv) < Len(b) + MaxTyped
    /\ csv' = Append(csv, c)
    /\ UNCHANGED <<sheet, saved, edits>>

\* ImportCsv: the header is the first record.
ImportCsv ==
    LET records == Read(csv).records
        types   == InferTypes(Tail(records), Len(records[1]))
    IN  /\ sheet = NoSheet
        /\ records # << >> /\ records[1] # << >>
        /\ sheet' = [labels |-> [c \in DOMAIN types |-> ColumnName(records[1][c])],
                     types  |-> types,
                     cells  |-> Stored(types, Tail(records)),
                     sound  |-> WellFormed(csv)]
        /\ saved' = sheet'.cells
        /\ UNCHANGED <<csv, edits>>

\* SetValue; a text is cut, a number that is none is refused.
SetValue(r, c, text) ==
    /\ r \in DOMAIN sheet.cells
    /\ c \in DOMAIN sheet.types
    /\ edits < MaxEdits
    /\ sheet.types[c] = "int" => IsInt(text)
    /\ sheet' = [sheet EXCEPT !.cells[r][c] = IF sheet.types[c] = "int" THEN text ELSE CutText(text)]
    /\ edits' = edits + 1
    /\ UNCHANGED <<csv, saved>>

\* DoSave.
Save ==
    /\ EditedRows # {}
    /\ csv' = Export(csv, sheet.cells, sheet.labels, EditedRows)
    /\ saved' = sheet.cells
    /\ UNCHANGED <<sheet, edits>>

Next ==
    \/ \E c \in Chars : Write(c)
    \/ ImportCsv
    \/ \E r \in DOMAIN sheet.cells, c \in DOMAIN sheet.types, text \in EditTexts : SetValue(r, c, text)
    \/ Save

Spec == Init /\ [][Next]_vars
-------------------------------------------------------------------------------
(* In every RFC 4180 file the save's scanner, which only counts quotes, finds *)
(* the records where the reader found them; a file it miscounts is rewritten, *)
(* but one whose records it counts right and cuts wrong would be garbled.     *)
ScannerAgrees == WellFormed(csv) => ScanCsvRecordStarts(csv) = Read(csv).starts

(* "Keeping it in sync": after a save the CSV, read by the importer's reader  *)
(* into columns of the same types, is the dataset, edited rows and their      *)
(* neighbouring cells included, whatever was typed (ExportBaseColumnsToCsv).  *)
CsvInSync ==
    sheet # NoSheet /\ sheet.sound /\ EditedRows = {} =>
        Stored(sheet.types, Tail(Read(csv).records)) = sheet.cells

(* A save leaves the text of every record it did not have to print, as the    *)
(* reader delimits it, byte for byte as it was: its line ends, quoting and    *)
(* extra fields.                                                              *)
OtherRecordsVerbatim ==
    [][sheet.sound /\ csv' # csv =>
          LET before == Read(csv).starts
              after  == Read(csv').starts
          IN  /\ Len(after) = Len(before)
              /\ \A k \in DOMAIN before \ {r + 1 : r \in EditedRows} :
                     RecordText(csv', after, k) = RecordText(csv, before, k)]_vars

(* The import stores every field the reader found, texts up to the cut: no    *)
(* column gets a type that makes one of its fields silently a default, the    *)
(* promise of inferring the types from the whole file (InferTypes, ImportCsv).*)
NoSilentDefault ==
    [][sheet = NoSheet /\ sheet' # NoSheet =>
          LET rows == Tail(Read(csv).records)
          IN  \A r \in DOMAIN rows : \A c \in DOMAIN sheet'.types :
                  Has(rows[r], c) => sheet'.cells[r][c] = IF sheet'.types[c] = "int" THEN rows[r][c]
                                                          ELSE CutText(rows[r][c])]_vars
===============================================================================
