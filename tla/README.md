# Gigasheet in TLA+

Gigasheet is a desktop spreadsheet for CSV files of millions of rows. A CSV is
imported once into a directory of column files, which are memory-mapped; edits
live in a sparse map until they are saved in place and mirrored back into the
CSV; numeric columns carry an index of per-chunk statistics. This directory
holds TLA+ models of that program, the TLC configurations that check them, and
TLAPS proofs. Paths below are relative to `src/src/`.

Contents: 1 the system, 2 the plan, 3 the modules and the code, 4 the runs,
5 fairness, 6 the proofs, 7 where the code departs from its promises,
8 what is not modelled.

## 1. The system

### Components

| Component | State it keeps | Operations | What makes it correct |
|---|---|---|---|
| Chunk statistics (`stats/`) | per numeric column: a file `<i>.stats.bin` with one sum/min/max/count record per 65536 rows, and its copy in memory | accumulate during import, write, load, fold records and scans into a range query | records line up with the rows they summarise; a query answers what a scan would |
| Table store (`model/mmapped_table.*`) | the mapped column files, the override map of unsaved edits, the index in memory | `SetValue`, `SaveOverrides` (patch, clear, refresh), reading through the column functions | a save loses no edit; what is shown is the file under the edits; records are never older than the data they answer for |
| Filtered view (same file) | a predicate and a cached bit set per filtered column, the list of visible rows, derived columns; the grid's own row and column counts | set, clear, toggle filters; re-evaluate after an edit; add a derived column | cached sets and view agree with the cells at all times; the grid's counts agree with the table |
| Write-back (`mmapped_table.cpp`, `ui/spreadsheet_frame.cpp`) | the user's CSV, `source.txt` with its fingerprint | `DoSave`, `ExportBaseColumnsToCsv`, `WriteSourceInfo`, the searches for a converted dataset | a saved edit is in the CSV, rows nobody edited keep their text, a recognised CSV shows what it says |
| Opening and importing (`ui/spreadsheet_frame.cpp`, `storage/csv_importer.cpp`) | windows, a loader thread per loading window, the tree of dataset directories | open, preview, import, cancel, fail, swap in, close | a window shows a complete dataset of its own file; partial imports are never found; loading ends; closing does not freeze |
| CSV import proper (`storage/csv_importer.cpp`) | - | type inference, conversion of fields | each column gets a type all its cells fit; rows keep their order |
| CSV text (`mmapped_table.cpp`, the reader in `third-party/csv-parser`) | - | record scanner, quoting, printing | the scanner finds the records the importer found; printing and reading back agree |
| Formula engine (`parser/`, `mmapped_table.cpp`) | compiled functions, folded aggregates, the formulas behind derived columns | lex, parse, type, fold aggregates, compile, scan | a range names the rows the user sees in it; a formula is refused exactly when it means nothing; a derived column shows what its formula meant |
| Grid session (`ui/spreadsheet_frame.cpp`) | open cell editor, formula bar, cursor, star in the title | editing, Enter in the formula bar, save and close around them, the timer | what is in the editor is saved; a window does not close over edits its user was not asked about |
| Autocomplete, statistics dialog (`ui/formula_autocomplete.cpp`, `ui/statistics_dialog.cpp`) | the field's text and caret, the popup's list, its selection and its target | matching, keys, a modal form | the popup belongs to the text; an accepted name reads as what it names |
| Preview table, appearance, memory usage, CRC-32 | - | - | - |

### How they interact

One GUI thread runs all handlers. Threads exist in two places: each loading
window has a loader thread (`StartBackgroundLoad`), and a save runs the export
on a worker while the GUI thread shows a modal progress dialog
(`RunWithLoadingScreen`), so nothing else happens to the table meanwhile.
Windows do not talk to each other; they share the dataset directories on disk,
the mapped pages of a dataset opened twice, and the user's CSVs, all without
locks. A loader hands its result over through two fields of its window and
`CallAfter`; closing a window sets `loaderCancel` and joins the loader.

A save crosses four components: `DoSave` captures the edited rows,
`SaveOverrides` patches each edited column, clears its overrides and rewrites
the records of its dirty chunks, `ExportBaseColumnsToCsv` writes a temporary
file next to the CSV and renames it over the CSV, `WriteSourceInfo` records the
new fingerprint. None of it is transactional.

### What is hard here

Failures and crashes between the steps of a save, and retries after them; state
cached under an assumption another actor breaks (records, cached filter sets,
fingerprints, the popup's list); two loader threads on one directory tree;
cancellation and the swap racing with closing; two readers of one CSV that must
find the same records, and two readers of one formula (column path and compiler)
that must find the same rows; an editor whose text is nowhere in the table yet;
the arithmetic of chunk ends and of ranges. The hazards are listed one by one,
with their lines, in `PROJECT.json`.

## 2. The plan

Order of work, most important behaviour first.

1. `ChunkStats`, `StatsIndex`: the index and its queries.
2. `TableStore` against the abstract `EditableSheet`.
3. `FilteredView`.
4. `WriteBack`.
5. `OpenFlow`, and `OpenShared` on it.
6. `FormulaEngine`, which composes `FilteredView` with the compiler, aggregates
   and the statistics of formulas, against a direct evaluation.
7. `CsvText`: reader, scanner and printer on texts.
8. `GridSession`: the editor and the formula bar around saving and closing.
9. `FormulaField`: the formula field, its popup and the scanner.
10. Proofs: `ChunkStats`, `StatsIndex`, `TableStore` and its refinement,
    `FilteredView`, `FormulaEngine`, `WriteBack`, `OpenFlow`, `GridSession`,
    `CsvText`, `FormulaField`.

All ten are done. What would come next: doubles as a third column type of
`CsvText` (with a model of 15-digit printing, so that the digits a neighbour's
edit costs become a property); an abstract catalogue for `OpenFlow` that maps a
file to at most one complete dataset; several windows in `GridSession`.

## 3. The modules and the code

**`ChunkStats`** holds the data operators: `Add` and `Merge` (one value, one
record, into an accumulator), `ScanRange` (rows one by one, in the order the
code reads them), `Summarize` (a chunk's record), `FoldChunks` and `ComputeStats`
(the chunk loop with its index test) and `Reference`, which says what the
statistics of a range are without chunks or scans: a difference of running
totals, the extremes of a set, a cardinality. The loops are recursive functions
of the number of turns made. A column is a function on 0-based rows; a vector of
records is a function on `0..n-1` and the empty one means "no statistics".
Doubles are integers between -`Infinity` and `Infinity`, as every double that is
no NaN lies between the infinities the accumulator starts from: the grouping of
additions is modelled, not their rounding.

**`StatsIndex`** is the life of one statistics file: rows are added to a
`ChunkAccumulator` (`AddRow`), `WriteStats` closes the last chunk and writes the
file, `LoadOneColumn` is the reader with all its rejections.

**`TableStore`** has the column files `cells`, the statistics files `statsFile`,
and per window `overrides` and `index`. `SaveOverrides` is a sequence of
actions, one per place where an I/O error or a crash can fall: `SkipColumn`,
`PatchColumn`, `RefreshStats`, `FinishSave`, and the failures `DataOpenFails`,
`DataWriteFails` (any subset of the patch reached the file), `StatsOpenFails`,
`StatsWriteFails`, `Crash`. Which failures may happen is the constant `Faults`.
`save` is the program counter of the one save that can be running: saves are on
the GUI thread. All windows read the same `cells`, as mappings of one file do.

**`EditableSheet`** is the promise: a durable sheet, what each window shows of
it, the cells a window has pending. Saving makes any subset of one window's
pending cells durable, and no window ever shows anything but its own edits over
the durable sheet; a crash loses only what was pending. `TableStore` is mapped
to it by `Sheet`; `SheetSpec` is checked as a property and proved.

**`FilteredView`** has the predicates `columnFilters`, the cached sets
`filterBits`, the view `filteredRows`, the mode, and the grid's own counts
`gridRows` and `gridCols`, which change only by the deltas that `Rebuild` and
`AddDerivedColumn` announce. A predicate is the set of values it matches; a
formula is a function of the base cells of a row. Handlers are single actions,
with the recomputation they end in.

**`FormulaEngine`** extends `FilteredView` with formulas as syntax trees, the
elements of `Nodes`; `Height` bounds how deep calls are nested in each, which is
all that the model knows of the trees being finite. `FoldTree` is the visitor of
the parser's variant: a recursive function on `Nodes` that gives each node the
results of its arguments; compiler and reference are two folds. `Compile` is the compiler: it goes bottom-up to a type and a function of the
row, resolves names through the column map, and folds an aggregate over a range
to a constant, from what the grid shows at that moment (`Aggregate`,
`ComputeColumnStats`, which clamps a range to the table and then again to the
view). `ComputeFormulaStats` is the statistics dialog's Compute, `AddFormula` a
derived column. Against it stands `Means`, which evaluates a tree value by value
with dynamic types and takes its rows from the set of matching rows, not from the
view. A name is a pair of stem and number, so that `D0` can be both a column's
label and the cell of column `D` in row 0; a text is its length, which is all
that LEN, LEFT, RIGHT, MID, CONCATENATE and the cut of a stored text depend on.

**`WriteBack`** has the user's `csv`, the `dataset`, what `source.txt` has
`recorded`, and one window's `edits`. `Stored` and `Printed` are the two
conversions between texts and values, given as functions so that they can be
many-to-one and need not be inverse. `save.step` follows `DoSave`;
`SaveOverrides` is one step here, with the outcomes `TableStore` shows it to
have. A fingerprint is the content it was taken from: equal checksums, and equal
size and time, are taken to mean equal contents. One CSV has one dataset: when
it no longer matches, opening it makes a new one and the old one is forgotten.
`MCWriteBack` counts the disturbances of a behaviour: faults, crashes and
writes by other programs.

**`CsvText`** is the same file character by character, and the reason why
`WriteBack` may take it as a sequence of records. `Read` is the importer's
reader, an automaton that `ReadUpTo` runs over the first characters, with the
offsets at which its records start; the loops are recursive functions of the
number of characters taken, so that they can be proved about; `InferTypes` and `StoredAs` are the importer;
`ScanCsvRecordStarts` is the scanner of the save, which only counts quotes;
`Export` prints the edited records (`AppendCsvRow`) and copies the others, or
prints everything if the scanner does not find one record per row and a header.
`WellFormed` is RFC 4180 as a third automaton, so that neither reader is taken
for the truth about the other. A file is typed one character at a time by
`Write`, then imported, edited and saved.

**`OpenFlow`** has the directories (`written`: what was imported into each;
`source`: its `source.txt`), the windows, and per loading window the place of
its loader thread. A directory is a pair of a file name and a number, as
`<name>_gigasheet_<n>` is. The search looks at the directories of the file's
name only, which is what `FindConvertedDirIf`'s prefix test does for names none
of which is a prefix of another. `InferTypes` is the pass after which the
directory comes into being, `WriteDataFiles` the rest of the import,
`WriteSourceInfo` its end; a cancellation is noticed in either pass. `joining`
is the window whose `OnClose` has the GUI thread waiting. A CSV does not change
while it is imported. With `Racing` files of one name may load at once.

**`OpenShared`** adds a history variable to it: `shared` holds the directories
that two imports have at one time chosen for their output, until nothing is left
of them. Its properties say what the code keeps when files of one name race.

**`GridSession`** is one window on an open table: the text in the open cell
editor, the text in the formula bar, the row under the cursor, the star in the
title. `SaveEditControlValue` is the commit that the grid, a lost focus, `DoSave`
and the end of an edit share; with a filter it rebuilds the view, so that another
row comes under the cursor. `doing` says whether `OnClose` is asking or an export
runs, and `thenClose` that the save belongs to a close. How a save fails inside
is `TableStore`'s and `WriteBack`'s.

**`FormulaField`** is the formula field with its popup: `text` and `caret` are
the text control's, `shown`, `tokenStart`, `current` and `sel` the popup's.
`Type` and `Erase` end in `RefreshPopup`; keys and clicks that only move the
caret (`MoveCaret`) tell the popup nothing, as in the code. `yylex` is a turn of
the scanner of `parser/expr.l`, with the numbers' exponents, since a name that
follows digits may be taken for one; `Tokens` is what it has found after as many
turns as there are characters, when it has reached the end. `Character` names the
characters the scanner tells apart, and those that are typed.

The `MC*` modules give the constants their values. In each module the operators
whose names have an underscore (`PatchColumn_KeepsIndex`) are plausible mistakes
in the code, one per property; `PROJECT.json` says which property each of them
must break.

## 4. The runs

| Run | What it shows |
|---|---|
| `stats_import` | Every import of up to five rows in chunks of two, so with zero to three chunks, full and partly filled: chunks are aligned, the file loads back, its records summarise their rows, and every range query under every set of edited rows answers what a scan does, with and without an index, and says rightly whether it used one. |
| `table_save` | One window, three rows in chunks of two (a full and a partly filled chunk), a numeric and a text column; column files may be unopenable, so saves are retried. Records in memory and on disk reflect the data; queries are exact between saves and during one, on every column but the one patched and not yet refreshed; saved columns hold no override, and the store implements `EditableSheet`. |
| `table_faults` | Two windows on one column of two one-row chunks, every failure and crash: the store still implements `EditableSheet`, and a window's sound index stays sound through all its own steps but a torn write of data. |
| `formulas` | Three rows, a numeric and a text column (whose label is the letter of the other), one derived column made from one of five formulas, predicates that match nothing, one value or two: caches, view, grid counts and modes are right, a row moves only if it was edited or the predicates changed, each of 21 formulas is answered for exactly the rows shown, and a new column shows its formula. About 63 thousand states. |
| `write_back` | Two columns, two rows, texts that are not printed as they were read, and up to two disturbances of any kind: until the first, every save reaches the CSV and the fingerprint recognises only a CSV the dataset mirrors; throughout, a save changes the CSV only by replacing it whole and only in captured rows, and captures every row it changes in the dataset. About 214 thousand states. |
| `csv_text` | Every file of up to four characters after each of four beginnings, two edits, saves between them: the scanner finds the reader's records in every RFC 4180 file, the saved file reads back as the dataset, records that were not edited keep their bytes, and no type turns a field into a default. About 276 thousand states. |
| `opening` | Two windows and two different files of one name, opened at once or after each other, with up to three directories, cancellation, failure and crash: imports come to share a directory only before it is created; a directory no two imports shared is whole, is shown for its own file, and is never lost to another window's cancelled import; every preview ends and closing returns. About 161 thousand states. |
| `grid_session` | Three rows, two values and a text that is refused, with the editor, the formula bar, changes of the view, failing saves, closing and the timer in every order. About 23 thousand states. |
| `formula_dialog` | Two characters typed or erased at any places of each of the field's initial texts, with every movement of caret and selection between them, accepting and dismissing any number of times. About 1.8 million states. |
| `write_back_retry`, `saves_elsewhere`, `other_delimiter` | Counterexamples, see section 7. |

Bounds. Chunks of one or two rows make chunk ends fall everywhere they can
relative to a range and to the end of the column; nothing in the code depends on
the chunk size but the position of those ends, and the proofs are for every
size. Two values are enough for a cell to be changed, changed back and changed
again. Two windows are enough for every interference in the code, which is
between a window and the files. Three directories per name (two in
`saves_elsewhere`) are enough for a name to be taken, freed by a cancelled import
and taken again, beside a complete dataset and a directory that is shared; the
bound is in the guard of `OpenPreview` and marked there. Files of different
names have different directories, so `opening` has one name. Two disturbances
(`MaxDisturbances`) are a fault and a second one while the program recovers from
it, which is where the retries are. Four characters (`MaxTyped` of `CsvText`)
after a beginning that already holds a header are a field with a quoted
character or a quoted line end, and more; `MaxText` and `MaxEdits` let a text be
cut, a row be edited twice and two rows once. Two typed characters (`MaxTyped`
of `FormulaField`) are a word and what follows or splits it, and accepting is
not bounded by it.

Deadlock is checked where the system cannot stop. It is not in `stats_import`,
whose single import ends with its file; in `opening`, where nothing is left to
do once the directory bound is reached and all windows are closed; in the runs
of `WriteBack`, whose window stays closed if the CSV has become empty and where
the bound on disturbances ends a behaviour; in those of `CsvText`, at the bounds
on characters and edits; in `grid_session` and `formula_dialog`, where the
window or the dialog closes.

## 5. Fairness

`OpenFlow` assumes: a loader thread that was started runs on (weak fairness of
its steps, where an import may also fail); `join` returns when the thread has
ended (weak); the event loop delivers `OnLoadDone` once it was posted. The last
is strong fairness: other handlers, and other windows' closing, make it
impossible again and again for a while, but the loop is a queue, so it is not
overtaken for ever. Nobody is assumed to open, close or cancel anything, and a
crash ends all windows. `LoadingEnds` and `GuiReturns` then say that every
preview ends, and that closing a window in the middle of an import does not
freeze the program although the GUI thread waits for a thread that hands its
result to the GUI thread.

`GridSession` assumes that the window's timer fires again and again as long as
the window is there (weak fairness of `OnTimer`): `memoryTimer` is started with
the window and repeats every second (`ui/spreadsheet_frame.cpp:534`), also while
a message box or the progress dialog runs its own event loop. `TitleCatchesUp`
needs it because some edits do not update the title themselves.

The other modules state no liveness: a user who never saves is none of the
program's failures, and a save runs to its end or dies.

## 6. The proofs

Eight modules hold theorems. Those about a state machine prove an inductive
invariant with one step per action, and the properties from it. The assumptions
are those named in the modules (`ChunkStatsAssumption`, `TableStoreAssumption`
and so on); TLC evaluates them in the runs.

Loops and trees are recursive functions, and a recursive function is a `CHOOSE`:
before anything can be said of it, it has to exist. `ScanLoop`, `TotalLoop` and
`FoldLoop` (loops) and `WalkExists` (trees) show that from approximations up to a
number of turns or a height, and unfold the function by one step. What a
recursion computes then follows by induction, which is first order here: a set
that holds 0 and successors holds the naturals (`SetInduction`, from the
library's minimal elements of well-founded relations), and a set that holds each
tree whose arguments it holds holds the trees (`TreeInduction`, on `Height`).

`ChunkStatsProofs`, for every column, chunk size, range and set of edited rows:
`ComputeStatsExact`. A query whose records are usable (each has the row count of
its chunk and, if the chunk is not dirty, summarises it) answers what `Reference`
says of the range. Merging a chunk's record is scanning its rows (`MergeScan`),
the chunk loop is a scan from the first row to the end of each chunk in turn
(`FoldChunkScans`), and a scan from nothing is the reference (`SummaryIsReference`).

`StatsIndexProofs`, for every chunk size, set of values and number of rows: the
importer's state keeps its type and chunks stay aligned (`ImportTypeOK`,
`ImportAligned`); the records it has closed summarise the rows they count and
the open chunk those since (`RecordsSound`), so that the file, loaded back,
summarises the column (`ImportRecordsSummarise`) and answers every query exactly,
under every set of edited rows (`ImportAnswersExact`). That theorem also says that
a query reports the use of the index exactly when there is one and some chunk lies
in the range with all its rows, none of them edited: the code tests a chunk's
number and the count in its record, and `IndexedChunk` shows that to be the same.

`TableStoreProofs`, for any number of windows, columns, rows and any chunk size:

- `TableTypeOK`: types, and that a refresh only runs on a column that has
  records.
- `TableSavedColumnsClean`: a save that moves on leaves no override behind.
- `TableInvariant`: the two together with `CountsExact` (each record holds the
  number of rows of its chunk, which is where `SaveOverrides` gets a chunk's rows
  from). This is the invariant the rest needs: that a refreshed record summarises
  the right rows depends on the count in the record it replaces.
- `TableSoundIndex`: under every fault, with any number of windows, a window's
  sound index stays sound through its own steps, torn data writes excepted.
- `TableReflectInv`, and from it `TableIndexReflectsDisk` and
  `TableStatsFileReflectsDisk`: for one window, with column files that may be
  unopenable and no other fault (`OneWindow`, `MildFaults`), the records in
  memory and on disk reflect the data. The invariant adds that an open window has
  records for every numeric column, which is what makes the refresh of the file
  follow every patch.
- `TableSoundAnswers`: under every fault and with any number of windows, a query
  on a column whose records reflect the file, or that has none, answers what the
  window shows, unsaved edits included. It holds between saves and at every point
  of one, but for a column that is patched and not yet refreshed, whose cleared
  chunks still have their old records. `TableQueriesExact`, from it and
  `TableReflectInv`, is the property of the run, for one window with `MildFaults`.
- `TableImplementsSheet`, the refinement, under every fault and with any number
  of windows.

In the refinement, opening, closing and editing map to the sheet's
actions of those names; a patch, whole or torn, maps to `PersistSome` (a whole
one forgets what it wrote, a torn one forgets nothing); a crash to `Crash`; every
other step of a save leaves the sheet as it is. The proof compares grids cell by
cell (`SameGrid`) and needs only the types.

`FormulaEngineProofs` begins with `FilteredView` alone, for any rows, columns,
values, predicates and formulas: `TypesKept`, `CachesStayExact`, `ViewStaysExact`, `GridStaysInSync`,
`NothingHiddenUnmarked` and `OthersNeverMove`. That listing a set of rows in
ascending order lists each of them once is proved by counting: the rank of a row
numbers the set from 0 (`RankNumbers`, by the library's pigeonhole facts).

It goes on with `FormulaEngine`, for any table, names, list of formulas of any
depth and any derived columns:

- `DialogAnswersAnyPart` and, for the parts the run asks about,
  `DialogAnswersShownRows`: over any part of the view, the dialog answers what
  the formula means at the rows shown there, and refuses it exactly when it means
  nothing. The heart is `CompilerAgrees`, by induction over the trees: at every
  row the compiled function and the direct evaluation have one type and one
  value, with a lemma per kind of node. The cases that took most are the
  aggregates, where the two name their rows in different ways: `AskedRows` shows
  that the compiler's two clampings leave the reference's rows, and `LookupsAgree`
  that, where `NamesAgree`, the two ways to look up a name find one column.
- `NewColumnsShowFormulas`: a new column has its formula's type and shows at every
  row, hidden ones too, what the formula means, a text cut to `MaxText`.
- `ViewKeptWithFormulas` and `OthersNeverMoveWithFormulas`: what `FilteredView`
  promises holds with formulas in the columns.

The invariant (`FormulaInv`) is `FilteredView`'s with a type and a formula for
every derived column; the view being exact is what makes the rows the dialog
reads those of the reference.

`WriteBackProofs`, for every CSV, pair of conversions and fault:
`SavedRowsCaptured`, `UneditedVerbatim` and `InSync`. The invariant says that while the
columns are saved every override is in a captured row (`Captured`), also after a
partial failure, and that the writer's checksum is of the file the export meant
to write (`Prepared`). `InSync` says that `InSyncUntilDisturbed` holds of every CSV and
every pair of conversions, however the values print. `InStep` says how far the CSV
mirrors the dataset at each step of a save: wholly before it; after the columns
are saved, outside the captured rows; then it is the file to be renamed that
mirrors it, and after the rename the CSV again.

`OpenFlowProofs`, for any number of windows, files and directories:
`OpenFlowTypeOK`, and, as long as no two files of one name load at once,
`SourcesAreWhole`, `WindowsShowOwn` and `OneDatasetEach`. The invariant says of every loader what it may still rely on: having found
nothing, that there is still nothing to find (`Converted` is empty until its own
`WriteSourceInfo`); having a directory, that it is named after its file, has no
`source.txt` and holds nothing but its own import. The step that needs the
assumption is opening a file, which must keep the names of the loading files
apart (`Apart`).

Without that assumption, so also for files of one name that race, it proves of
`OpenShared`:

- `OnlyUncreatedShared`: two imports come to share a directory only before either
  has created it, and only if their files have one name.
- `UnsharedAreWhole` and `WindowsShowUnshared`: a directory no two imports shared is
  a complete import if it has a `source.txt`, and a window that shows it shows its
  own file.
- `OwnOutputDiscarded`: a cancelled import removes a dataset that another window
  shows, or an import another loader is writing, only if two imports shared its
  directory. That it can do so then is in section 7.

The invariant (`SharedInv`) is the one above taken directory by directory, for
those outside `shared`: an import that has its directory to itself is the only one
that writes there, and a directory that exists is chosen by nobody else.
`NothingShared` says that without two files of one name at once `shared` stays
empty, and `ApartDiscardsOwn` concludes from it that then a cancelled import
removes nothing of another window at all (`DiscardsOwnOutput`).

`InterfaceProofs` extends the two modules of the interface. Of `GridSession`, for any rows and values:
`SessionTypeOK`, `NoUnaskedLoss` and `SavesCover`. The strengthening `ExportCovers`
says that nothing is unsaved while an export runs, which is why the close waiting
for it need not look again.

Of `FormulaField`, for any labels, functions and characters and texts of any length:

- `PopupOfTextAlways`: the popup is that of a word in the text. The invariant
  (`FieldInv`) adds that the caret it was filled at is a position of the text,
  which makes the place `Accept` writes to one.
- `AcceptAddsNameAlways`: a suggestion accepted at its word's end is scanned as its
  name, and everything around it as before. Two lemmas carry it. `TokensSplit`: if
  b does not end in a word and leaves no quote open, and y does not begin with a
  digit, the scanner finds in b followed by y the tokens of b and those of y. A
  turn of the scanner depends on nothing but the rest of the text, and a token that
  ends in b ends there whatever follows (`TokenStays`); the two ways this could
  fail are a word or a number that goes on, and a quote that y closes.
  `InsertReads`: what is inserted is scanned as the name, whatever follows, as no
  label holds a double quote (`QuotedReads`) and what follows does not continue a
  word (`WordReads`).

`CsvTextProofs`, for texts of any length over any characters, any tables and any
edits:

- `ScannerFindsRecords` and `ScannerAgreesAlways`: in a text that is RFC 4180, with
  any delimiter, the save's scanner finds the records where the reader finds them.
  `Match` relates the three automata after every character (quotes counted,
  field open, state of RFC 4180, the offset where the current record began) and
  `MatchStep` keeps it over each. It says, for instance, that a quote which the
  reader still has to pair is one which the scanner has counted already.
- `ImportIsFaithful`: no field the reader found is silently a default. It needs
  only the types, and that a column is of integers only if all its fields are.
- `RowReads`: a printed row is one line, and read it is that row, whatever its texts
  hold. `PlainField` and `QuotedField` follow the reader through one field as
  `AppendCsvEscaped` prints it, `RowLayout` says where the fields stand.
- `CsvInSyncAlways` and `OtherRecordsStay`: the CSV of a saved dataset reads back as
  the dataset, and records not edited keep their bytes. The invariant is
  `CsvIsSaved`: from the import on, the CSV is RFC 4180 and reads as the column
  files. A save keeps it because a file can be taken apart and put together:
  where a record begins, the reader is as at the start of a file but for what it
  has collected (`BoundaryAll`), so it reads a piece of a text as it reads the
  piece alone (`ReadsAlike`); hence each record of a file is a record by itself
  (`PieceRecord`), and pieces that are records by themselves, all but the last
  ending with their line, read as those records when joined (`PiecesJoined`).

`RowReads` and the last two assume `Delimiter = Comma`: the code prints commas
whatever the delimiter was, and with another one both are false
(`other_delimiter` in section 7). They speak of RFC 4180 files only; what the
scanner and the reader make of others is left to TLC, which types those too.

Every invariant and every action property of the passing runs is stated by one of
these theorems. Only model-checked are the liveness properties (`LoadingEnds`,
`GuiReturns`, `TitleCatchesUp`), which are out of the prover's reach.

## 7. Where the code departs from its promises

With a run whose counterexample TLC prints:

- **A retried save does not reach the CSV** (`write_back_retry`). Columns saved
  before the failure have no overrides left, so the retry captures only the rest.
- **Saves go to another file** (`saves_elsewhere`). A copy of an imported file in
  another folder reuses the dataset together with the first file's path.
- **A semicolon file gets commas** (`other_delimiter`). The importer guesses the
  delimiter, the save always prints commas, and the printed row no longer reads
  back as the row it was.

Without a run, but with a model that shows them; the passing runs leave these
situations out, or except them in their properties:

- A torn patch and an edit typed back. After a failed write some cells hold the
  new value under a kept override; typing that value again equals the file, so
  the override is erased, the chunk is no longer dirty, and its old record
  answers (`QueriesExact`, with `Faults = {"dataWrite"}` in `MCTableStore.cfg`).
- A short write replaces the CSV: the stream that fails is not the stream that is
  tested (`WrittenBack`, with `Faults = {"shortWrite"}` in
  `MCWriteBackRetry.cfg`).
- Two files of one name at once. The directory's name is chosen before a pass over
  the whole CSV and the directory is created after it, so two imports can share
  one; if both go on, a window shows the other's file (`OwnDataset`). If one of
  them is cancelled in that pass, it removes what the other is writing, or later
  the dataset the other shows, and not "the partial output" of its own
  (`ui/spreadsheet_frame.cpp:616`, `DiscardsOwnOutput`). TLC finds both with
  `Racing = TRUE` and the definition as the property of `MCSavesElsewhere.cfg`. What
  holds of directories that are not shared is checked in `opening`; `~Racing` is
  the assumption of the theorems about `OpenFlow` itself.
- An unopenable statistics file, or a crash before it is rewritten, leaves an
  outdated file that the next window trusts (`StatsFileReflectsDisk`, with
  `Faults = {"statsOpen"}`); a second window's records are outdated after the
  first one saved (`IndexReflectsDisk`, with two windows).
- A CSV that another program changed while the dataset is open is spliced into
  and recorded as this dataset's, and an export that fails leaves the old
  fingerprint on a CSV that lacks the edits, as the program warns: so
  `InSyncUntilDisturbed` ends with the first disturbance.
- A label that is the letter of a later column is one column in a compiled formula,
  where the last name registered wins (`MapColumn`), and another in an aggregate
  or on its own, where labels do (`FindColumn`), although a comment says the two
  match (`model/mmapped_table.hpp:181`): so `AnswersShownRows` assumes `NamesAgree`.
- Saving and closing ask for unsaved changes before the open editor is committed
  (`ui/spreadsheet_frame.cpp:895`, `:959`): with nothing else unsaved, Save says
  there is nothing to save, and the window closes, over what is in the editor.
  `SaveCoversSession` is therefore about saves that get past their early return,
  and `ClosesWithConsent` about overrides.
- Enter in the formula bar writes the text shown there to the row now under the
  cursor, also when a filter has moved another row there since (`OnFormulaEnter`).
- A suggestion accepted after the caret was moved away from its word, or inside
  an open quote, does not insert the name it shows; a label with a double quote
  in it cannot be written in a formula at all (`AcceptAddsName`,
  `FieldAssumption`).
- The row numbers of a range count the rows of the view, while the grid's row
  labels show the table's: a range over a filtered view names the rows by their
  position (`RowsOfView`). The model follows the code, and so does its reference.

## 8. What is not modelled

- The grammar's precedences: the parser is generated from `parser/expr.y`;
  formulas are syntax trees here.
- Division and the transcendental functions, and everything else that needs
  fractions: values are integers.
- The digits of doubles: a re-serialised row may differ from its text
  (`Printed` in `WriteBack`), but that a neighbour's edit can cost a double its
  last digits, or that an untouched Enter on one writes its six-decimal text back
  as an edit, is not a property.
- The importer's guess of the delimiter (a constant of `CsvText`), byte order
  marks, and the buffering of rows.
- A CSV that changes during its own import (`ui/spreadsheet_frame.cpp:599`): the
  fingerprint's parts would be of different contents. A `source.txt` cut off by a
  crash counts as missing; one cut after its second line, which the code still
  reads, is not modelled.
- Switching the filtering mode with the cell editor open; several windows in one
  session model.
- The preview's rows, the empty launcher window, the wording and timing of the
  statistics dialog, appearance, column widths and memory usage keep no state a
  property could be about. CRC-32 is taken as a fingerprint that identifies the
  content.
