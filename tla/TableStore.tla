------------------------------ MODULE TableStore ------------------------------
(***************************************************************************)
(* A converted dataset and the windows editing it (model/                  *)
(* mmapped_table.cpp): the column files <col>.bin, the statistics files    *)
(* <col>.stats.bin, and for every window (one MmappedTable each) its       *)
(* sparse map of unsaved edits and its in-memory copy of the statistics.   *)
(*                                                                         *)
(* All windows map the same column files, so a patch written by one is     *)
(* read by all.  Everything here runs on the GUI thread of one process: a  *)
(* save is not interleaved with edits, but an I/O error or a crash can     *)
(* fall between any two of its steps, which are therefore actions.         *)
(***************************************************************************)
EXTENDS ChunkStats

CONSTANTS Windows,      \* the windows that may show the dataset
          NumCols,      \* numBaseCols
          NumRows,      \* rows
          NumericCols,  \* INT32 and DOUBLE columns; the others have no statistics
          Values,       \* what a cell may hold
          NoEdit,       \* the cell has no entry in the override map
          NoWindow,     \* no window is saving
          Faults        \* what may go wrong, see FaultKinds

FaultKinds == {"dataOpen", "dataWrite", "statsOpen", "statsWrite", "crash"}

ASSUME TableStoreAssumption ==
    /\ NumCols \in Nat
    /\ NumRows \in Nat
    /\ NumericCols \subseteq 0 .. NumCols - 1
    /\ Values \subseteq -Infinity .. Infinity
    /\ NoEdit \notin Values
    /\ NoWindow \notin Windows
    /\ Faults \subseteq FaultKinds

Cols   == 0 .. NumCols - 1
Rows   == 0 .. NumRows - 1
Chunks == {ChunkOf(r) : r \in Rows}

VARIABLES cells,        \* <col>.bin
          statsFile,    \* the records of <col>.stats.bin
          open,         \* windows that have the dataset open
          overrides,    \* per window: MmappedTable::overrides
          index,        \* per window: MmappedTable::statsIndex
          save          \* how far SaveOverrides has got, and for whom

vars == <<cells, statsFile, open, overrides, index, save>>

Untouched == [r \in Rows |-> NoEdit]

\* Where SaveOverrides is: the step, the window, the column, and the chunks of
\* that column whose records are still to be refreshed.
Progress(phase, w, c, dirty) == [phase |-> phase, window |-> w, col |-> c, dirty |-> dirty]
Idle == Progress("idle", NoWindow, 0, {})

ChunkRecord(column, chunk) ==
    Summarize(column, ChunkStart(chunk), ChunkLast(chunk, NumRows))

EditedRows(w, c) == {r \in Rows : overrides[w][c][r] # NoEdit}
HasUnsavedChanges(w) == \E c \in Cols : EditedRows(w, c) # {}

\* The column fn: the override map first, then the mapped file.
Shown(w, c) ==
    [r \in Rows |-> IF overrides[w][c][r] # NoEdit THEN overrides[w][c][r] ELSE cells[c][r]]

DirtyChunks(w, c) == {ChunkOf(r) : r \in EditedRows(w, c)}
HasChunkStats(w, c) == index[w][c] # NoRecords

\* The dataset as the importer leaves it, with no window on it yet.
Init ==
    /\ cells \in [Cols -> [Rows -> Values]]
    /\ statsFile = [c \in Cols |-> IF c \in NumericCols
                                   THEN [k \in Chunks |-> ChunkRecord(cells[c], k)]
                                   ELSE NoRecords]
    /\ open = {}
    /\ overrides = [w \in Windows |-> [c \in Cols |-> Untouched]]
    /\ index = [w \in Windows |-> [c \in Cols |-> NoRecords]]
    /\ save = Idle
-------------------------------------------------------------------------------
\* MmappedTable::MmappedTable: map the columns, load the statistics index.
OpenTable(w) ==
    /\ save = Idle
    /\ w \notin open
    /\ open' = open \cup {w}
    /\ index' = [index EXCEPT ![w] = statsFile]
    /\ UNCHANGED <<cells, statsFile, overrides, save>>

\* The window closes with nothing unsaved, or its user declines to save.
CloseTable(w) ==
    /\ save = Idle
    /\ w \in open
    /\ open' = open \ {w}
    /\ overrides' = [overrides EXCEPT ![w] = [c \in Cols |-> Untouched]]
    /\ index' = [index EXCEPT ![w] = [c \in Cols |-> NoRecords]]
    /\ UNCHANGED <<cells, statsFile, save>>

\* SetValue with a value the column's type accepts; typing the on-disk value
\* back reverts the cell.
SetValue(w, c, r, v) ==
    /\ save = Idle
    /\ w \in open
    /\ overrides' = [overrides EXCEPT ![w][c][r] = IF v = cells[c][r] THEN NoEdit ELSE v]
    /\ UNCHANGED <<cells, statsFile, open, index, save>>
-------------------------------------------------------------------------------
(* SaveOverrides, column by column. *)

BeginSave(w) ==
    /\ save = Idle
    /\ w \in open
    /\ HasUnsavedChanges(w)
    /\ save' = Progress("patch", w, 0, {})
    /\ UNCHANGED <<cells, statsFile, open, overrides, index>>

NextColumn == Progress("patch", save.window, save.col + 1, {})

RefreshColumn == Progress("refresh", save.window, save.col,
                          DirtyChunks(save.window, save.col))

Patching ==
    /\ save.phase = "patch"
    /\ save.col \in Cols
    /\ EditedRows(save.window, save.col) # {}

SkipColumn ==
    /\ save.phase = "patch"
    /\ save.col \in Cols
    /\ EditedRows(save.window, save.col) = {}
    /\ save' = NextColumn
    /\ UNCHANGED <<cells, statsFile, open, overrides, index>>

\* The overrides of `written` reach the file; the other rows keep their bytes.
Patched(written) ==
    [cells EXCEPT ![save.col] =
        [r \in Rows |-> IF r \in written THEN overrides[save.window][save.col][r]
                                         ELSE cells[save.col][r]]]

PatchColumn_KeepsIndex ==   \* mutant: the chunks are never marked for a refresh
    /\ Patching
    /\ cells' = Patched(EditedRows(save.window, save.col))
    /\ overrides' = [overrides EXCEPT ![save.window][save.col] = Untouched]
    /\ save' = NextColumn
    /\ UNCHANGED <<statsFile, open, index>>

PatchColumn_AlwaysRefreshes ==  \* mutant: forgets that text columns have no statistics
    /\ Patching
    /\ cells' = Patched(EditedRows(save.window, save.col))
    /\ overrides' = [overrides EXCEPT ![save.window][save.col] = Untouched]
    /\ save' = RefreshColumn
    /\ UNCHANGED <<statsFile, open, index>>

PatchColumn_KeepsOverrides ==   \* mutant: the saved overrides are not cleared
    /\ Patching
    /\ cells' = Patched(EditedRows(save.window, save.col))
    /\ save' = IF HasChunkStats(save.window, save.col)
               THEN RefreshColumn
               ELSE NextColumn
    /\ UNCHANGED <<statsFile, open, overrides, index>>

PatchColumn_ClearsAll ==    \* mutant: clears the overrides of every column
    /\ Patching
    /\ cells' = Patched(EditedRows(save.window, save.col))
    /\ overrides' = [overrides EXCEPT ![save.window] = [c \in Cols |-> Untouched]]
    /\ save' = IF HasChunkStats(save.window, save.col)
               THEN RefreshColumn
               ELSE NextColumn
    /\ UNCHANGED <<statsFile, open, index>>

\* Step 1: the column file is patched and the column's overrides are cleared.
PatchColumn ==
    /\ Patching
    /\ cells' = Patched(EditedRows(save.window, save.col))
    /\ overrides' = [overrides EXCEPT ![save.window][save.col] = Untouched]
    /\ save' = IF HasChunkStats(save.window, save.col)
               THEN RefreshColumn
               ELSE NextColumn
    /\ UNCHANGED <<statsFile, open, index>>

\* The column file cannot be opened: the save stops, the edits are kept.
DataOpenFails ==
    /\ "dataOpen" \in Faults
    /\ Patching
    /\ save' = Idle
    /\ UNCHANGED <<cells, statsFile, open, overrides, index>>

DataWriteFails_ForgetsEdits ==  \* mutant: clears the overrides before checking the write
    /\ "dataWrite" \in Faults
    /\ Patching
    /\ \E written \in SUBSET EditedRows(save.window, save.col) : cells' = Patched(written)
    /\ overrides' = [overrides EXCEPT ![save.window][save.col] = Untouched]
    /\ save' = Idle
    /\ UNCHANGED <<statsFile, open, index>>

\* Some of the patch is on disk when a write fails; the edits are kept.
DataWriteFails ==
    /\ "dataWrite" \in Faults
    /\ Patching
    /\ \E written \in SUBSET EditedRows(save.window, save.col) : cells' = Patched(written)
    /\ save' = Idle
    /\ UNCHANGED <<statsFile, open, overrides, index>>

\* The records of `chunks` recomputed by rescanning each through the column fn;
\* the rows of a chunk are found from its old record's count.
Refreshed(records, chunks) ==
    [k \in DOMAIN records |->
        IF k \in chunks
        THEN Summarize(Shown(save.window, save.col),
                       ChunkStart(k), ChunkEnd(k, index[save.window][save.col]))
        ELSE records[k]]

RefreshStats_MemoryOnly ==  \* mutant: the statistics file is not rewritten
    /\ save.phase = "refresh"
    /\ index' = [index EXCEPT ![save.window][save.col] = Refreshed(@, save.dirty)]
    /\ save' = NextColumn
    /\ UNCHANGED <<cells, statsFile, open, overrides>>

\* Step 2: the records of the edited chunks, in memory and on disk.
RefreshStats ==
    /\ save.phase = "refresh"
    /\ index' = [index EXCEPT ![save.window][save.col] = Refreshed(@, save.dirty)]
    /\ statsFile' = [statsFile EXCEPT ![save.col] = Refreshed(@, save.dirty)]
    /\ save' = NextColumn
    /\ UNCHANGED <<cells, open, overrides>>

StatsOpenFails_KeepsRecords ==  \* mutant: the column's records are not dropped
    /\ "statsOpen" \in Faults
    /\ save.phase = "refresh"
    /\ save' = Idle
    /\ UNCHANGED <<cells, statsFile, open, overrides, index>>

\* The statistics file cannot be opened: this window drops the column's records.
StatsOpenFails ==
    /\ "statsOpen" \in Faults
    /\ save.phase = "refresh"
    /\ index' = [index EXCEPT ![save.window][save.col] = NoRecords]
    /\ save' = Idle
    /\ UNCHANGED <<cells, statsFile, open, overrides>>

\* Some of the records are on disk when a write fails; the window drops them all.
StatsWriteFails ==
    /\ "statsWrite" \in Faults
    /\ save.phase = "refresh"
    /\ \E written \in SUBSET save.dirty :
          statsFile' = [statsFile EXCEPT ![save.col] = Refreshed(@, written)]
    /\ index' = [index EXCEPT ![save.window][save.col] = NoRecords]
    /\ save' = Idle
    /\ UNCHANGED <<cells, open, overrides>>

\* Every column has been saved.
FinishSave ==
    /\ save.phase = "patch"
    /\ save.col = NumCols
    /\ save' = Idle
    /\ UNCHANGED <<cells, statsFile, open, overrides, index>>

\* The process dies: the files keep what was written of the current step.
Crash ==
    /\ "crash" \in Faults
    /\ open # {}
    /\ IF Patching
       THEN \E written \in SUBSET EditedRows(save.window, save.col) : cells' = Patched(written)
       ELSE UNCHANGED cells
    /\ IF save.phase = "refresh"
       THEN \E written \in SUBSET save.dirty :
               statsFile' = [statsFile EXCEPT ![save.col] = Refreshed(@, written)]
       ELSE UNCHANGED statsFile
    /\ open' = {}
    /\ overrides' = [w \in Windows |-> [c \in Cols |-> Untouched]]
    /\ index' = [w \in Windows |-> [c \in Cols |-> NoRecords]]
    /\ save' = Idle

SaveStep == \/ SkipColumn     \/ PatchColumn     \/ DataOpenFails   \/ DataWriteFails
            \/ RefreshStats   \/ StatsOpenFails  \/ StatsWriteFails \/ FinishSave

Next == \/ \E w \in Windows : OpenTable(w) \/ CloseTable(w) \/ BeginSave(w)
        \/ \E w \in Windows, c \in Cols, r \in Rows, v \in Values : SetValue(w, c, r, v)
        \/ SaveStep
        \/ Crash

Spec == Init /\ [][Next]_vars
-------------------------------------------------------------------------------
\* A vector with a record for every chunk; a text column never has one.
IsVector(v) == DOMAIN v = Chunks

StatsFileOK ==
    /\ DOMAIN statsFile = Cols
    /\ \A c \in Cols : IF c \in NumericCols THEN IsVector(statsFile[c])
                                            ELSE statsFile[c] = NoRecords

IndexOK ==
    /\ DOMAIN index = Windows
    /\ \A w \in Windows :
          /\ DOMAIN index[w] = Cols
          /\ \A c \in Cols :
                HasChunkStats(w, c) => c \in NumericCols /\ IsVector(index[w][c])

SaveOK ==
    \/ save = Idle
    \/ save \in [phase : {"patch"}, window : open, col : 0 .. NumCols, dirty : {{}}]
    \/ /\ save \in [phase : {"refresh"}, window : open, col : NumericCols,
                    dirty : SUBSET Chunks]
       /\ HasChunkStats(save.window, save.col)

TypeOK ==
    /\ cells \in [Cols -> [Rows -> Values]]
    /\ open \subseteq Windows
    /\ overrides \in [Windows -> [Cols -> [Rows -> Values \cup {NoEdit}]]]
    /\ StatsFileOK
    /\ IndexOK
    /\ SaveOK

\* The chunks of column c whose records the save in progress has yet to refresh.
Refreshing(c) == IF save.phase = "refresh" /\ save.col = c THEN save.dirty ELSE {}

Reflects(records, c) ==
    records # NoRecords =>
        \A k \in Chunks \ Refreshing(c) : records[k] = ChunkRecord(cells[c], k)

(* The precomputed records of an open window reflect the data file - not    *)
(* the unsaved edits, and not an older file - for every chunk except the    *)
(* ones the running save has patched and not yet rescanned.  DirtyChunks    *)
(* relies on it: a chunk without unsaved edits is answered from its record. *)
IndexReflectsDisk ==
    \A w \in open, c \in NumericCols : Reflects(index[w][c], c)

(* The same for the statistics file, which the next window will load        *)
(* without looking at the data.                                             *)
StatsFileReflectsDisk ==
    \A c \in NumericCols : Reflects(statsFile[c], c)

(* Every range query of every open window answers what a scan of the cells  *)
(* that window shows would: "the grid, derived columns and statistics all   *)
(* see unsaved edits" (mmapped_table.hpp:197).  This is so between saves,   *)
(* and at every point of a save, finished or not, for each column but the   *)
(* one that is patched and not yet refreshed.                               *)
QueriesExact ==
    \A w \in open, c \in NumericCols : Refreshing(c) = {} =>
        \A first \in Rows : \A last \in first .. NumRows - 1 :
            ComputeStats(Shown(w, c), index[w][c], first, last, DirtyChunks(w, c)).result
                = Reference(Shown(w, c), first, last)

\* No other window is saving; and a write of the data stopped part-way.
OwnTurn(w) == save # Idle => save.window = w
TornWrite  == cells' # cells /\ save' = Idle

(* When a refresh of the statistics fails, the window that was saving never *)
(* answers from a wrong record afterwards ("full scans stay correct"): an   *)
(* index that reflects the data goes on reflecting it through everything    *)
(* its window does, whatever fails short of a torn write of the data.       *)
SoundIndexStaysSound ==
    [][\A w \in open \cap open', c \in NumericCols :
          OwnTurn(w) /\ ~TornWrite /\ Reflects(index[w][c], c)
              => Reflects(index[w][c], c)']_vars

(* A save that reaches a column has nothing left to write in the columns    *)
(* before it, and a column being refreshed has no override left: the caller *)
(* is told the save succeeded only when every edit is in its file.          *)
SavedColumnsClean ==
    save # Idle =>
        \A c \in Cols : (c < save.col \/ (c = save.col /\ save.phase = "refresh"))
                           => EditedRows(save.window, c) = {}

\* What the promise of the whole module is: see EditableSheet.
Sheet == INSTANCE EditableSheet WITH
    durable <- cells,
    shown   <- [w \in Windows |-> [c \in Cols |-> Shown(w, c)]],
    pending <- [w \in Windows |-> {x \in Cols \X Rows : x[2] \in EditedRows(w, x[1])}]

(* Saving, failing to save and crashing never change what the saving        *)
(* window shows, lose an edit that is not yet durable, or make another      *)
(* window show anything but its own edits over the file.                    *)
SheetSpec == Sheet!Spec
===============================================================================
