------------------------------ MODULE GridSession ------------------------------
(***************************************************************************)
(* One window's session on an open table (ui/spreadsheet_frame.cpp): the   *)
(* grid's cell editor, the formula bar, the star in the title, saving and  *)
(* closing.  The cells are those of one column; a value differs from the   *)
(* column file's where there is an override.  Which rows a filter shows is *)
(* FilteredView's business: here a change of the view puts any row, or     *)
(* none, under the cursor.  How a save fails inside is TableStore's and    *)
(* WriteBack's.                                                            *)
(*                                                                         *)
(* The grid and its editor are the toolkit's: the editor commits when the  *)
(* grid ends it or loses the focus.  The window's buttons are static texts *)
(* that take no focus, so Save runs with the editor open.                  *)
(***************************************************************************)
EXTENDS Integers, FiniteSets

CONSTANTS Rows,     \* underlying rows
          Values,   \* what a cell may hold
          Junk,     \* a text SetValue refuses
          NoRow,    \* the cursor is on no row
          NoEditor  \* the cell editor is closed

ASSUME SessionAssumption == Junk \notin Values /\ NoRow \notin Rows /\ NoEditor \notin Values \cup {Junk}

VARIABLES disk,     \* the column file
          cells,    \* what the table shows
          filtered, \* IsFiltered
          cursor,  \* the row under the grid cursor
          editor,   \* the text in the open cell editor that it has not committed yet
          bar,      \* the text in the formula bar
          star,     \* the title says "unsaved"
          doing,    \* "idle", "asking" (OnClose's question), "exporting" (DoSave), "closed"
          thenClose, \* the save was started by OnClose
          consent   \* history: the user declined to save, or nobody could be asked

vars == <<disk, cells, filtered, cursor, editor, bar, star, doing, thenClose, consent>>

Texts   == Values \cup {Junk}
Unsaved == {r \in Rows : cells[r] # disk[r]}

Init ==
    /\ disk \in [Rows -> Values]
    /\ cells = disk
    /\ filtered = FALSE
    /\ cursor = NoRow
    /\ editor = NoEditor
    /\ bar = Junk
    /\ star = FALSE
    /\ doing = "idle"
    /\ thenClose = FALSE
    /\ consent = FALSE

\* SetValue at the cursor; what it refuses changes nothing.
SetCell(text) ==
    cells' = IF cursor \in Rows /\ text \in Values THEN [cells EXCEPT ![cursor] = text] ELSE cells

UpdateStatus_OnlyAdds == star' = (star \/ \E r \in Rows : cells'[r] # disk[r])   \* mutant: the star stays

\* UpdateStatus: the title is starred while an override is pending.
UpdateStatus == star' = \E r \in Rows : cells'[r] # disk[r]

\* With a filter the view is rebuilt after an edit: another row, or none, may
\* come under the cursor.
RebuildView == cursor' \in IF filtered THEN Rows \cup {NoRow} ELSE {cursor}

\* The editor holds something that changes the cell.
Typed == editor # NoEditor /\ cursor \in Rows /\ editor # cells[cursor]

\* The editor commits; RecomputeFiltersAfterEdit brings the title up to date
\* only if there is a filter.
SaveEditControlValue ==
    /\ editor' = NoEditor
    /\ IF Typed THEN SetCell(editor) /\ RebuildView ELSE UNCHANGED <<cells, cursor>>

RecomputeFiltersAfterEdit == IF Typed /\ filtered THEN UpdateStatus ELSE UNCHANGED star
-------------------------------------------------------------------------------
OnGridSelectCell(r) ==
    /\ doing = "idle"
    /\ editor = NoEditor
    /\ cursor' = r
    /\ bar' = cells[r]
    /\ UNCHANGED <<disk, cells, filtered, editor, star, doing, thenClose, consent>>

\* Typing into the cell under the cursor opens its editor.
TypeInCell(text) ==
    /\ doing = "idle"
    /\ cursor \in Rows
    /\ editor' = text
    /\ UNCHANGED <<disk, cells, filtered, cursor, bar, star, doing, thenClose, consent>>

\* The grid ends the edit, also when a message box takes the focus.
EndEdit ==
    /\ doing \in {"idle", "asking"}
    /\ editor # NoEditor
    /\ SaveEditControlValue
    /\ RecomputeFiltersAfterEdit
    /\ UNCHANGED <<disk, filtered, bar, doing, thenClose, consent>>

CancelEdit ==
    /\ doing = "idle"
    /\ editor # NoEditor
    /\ editor' = NoEditor
    /\ UNCHANGED <<disk, cells, filtered, cursor, bar, star, doing, thenClose, consent>>

\* Typing into the formula bar, whose focus has ended the edit.
TypeInBar(text) ==
    /\ doing = "idle"
    /\ editor = NoEditor
    /\ bar' = text
    /\ UNCHANGED <<disk, cells, filtered, cursor, editor, star, doing, thenClose, consent>>

\* OnFormulaEnter: the bar's text, typed or not, goes to the row now under the
\* cursor, and stays in the bar.
OnFormulaEnter ==
    /\ doing = "idle"
    /\ editor = NoEditor
    /\ cursor \in Rows
    /\ SetCell(bar)
    /\ RebuildView
    /\ UpdateStatus
    /\ UNCHANGED <<disk, filtered, editor, bar, doing, thenClose, consent>>

\* The filter popup and the filtering mode.
ChangeView ==
    /\ doing = "idle"
    /\ editor = NoEditor
    /\ filtered' \in BOOLEAN
    /\ cursor' \in Rows \cup {NoRow}
    /\ UNCHANGED <<disk, cells, editor, bar, doing, thenClose, consent>>
    /\ UpdateStatus

\* OnTimer, every second, also while a message box or the loading screen is up.
OnTimer ==
    /\ doing # "closed"
    /\ UNCHANGED <<disk, cells, filtered, cursor, editor, bar, doing, thenClose, consent>>
    /\ UpdateStatus
-------------------------------------------------------------------------------
DoSave_SkipsEditor ==   \* mutant: the open editor is not committed
    /\ Unsaved # {}
    /\ doing' = "exporting"
    /\ thenClose' = (doing = "asking")
    /\ disk' = cells
    /\ UNCHANGED <<cells, cursor, star, filtered, editor, bar, consent>>

\* DoSave with something to save, up to the export: the editor commits before the
\* overrides are written.
DoSave ==
    /\ Unsaved # {}
    /\ doing' = "exporting"
    /\ thenClose' = (doing = "asking")
    /\ SaveEditControlValue
    /\ RecomputeFiltersAfterEdit
    /\ disk' = cells'
    /\ UNCHANGED <<filtered, bar, consent>>

\* SaveOverrides fails: DoSave returns false, and a close is vetoed.
SaveFails ==
    /\ doing \in {"idle", "asking"}
    /\ Unsaved # {}
    /\ SaveEditControlValue
    /\ UpdateStatus
    /\ doing' = "idle"
    /\ UNCHANGED <<disk, filtered, bar, thenClose, consent>>

OnSave == doing = "idle" /\ DoSave

FinishSave_Stays ==     \* mutant: the close that asked for the save is forgotten
    /\ doing = "exporting"
    /\ doing' = "idle"
    /\ UNCHANGED <<disk, cells, filtered, cursor, editor, bar, star, thenClose, consent>>

\* DoSave after the export, whether or not that worked.
FinishSave ==
    /\ doing = "exporting"
    /\ doing' = IF thenClose THEN "closed" ELSE "idle"
    /\ UNCHANGED <<disk, cells, filtered, cursor, editor, bar, thenClose, consent>>
    /\ UpdateStatus

\* OnClose without a question: nothing is unsaved, or nobody may veto.
CloseUnasked(canVeto) ==
    /\ doing = "idle"
    /\ Unsaved = {} \/ ~canVeto
    /\ doing' = "closed"
    /\ consent' = ~canVeto
    /\ UNCHANGED <<disk, cells, filtered, cursor, editor, bar, star, thenClose>>

AskBeforeClosing ==
    /\ doing = "idle"
    /\ Unsaved # {}
    /\ doing' = "asking"
    /\ UNCHANGED <<disk, cells, filtered, cursor, editor, bar, star, thenClose, consent>>

AnswerYes_Regardless == \* mutant: the window closes even if the save fails
    /\ doing = "asking"
    /\ \/ DoSave
       \/ /\ doing' = "closed"
          /\ UNCHANGED <<disk, cells, filtered, cursor, editor, bar, star, thenClose, consent>>

\* Yes saves, and closes at once if there is nothing left to save.
AnswerYes ==
    /\ doing = "asking"
    /\ \/ DoSave
       \/ /\ Unsaved = {}
          /\ doing' = "closed"
          /\ UNCHANGED <<disk, cells, filtered, cursor, editor, bar, star, thenClose, consent>>

AnswerNo ==
    /\ doing = "asking"
    /\ doing' = "closed"
    /\ consent' = TRUE
    /\ UNCHANGED <<disk, cells, filtered, cursor, editor, bar, star, thenClose>>

AnswerCancel ==
    /\ doing = "asking"
    /\ doing' = "idle"
    /\ UNCHANGED <<disk, cells, filtered, cursor, editor, bar, star, thenClose, consent>>

Next ==
    \/ \E r \in Rows : OnGridSelectCell(r)
    \/ \E text \in Texts : TypeInCell(text) \/ TypeInBar(text)
    \/ EndEdit \/ CancelEdit
    \/ OnFormulaEnter
    \/ ChangeView
    \/ OnTimer
    \/ OnSave \/ SaveFails \/ FinishSave
    \/ \E canVeto \in BOOLEAN : CloseUnasked(canVeto)
    \/ AskBeforeClosing \/ AnswerYes \/ AnswerNo \/ AnswerCancel

\* The memory timer keeps firing.
Spec == Init /\ [][Next]_vars /\ WF_vars(OnTimer)
-------------------------------------------------------------------------------
TypeOK ==
    /\ disk \in [Rows -> Values]
    /\ cells \in [Rows -> Values]
    /\ filtered \in BOOLEAN
    /\ cursor \in Rows \cup {NoRow}
    /\ editor \in Texts \cup {NoEditor}
    /\ bar \in Texts
    /\ star \in BOOLEAN
    /\ doing \in {"idle", "asking", "exporting", "closed"}
    /\ thenClose \in BOOLEAN
    /\ consent \in BOOLEAN
    /\ thenClose => doing \in {"exporting", "closed"}

(* A save that gets past its early return leaves nothing behind: no override, *)
(* and not the value in the open editor either, wherever the filter has       *)
(* moved the cursor since ("commit any in-progress cell editor so its value   *)
(* is saved too", DoSave).                                                    *)
SaveCoversSession ==
    [][doing' = "exporting" /\ doing # "exporting" =>
          /\ Unsaved' = {}
          /\ cursor \in Rows /\ editor \in Values => disk'[cursor] = editor]_vars

(* A window goes away with edits only if its user declined to save them or    *)
(* could not be asked; one closed by saving has no edits left (OnClose).      *)
ClosesWithConsent == doing = "closed" => Unsaved = {} \/ consent

(* The title tells about unsaved edits, and stops telling, within the         *)
(* timer's period, however the edit was made (UpdateStatus).                  *)
TitleCatchesUp ==
    /\ Unsaved # {} ~> (star \/ Unsaved = {} \/ doing = "closed")
    /\ Unsaved = {} ~> (~star \/ Unsaved # {} \/ doing = "closed")
===============================================================================
