------------------------------- MODULE OpenFlow -------------------------------
(***************************************************************************)
(* Opening CSV files (ui/spreadsheet_frame.cpp): each window shows a       *)
(* preview while a loader thread of its own looks for a converted dataset  *)
(* or imports the CSV into a new directory, then asks the GUI thread,      *)
(* through CallAfter, to swap the dataset in.  Closing a window cancels    *)
(* its loader and makes the GUI thread wait for it.                        *)
(*                                                                         *)
(* The GUI thread runs one handler at a time, so a handler is one action,  *)
(* except OnClose, which blocks it until the loader has ended.  The loader *)
(* threads of several windows interleave, on a directory tree they share   *)
(* without locks.                                                          *)
(***************************************************************************)
EXTENDS Integers, FiniteSets

CONSTANTS Frames,     \* windows
          Files,      \* paths of CSV files
          Name,       \* [Files -> file names]
          Content,    \* [Files -> contents]
          NumDirs,    \* bound on <name>_gigasheet, <name>_gigasheet_1, ...
          NoDir, NoFile, NoSource, NoFrame,
          Racing      \* FALSE: no file is opened while another of its name loads

Dirs     == {Name[p] : p \in Files} \X (1 .. NumDirs)
Contents == {Content[p] : p \in Files}

ASSUME OpenFlowAssumption ==
    /\ DOMAIN Name = Files
    /\ DOMAIN Content = Files
    /\ NumDirs \in Nat
    /\ NoDir \notin Dirs
    /\ NoFile \notin Files
    /\ NoSource \notin [content : Contents, path : Files]
    /\ NoFrame \notin Frames
    /\ Racing \in BOOLEAN

VARIABLES written,   \* directory -> contents imported into it; absent ones have no entry
          source,    \* directory -> source.txt: the content its fingerprint is of,
                     \* and the path of the original CSV
          window,    \* frame -> "none", "loading", "loaded" or "failed"
          file,      \* frame -> the CSV it was opened for
          dir,       \* frame -> its dataset's directory (datasetDir)
          original,  \* frame -> the CSV its saves are mirrored to (originalCsvPath)
          loader,    \* frame -> where its loader thread is
          target,    \* frame -> the directory its loader imports into (importDir)
          cancel,    \* frame -> loaderCancel
          joining    \* the frame whose OnClose has the GUI thread waiting

dirs   == <<written, source>>
thread == <<loader, target, cancel>>
vars   == <<written, source, window, file, dir, original, loader, target, cancel, joining>>

Exists(d) == d \in DOMAIN written
GuiFree   == joining = NoFrame
Loading   == {f \in Frames : window[f] = "loading"}

\* FindConvertedDirIf: the directories named after p whose source.txt has its content.
Converted(p) == {d \in DOMAIN written : /\ d[1] = Name[p]
                                        /\ source[d] # NoSource
                                        /\ source[d].content = Content[p]}

\* OriginalCsvPathForDir
OriginalCsvPath(d) == IF source[d] = NoSource THEN NoFile ELSE source[d].path

Init ==
    /\ written = [d \in {} |-> {}]
    /\ source = [d \in Dirs |-> NoSource]
    /\ window = [f \in Frames |-> "none"]
    /\ file = [f \in Frames |-> NoFile]
    /\ dir = [f \in Frames |-> NoDir]
    /\ original = [f \in Frames |-> NoFile]
    /\ loader = [f \in Frames |-> "none"]
    /\ target = [f \in Frames |-> NoDir]
    /\ cancel = [f \in Frames |-> FALSE]
    /\ joining = NoFrame

MayOpen(f, p) ==
    /\ GuiFree
    /\ window[f] = "none"
    /\ Racing \/ \A g \in Loading : Name[file[g]] # Name[p]
    /\ file' = [file EXCEPT ![f] = p]
    /\ UNCHANGED <<dirs, joining>>

\* OnOpenCsv, fast path: size and time are those recorded with a dataset.
OpenConverted(f, p) ==
    /\ MayOpen(f, p)
    /\ \E d \in Converted(p) : /\ dir' = [dir EXCEPT ![f] = d]
                              /\ original' = [original EXCEPT ![f] = OriginalCsvPath(d)]
    /\ window' = [window EXCEPT ![f] = "loaded"]
    /\ UNCHANGED thread

\* OnOpenCsv otherwise: a preview, and StartBackgroundLoad.  The size and time may
\* differ although the content was converted before.
OpenPreview(f, p) ==
    /\ MayOpen(f, p)
    /\ Cardinality({d \in DOMAIN written : d[1] = Name[p]} \cup
                   {g \in Loading : Name[file[g]] = Name[p]}) < NumDirs     \* the bound
    /\ window' = [window EXCEPT ![f] = "loading"]
    /\ loader' = [loader EXCEPT ![f] = "find"]
    /\ cancel' = [cancel EXCEPT ![f] = FALSE]
    /\ target' = [target EXCEPT ![f] = NoDir]
    /\ UNCHANGED <<dir, original>>
-------------------------------------------------------------------------------
(* The loader thread of f. *)

At(f, here, next) == loader[f] = here /\ loader' = [loader EXCEPT ![f] = next]
Gui == <<window, file, dir, original, cancel, joining>>

FindDataset_AnyDirectory(f) ==  \* mutant: takes a directory without looking at source.txt
    /\ At(f, "find", "posted")
    /\ \E d \in DOMAIN written : target' = [target EXCEPT ![f] = d]
    /\ UNCHANGED <<dirs, Gui>>

\* FindConvertedDirByCrc found a dataset.
FindDataset(f) ==
    /\ At(f, "find", "posted")
    /\ \E d \in Converted(file[f]) : target' = [target EXCEPT ![f] = d]
    /\ UNCHANGED <<dirs, Gui>>

\* It found none.
FindNothing(f) ==
    /\ At(f, "find", "name")
    /\ Converted(file[f]) = {}
    /\ UNCHANGED <<dirs, target, Gui>>

MakeOutputDirectoryPath_Reuses(f) ==    \* mutant: no suffix, the first name is taken
    /\ At(f, "name", "infer")
    /\ target' = [target EXCEPT ![f] = <<Name[file[f]], 1>>]
    /\ UNCHANGED <<dirs, Gui>>

\* MakeOutputDirectoryPath: the first name no directory has; nothing is created.
MakeOutputDirectoryPath(f) ==
    /\ At(f, "name", "infer")
    /\ \E i \in 1 .. NumDirs :
          /\ ~Exists(<<Name[file[f]], i>>)
          /\ \A j \in 1 .. i - 1 : Exists(<<Name[file[f]], j>>)
          /\ target' = [target EXCEPT ![f] = <<Name[file[f]], i>>]
    /\ UNCHANGED <<dirs, Gui>>

\* ImportCsv: all types are inferred from a pass over the whole CSV; only then is
\* the directory created, unless it exists, and written to.
InferTypes(f) ==
    /\ At(f, "infer", "write")
    /\ written' = [d \in DOMAIN written \cup {target[f]} |->
                      (IF Exists(d) THEN written[d] ELSE {})
                          \cup (IF d = target[f] THEN {Content[file[f]]} ELSE {})]
    /\ UNCHANGED <<source, target, Gui>>

\* The data and statistics files are complete.  The directory may have gone.
WriteDataFiles(f) ==
    /\ At(f, "write", "source")
    /\ Exists(target[f])
    /\ written' = [written EXCEPT ![target[f]] = @ \cup {Content[file[f]]}]
    /\ UNCHANGED <<source, target, Gui>>

\* WriteSourceInfo; it does not say whether it could write.
WriteSourceInfo(f) ==
    /\ At(f, "source", "posted")
    /\ source' = IF Exists(target[f])
                 THEN [source EXCEPT ![target[f]] = [content |-> Content[file[f]],
                                                     path    |-> file[f]]]
                 ELSE source
    /\ UNCHANGED <<written, target, Gui>>

\* remove_all(importDir)
RemoveImport(f) ==
    /\ written' = [d \in DOMAIN written \ {target[f]} |-> written[d]]
    /\ source' = [source EXCEPT ![target[f]] = NoSource]

ImportCancelled_Silent(f) ==    \* mutant: returns without handing over a result
    /\ cancel[f]
    /\ At(f, loader[f], "none")
    /\ loader[f] \in {"infer", "write"}
    /\ RemoveImport(f)
    /\ target' = [target EXCEPT ![f] = NoDir]
    /\ UNCHANGED Gui

ImportCancelled_AlsoReused(f) ==    \* mutant: a reused dataset is discarded as well
    /\ cancel[f]
    /\ At(f, loader[f], "posted")
    /\ loader[f] \in {"infer", "write", "posted"}
    /\ RemoveImport(f)
    /\ target' = [target EXCEPT ![f] = NoDir]
    /\ UNCHANGED Gui

\* One of the loops over the rows noticed the cancellation: the output is discarded.
ImportCancelled(f) ==
    /\ cancel[f]
    /\ At(f, loader[f], "posted")
    /\ loader[f] \in {"infer", "write"}
    /\ RemoveImport(f)
    /\ target' = [target EXCEPT ![f] = NoDir]
    /\ UNCHANGED Gui

\* The import throws: whatever was written stays.
ImportFails(f) ==
    /\ At(f, loader[f], "error")
    /\ loader[f] \in {"infer", "write"}
    /\ UNCHANGED <<dirs, target, Gui>>

LoaderStep(f) == \/ FindDataset(f)    \/ FindNothing(f)     \/ MakeOutputDirectoryPath(f)
                 \/ InferTypes(f)     \/ WriteDataFiles(f)  \/ WriteSourceInfo(f)
                 \/ ImportCancelled(f)
-------------------------------------------------------------------------------
(* The GUI thread. *)

Ended(f) == loader[f] \in {"posted", "error"}

OnLoadDone_SwapsAnyway(f) ==    \* mutant: does not look at loaderError
    /\ GuiFree
    /\ window[f] = "loading"
    /\ Ended(f)
    /\ window' = [window EXCEPT ![f] = "loaded"]
    /\ dir' = [dir EXCEPT ![f] = IF loader[f] = "posted" THEN target[f] ELSE NoDir]
    /\ original' = [original EXCEPT ![f] = file[f]]
    /\ loader' = [loader EXCEPT ![f] = "none"]
    /\ target' = [target EXCEPT ![f] = NoDir]
    /\ UNCHANGED <<dirs, file, cancel, joining>>

\* OnLoadDone and FinishBackgroundLoad: the dataset replaces the preview, unless
\* the import failed or its directory cannot be opened.
OnLoadDone(f) ==
    /\ GuiFree
    /\ window[f] = "loading"
    /\ Ended(f)
    /\ LET opens == loader[f] = "posted" /\ target[f] # NoDir /\ Exists(target[f]) IN
       /\ window' = [window EXCEPT ![f] = IF opens THEN "loaded" ELSE "failed"]
       /\ dir' = [dir EXCEPT ![f] = IF opens THEN target[f] ELSE NoDir]
       /\ original' = [original EXCEPT ![f] = IF opens THEN OriginalCsvPath(target[f])
                                                      ELSE NoFile]
    /\ loader' = [loader EXCEPT ![f] = "none"]
    /\ target' = [target EXCEPT ![f] = NoDir]
    /\ UNCHANGED <<dirs, file, cancel, joining>>

Gone(f) ==
    /\ window' = [window EXCEPT ![f] = "none"]
    /\ file' = [file EXCEPT ![f] = NoFile]
    /\ dir' = [dir EXCEPT ![f] = NoDir]
    /\ original' = [original EXCEPT ![f] = NoFile]
    /\ loader' = [loader EXCEPT ![f] = "none"]
    /\ target' = [target EXCEPT ![f] = NoDir]
    /\ cancel' = [cancel EXCEPT ![f] = FALSE]

\* OnClose of a window whose loader was joined.
Close(f) ==
    /\ GuiFree
    /\ window[f] \in {"loaded", "failed"}
    /\ Gone(f)
    /\ UNCHANGED <<dirs, joining>>

\* OnClose of a loading window: cancel the loader, wait for it.
CloseLoading(f) ==
    /\ GuiFree
    /\ window[f] = "loading"
    /\ cancel' = [cancel EXCEPT ![f] = TRUE]
    /\ joining' = f
    /\ UNCHANGED <<dirs, window, file, dir, original, loader, target>>

Joined_WaitsForSwap(f) ==   \* mutant: waits for the swap CallAfter queued
    /\ joining = f
    /\ loader[f] = "none"
    /\ joining' = NoFrame
    /\ Gone(f)
    /\ UNCHANGED dirs

\* loaderThread.join() returns and the window goes.  The OnLoadDone still queued
\* for it sees `closing` and does nothing.
Joined(f) ==
    /\ joining = f
    /\ Ended(f)
    /\ joining' = NoFrame
    /\ Gone(f)
    /\ UNCHANGED dirs

\* The process dies: directories stay as they are.
Crash ==
    /\ \E f \in Frames : window[f] # "none"
    /\ window' = [f \in Frames |-> "none"]
    /\ file' = [f \in Frames |-> NoFile]
    /\ dir' = [f \in Frames |-> NoDir]
    /\ original' = [f \in Frames |-> NoFile]
    /\ loader' = [f \in Frames |-> "none"]
    /\ target' = [f \in Frames |-> NoDir]
    /\ cancel' = [f \in Frames |-> FALSE]
    /\ joining' = NoFrame
    /\ UNCHANGED dirs

Next ==
    \/ \E f \in Frames, p \in Files : OpenConverted(f, p) \/ OpenPreview(f, p)
    \/ \E f \in Frames : \/ LoaderStep(f) \/ ImportFails(f)
                         \/ OnLoadDone(f)
                         \/ Close(f) \/ CloseLoading(f) \/ Joined(f)
    \/ Crash

Spec == Init /\ [][Next]_vars

(* A started thread runs on, the event loop delivers what was posted to it  *)
(* in order (so the swap is not overtaken for ever by other handlers), and  *)
(* join returns once its thread has ended.  Nobody has to open or close.    *)
Fairness ==
    \A f \in Frames :
        /\ WF_vars(LoaderStep(f) \/ ImportFails(f))
        /\ SF_vars(OnLoadDone(f))
        /\ WF_vars(Joined(f))

FairSpec == Spec /\ Fairness
-------------------------------------------------------------------------------
TypeOK ==
    /\ DOMAIN written \subseteq Dirs
    /\ \A d \in DOMAIN written : written[d] \in (SUBSET Contents) \ {{}}
    /\ source \in [Dirs -> [content : Contents, path : Files] \cup {NoSource}]
    /\ \A d \in Dirs : source[d] # NoSource => Exists(d)
    /\ window \in [Frames -> {"none", "loading", "loaded", "failed"}]
    /\ file \in [Frames -> Files \cup {NoFile}]
    /\ dir \in [Frames -> Dirs \cup {NoDir}]
    /\ original \in [Frames -> Files \cup {NoFile}]
    /\ loader \in [Frames -> {"none", "find", "name", "infer", "write", "source",
                              "posted", "error"}]
    /\ target \in [Frames -> Dirs \cup {NoDir}]
    /\ cancel \in [Frames -> BOOLEAN]
    /\ joining \in Frames \cup {NoFrame}
    /\ \A f \in Frames : loader[f] # "none" <=> window[f] = "loading"
    /\ \A f \in Frames : dir[f] # NoDir <=> window[f] = "loaded"

\* The directory holds the whole import of one CSV of content c.
Whole(d, c) ==
    /\ Exists(d)
    /\ written[d] = {c}
    /\ \A f \in Frames : ~(loader[f] = "write" /\ target[f] = d)

(* A window that shows a dataset shows the one of the file it was opened    *)
(* for, complete, and nobody is writing into it.                            *)
OwnDataset == \A f \in Frames : window[f] = "loaded" => Whole(dir[f], Content[file[f]])

(* A directory that the search would find is a complete import of what its  *)
(* source.txt says: source.txt is written last (csv import, then            *)
(* WriteSourceInfo), so partial, failed and crashed imports are not found.  *)
SourceMeansWhole == \A d \in Dirs : source[d] # NoSource => Whole(d, source[d].content)

(* "Reuse an existing dataset with the same contents; otherwise import"     *)
(* (spreadsheet_frame.cpp:602): no content is converted twice under a name. *)
ConvertedOnce == \A p \in Files : Cardinality(Converted(p)) <= 1

(* The CSV that a window's saves are mirrored to is the one opened in it,   *)
(* "so reopening the edited file reuses this dataset"                       *)
(* (spreadsheet_frame.cpp:938).                                             *)
SavesToOpenedFile == \A f \in Frames : window[f] = "loaded" => original[f] = file[f]

(* "Window closed mid-import: discard the partial output": what disappears  *)
(* is never the dataset, or the unfinished import, of another window.       *)
DiscardsOwnOutput ==
    [][\A f \in Frames : \A d \in DOMAIN written \ DOMAIN written' :
          /\ dir[f] # d
          /\ target[f] = d /\ loader[f] \in {"write", "source", "posted"}
                 => target'[f] # d]_vars

(* Every preview ends: the dataset is swapped in, the failure is shown, or  *)
(* the window is gone.                                                      *)
LoadingEnds == \A f \in Frames : window[f] = "loading" ~> window[f] # "loading"

(* Closing a window that is still importing does not freeze the program.    *)
GuiReturns == ~GuiFree ~> GuiFree
===============================================================================
