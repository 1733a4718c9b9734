---------------------------- MODULE OpenFlowProofs ----------------------------
(***************************************************************************)
(* What opening files does to the shared directories and to the windows,   *)
(* for every number of windows, files and directories.  The theorems about *)
(* all directories' contents assume that no two files of one name are      *)
(* being loaded at once: without that they do not hold.  What holds        *)
(* without it, of the directories that no two imports share, is proved     *)
(* about OpenShared.                                                       *)
(***************************************************************************)
EXTENDS OpenShared, FiniteSetTheorems, TLAPS

Loaders == {"none", "find", "name", "infer", "write", "source", "posted", "error"}
Importing(f) == loader[f] \in {"infer", "write", "source"}

Typed ==
    /\ TypeOK
    /\ \A f \in Frames : window[f] # "none" => file[f] \in Files
    /\ \A f \in Frames : Importing(f) => target[f] # NoDir

LEMMA InitTyped == Init => Typed
<1> SUFFICES ASSUME Init PROVE Typed
  OBVIOUS
<1>1. DOMAIN written = {}
  BY DEF Init
<1> QED
  BY <1>1 DEF Init, Typed, TypeOK, Importing

LEMMA ConvertedDirs ==
    ASSUME TypeOK, NEW p \in Files, NEW d \in Converted(p)
    PROVE  /\ d \in Dirs /\ Exists(d)
           /\ d[1] = Name[p]
           /\ source[d] # NoSource /\ source[d].content = Content[p]
  BY DEF TypeOK, Converted, Exists

LEMMA ContentsTyped == ASSUME NEW p \in Files PROVE Content[p] \in Contents
  BY DEF Contents

LEMMA NewDirTyped ==
    ASSUME NEW p \in Files, NEW i \in 1 .. NumDirs
    PROVE  <<Name[p], i>> \in Dirs /\ <<Name[p], i>> # NoDir
  BY OpenFlowAssumption DEF Dirs

\* A step of the loader that leaves the directories as they are.
LEMMA LoaderMovesTyped ==
    ASSUME Typed, NEW f \in Frames, NEW next \in Loaders \ {"none"},
           loader[f] # "none", loader' = [loader EXCEPT ![f] = next],
           NEW d \in Dirs \cup {NoDir}, target' = [target EXCEPT ![f] = d],
           next \in {"infer", "write", "source"} => d # NoDir,
           UNCHANGED <<dirs, Gui>>
    PROVE  Typed'
  BY DEF Typed, TypeOK, Importing, Loaders, dirs, Gui, Exists

LEMMA LoaderTyped ==
    ASSUME Typed, NEW f \in Frames, LoaderStep(f) \/ ImportFails(f)
    PROVE  Typed'
<1> USE OpenFlowAssumption DEF At
<1>1. loader \in [Frames -> Loaders] /\ target \in [Frames -> Dirs \cup {NoDir}]
  BY DEF Typed, TypeOK, Loaders
<1>2. loader[f] # "none" => file[f] \in Files
  BY DEF Typed, TypeOK
<1>3. target' = target => target' = [target EXCEPT ![f] = target[f]]
  BY <1>1
<1>4. CASE FindDataset(f)
  <2>1. PICK d \in Converted(file[f]) : target' = [target EXCEPT ![f] = d]
    BY <1>4 DEF FindDataset
  <2>2. d \in Dirs
    BY <1>4, <1>2, <2>1, ConvertedDirs DEF FindDataset, Typed
  <2> QED
    BY <1>4, <2>1, <2>2, LoaderMovesTyped DEF FindDataset, Loaders
<1>5. CASE FindNothing(f)
  <2> DEFINE d == target[f]
  <2>1. d \in Dirs \cup {NoDir} /\ target' = [target EXCEPT ![f] = d]
    BY <1>1, <1>3, <1>5 DEF FindNothing
  <2>2. /\ loader' = [loader EXCEPT ![f] = "name"] /\ loader[f] # "none"
        /\ UNCHANGED <<dirs, Gui>>
    BY <1>5 DEF FindNothing
  <2>3. "name" \in Loaders \ {"none"} /\ "name" \notin {"infer", "write", "source"}
    BY DEF Loaders
  <2> HIDE DEF d
  <2> QED
    BY <2>1, <2>2, <2>3, LoaderMovesTyped
<1>6. CASE MakeOutputDirectoryPath(f)
  <2>1. PICK i \in 1 .. NumDirs : target' = [target EXCEPT ![f] = <<Name[file[f]], i>>]
    BY <1>6 DEF MakeOutputDirectoryPath
  <2> DEFINE d == <<Name[file[f]], i>>
  <2>2. d \in Dirs /\ d # NoDir
    BY <1>6, <1>2, NewDirTyped DEF MakeOutputDirectoryPath
  <2>3. target' = [target EXCEPT ![f] = d]
    BY <2>1
  <2> HIDE DEF d
  <2> QED
    BY <1>6, <2>2, <2>3, LoaderMovesTyped DEF MakeOutputDirectoryPath, Loaders
<1>7. ASSUME Importing(f), NEW next \in {"write", "source", "posted"},
             loader' = [loader EXCEPT ![f] = next],
             target' = target, UNCHANGED Gui,
             DOMAIN written' = DOMAIN written \cup {target[f]},
             \A d \in DOMAIN written' : written'[d] \in (SUBSET Contents) \ {{}},
             source' \in [Dirs -> [content : Contents, path : Files] \cup {NoSource}],
             \A d \in Dirs : source'[d] # NoSource => d \in DOMAIN written'
      PROVE  Typed'
  BY <1>7, <1>1 DEF Typed, TypeOK, Importing, Gui, Exists
<1>8. CASE InferTypes(f)
  <2>1. Importing(f) /\ Content[file[f]] \in Contents
    BY <1>8, <1>2, ContentsTyped DEF InferTypes, Importing
  <2>2. /\ DOMAIN written' = DOMAIN written \cup {target[f]}
        /\ \A d \in DOMAIN written' : written'[d] \in (SUBSET Contents) \ {{}}
    BY <1>8, <2>1 DEF InferTypes, Typed, TypeOK, Exists
  <2>3. /\ source' = source /\ target' = target /\ UNCHANGED Gui
        /\ loader' = [loader EXCEPT ![f] = "write"]
    BY <1>8 DEF InferTypes
  <2>4. /\ source' \in [Dirs -> [content : Contents, path : Files] \cup {NoSource}]
        /\ \A d \in Dirs : source'[d] # NoSource => d \in DOMAIN written'
    BY <2>2, <2>3 DEF Typed, TypeOK, Exists
  <2> QED
    BY <1>7, <2>1, <2>2, <2>3, <2>4
<1>9. CASE WriteDataFiles(f)
  <2>1. Importing(f) /\ Content[file[f]] \in Contents
    BY <1>9, <1>2, ContentsTyped DEF WriteDataFiles, Importing
  <2>2. /\ DOMAIN written' = DOMAIN written \cup {target[f]}
        /\ \A d \in DOMAIN written' : written'[d] \in (SUBSET Contents) \ {{}}
    <3> DEFINE more == written[target[f]] \cup {Content[file[f]]}
    <3>1. /\ target[f] \in DOMAIN written
          /\ written' = [written EXCEPT ![target[f]] = more]
      BY <1>9 DEF WriteDataFiles, Exists
    <3>2. more \in (SUBSET Contents) \ {{}}
      BY <2>1, <3>1 DEF Typed, TypeOK
    <3>3. \A d \in DOMAIN written : written[d] \in (SUBSET Contents) \ {{}}
      BY DEF Typed, TypeOK
    <3> HIDE DEF more
    <3>4. DOMAIN written' = DOMAIN written
      BY <3>1
    <3>5. ASSUME NEW d \in DOMAIN written
          PROVE  written'[d] \in (SUBSET Contents) \ {{}}
      <4>1. CASE d = target[f]
        BY <4>1, <3>1, <3>2
      <4>2. CASE d # target[f]
        <5>1. written'[d] = written[d]
          BY <4>2, <3>1
        <5> QED
          BY <5>1, <3>3
      <4> QED
        BY <4>1, <4>2
    <3> QED
      BY <3>1, <3>4, <3>5
  <2>3. /\ source' = source /\ target' = target /\ UNCHANGED Gui
        /\ loader' = [loader EXCEPT ![f] = "source"]
    BY <1>9 DEF WriteDataFiles
  <2>4. /\ source' \in [Dirs -> [content : Contents, path : Files] \cup {NoSource}]
        /\ \A d \in Dirs : source'[d] # NoSource => d \in DOMAIN written'
    BY <2>2, <2>3 DEF Typed, TypeOK, Exists
  <2> QED
    BY <1>7, <2>1, <2>2, <2>3, <2>4
<1>10. CASE WriteSourceInfo(f)
  <2>1. /\ Importing(f) /\ Content[file[f]] \in Contents /\ file[f] \in Files
        /\ target[f] \in Dirs
    BY <1>10, <1>1, <1>2, ContentsTyped DEF WriteSourceInfo, Importing, Typed
  <2>2. source' \in [Dirs -> [content : Contents, path : Files] \cup {NoSource}]
    BY <1>10, <2>1 DEF WriteSourceInfo, Typed, TypeOK
  <2>3. \A d \in Dirs : source'[d] # NoSource => d \in DOMAIN written
    BY <1>10, <2>1 DEF WriteSourceInfo, Typed, TypeOK, Exists
  <2> QED
    BY <1>10, <2>1, <2>2, <2>3 DEF WriteSourceInfo, Typed, TypeOK, Importing, Gui, Exists
<1>11. CASE ImportCancelled(f)
  <2>1. Importing(f) /\ target[f] \in Dirs
    BY <1>11, <1>1 DEF ImportCancelled, Importing, Typed
  <2> QED
    BY <1>11, <2>1 DEF ImportCancelled, RemoveImport, Typed, TypeOK, Importing, Gui, Exists
<1>12. CASE ImportFails(f)
  <2> DEFINE d == target[f]
  <2>1. d \in Dirs \cup {NoDir} /\ target' = [target EXCEPT ![f] = d]
    BY <1>1, <1>3, <1>12 DEF ImportFails
  <2>2. /\ loader' = [loader EXCEPT ![f] = "error"] /\ loader[f] # "none"
        /\ UNCHANGED <<dirs, Gui>>
    BY <1>12 DEF ImportFails
  <2>3. "error" \in Loaders \ {"none"} /\ "error" \notin {"infer", "write", "source"}
    BY DEF Loaders
  <2> HIDE DEF d
  <2> QED
    BY <2>1, <2>2, <2>3, LoaderMovesTyped
<1> QED
  BY <1>4, <1>5, <1>6, <1>8, <1>9, <1>10, <1>11, <1>12 DEF LoaderStep

\* The GUI thread's handlers leave the directories as they are.
LEMMA GuiTyped ==
    ASSUME Typed, NEW f \in Frames,
           \/ \E p \in Files : OpenConverted(f, p) \/ OpenPreview(f, p)
           \/ OnLoadDone(f) \/ Close(f) \/ CloseLoading(f) \/ Joined(f)
    PROVE  Typed'
<1> USE OpenFlowAssumption DEF dirs, Exists
<1>1. \A d \in Dirs : OriginalCsvPath(d) \in Files \cup {NoFile}
  BY DEF OriginalCsvPath, Typed, TypeOK
<1>2. ASSUME NEW p \in Files, OpenConverted(f, p)
      PROVE  Typed'
  <2>1. PICK d \in Converted(p) : /\ dir' = [dir EXCEPT ![f] = d]
                                  /\ original' = [original EXCEPT ![f] = OriginalCsvPath(d)]
    BY <1>2 DEF OpenConverted
  <2>2. d \in Dirs /\ OriginalCsvPath(d) \in Files \cup {NoFile}
    BY <1>1, ConvertedDirs DEF Typed
  <2> QED
    BY <1>2, <2>1, <2>2 DEF OpenConverted, MayOpen, thread, Typed, TypeOK, Importing
<1>3. ASSUME NEW p \in Files, OpenPreview(f, p)
      PROVE  Typed'
  BY <1>3 DEF OpenPreview, MayOpen, Typed, TypeOK, Importing
<1>4. CASE OnLoadDone(f)
  <2> DEFINE opens == loader[f] = "posted" /\ target[f] # NoDir /\ Exists(target[f])
             d == IF opens THEN target[f] ELSE NoDir
             o == IF opens THEN OriginalCsvPath(target[f]) ELSE NoFile
  <2>1. d \in Dirs \cup {NoDir} /\ (d # NoDir <=> opens) /\ o \in Files \cup {NoFile}
    BY <1>1 DEF Typed, TypeOK
  <2>2. /\ window' = [window EXCEPT ![f] = IF opens THEN "loaded" ELSE "failed"]
        /\ dir' = [dir EXCEPT ![f] = d]
        /\ original' = [original EXCEPT ![f] = o]
    BY <1>4 DEF OnLoadDone
  <2> HIDE DEF opens, d, o
  <2> QED
    BY <1>4, <2>1, <2>2 DEF OnLoadDone, Typed, TypeOK, Importing
<1>5. ASSUME Gone(f), joining' \in {joining, NoFrame}, UNCHANGED dirs
      PROVE  Typed'
  BY <1>5 DEF Gone, Typed, TypeOK, Importing
<1>6. CASE Close(f) \/ Joined(f)
  BY <1>5, <1>6 DEF Close, Joined
<1>7. CASE CloseLoading(f)
  BY <1>7 DEF CloseLoading, Typed, TypeOK, Importing
<1> QED
  BY <1>2, <1>3, <1>4, <1>6, <1>7

LEMMA NextTyped == Typed /\ [Next]_vars => Typed'
<1> SUFFICES ASSUME Typed, [Next]_vars PROVE Typed'
  OBVIOUS
<1>1. CASE Crash
  BY <1>1, OpenFlowAssumption DEF Crash, Typed, TypeOK, Importing, dirs, Exists
<1>2. CASE UNCHANGED vars
  BY <1>2 DEF vars, Typed, TypeOK, Importing, Exists
<1> QED
  BY <1>1, <1>2, LoaderTyped, GuiTyped DEF Next

(* Directories are named after the files they were imported from, a         *)
(* source.txt lies in a directory that exists, a window shows a dataset     *)
(* exactly when it is loaded, and its loader runs exactly while it shows    *)
(* the preview: also when files of one name are opened at once.             *)
THEOREM OpenFlowTypeOK == Spec => []TypeOK
<1>1. Typed => TypeOK
  BY DEF Typed
<1> QED
  BY InitTyped, NextTyped, <1>1, PTL DEF Spec
-------------------------------------------------------------------------------
(* The directories' contents, while no two files of one name load at once. *)

\* source.txt of d records the content of p.
Records(d, p) == source[d] # NoSource /\ source[d].content = Content[p]

\* The loader of f: what it found, what it may assume about the directories that
\* are named after its file, and what it has made of its target.
LoaderOK(f) ==
    /\ loader[f] = "none" => target[f] = NoDir
    /\ target[f] # NoDir => target[f][1] = Name[file[f]]
    /\ loader[f] \in {"name", "infer", "write", "source"} => Converted(file[f]) = {}
    /\ loader[f] = "infer" => ~Exists(target[f])
    /\ loader[f] \in {"write", "source"} => /\ Exists(target[f])
                                            /\ written[target[f]] = {Content[file[f]]}
                                            /\ source[target[f]] = NoSource
    /\ loader[f] = "posted" /\ target[f] # NoDir => Records(target[f], file[f])

ShownOK(f) == window[f] = "loaded" => Records(dir[f], file[f])

Apart == \A f, g \in Loading : Name[file[f]] = Name[file[g]] => f = g

DirsOK ==
    /\ \A d \in Dirs : source[d] # NoSource => written[d] = {source[d].content}
    /\ \A p \in Files : \A d, e \in Converted(p) : d = e

Inv ==
    /\ Typed
    /\ Apart
    /\ DirsOK
    /\ \A f \in Frames : LoaderOK(f) /\ ShownOK(f)

LEMMA InitInv == Init => Inv
<1> SUFFICES ASSUME Init PROVE Inv
  OBVIOUS
<1>1. \A p \in Files : Converted(p) = {}
  BY DEF Init, Converted
<1>2. Loading = {}
  BY DEF Init, Loading
<1> QED
  BY <1>1, <1>2, InitTyped DEF Init, Inv, Apart, DirsOK, LoaderOK, ShownOK

LEMMA InLoading ==
    ASSUME Typed, NEW f \in Frames
    PROVE  loader[f] # "none" <=> f \in Loading
  BY DEF Typed, TypeOK, Loading

LEMMA LoadingFile ==
    ASSUME Typed, NEW f \in Frames, loader[f] # "none"
    PROVE  file[f] \in Files
  BY DEF Typed, TypeOK

\* What Converted depends on.
LEMMA ConvertedBySource ==
    ASSUME Typed, NEW p \in Files
    PROVE  Converted(p) = {d \in Dirs : d[1] = Name[p] /\ Records(d, p)}
  BY DEF Converted, Typed, TypeOK, Records, Exists

\* A step that touches no directory named after the file of g, and not g itself.
LEMMA OtherLoader ==
    ASSUME Typed, Typed', NEW g \in Frames, LoaderOK(g),
           loader'[g] = loader[g], target'[g] = target[g], file'[g] = file[g],
           NEW t \in Dirs, loader[g] # "none" => t[1] # Name[file[g]],
           \A d \in Dirs \ {t} : /\ d \in DOMAIN written' <=> d \in DOMAIN written
                                 /\ d \in DOMAIN written => written'[d] = written[d]
                                 /\ source'[d] = source[d]
    PROVE  LoaderOK(g)'
<1>1. CASE loader[g] = "none"
  BY <1>1 DEF LoaderOK
<1>2. CASE loader[g] # "none"
  <2>1. file[g] \in Files
    BY <1>2, LoadingFile
  <2>2. target[g] # NoDir => target[g] \in Dirs \ {t}
    BY <1>2 DEF LoaderOK, Typed, TypeOK
  <2>3. Converted(file[g])' = Converted(file[g])
    <3>1. Converted(file[g]) = {d \in Dirs : d[1] = Name[file[g]] /\ Records(d, file[g])}
      BY <2>1, ConvertedBySource
    <3>2. Converted(file[g])' = {d \in Dirs : d[1] = Name[file[g]] /\ Records(d, file[g])'}
      BY <2>1 DEF Converted, Typed, TypeOK, Records, Exists
    <3>3. \A d \in Dirs : d[1] = Name[file[g]] => (Records(d, file[g])' <=> Records(d, file[g]))
      BY <1>2 DEF Records
    <3> QED
      BY <3>1, <3>2, <3>3
  <2>4. CASE target[g] = NoDir
    BY <2>3, <2>4 DEF LoaderOK, Typed, Importing
  <2>5. CASE target[g] # NoDir
    BY <1>2, <2>2, <2>3, <2>5 DEF LoaderOK, Records, Exists
  <2> QED
    BY <2>4, <2>5
<1> QED
  BY <1>1, <1>2

\* A step that touches no directory, and not the loader of g.
LEMMA SameDirs ==
    ASSUME NEW g \in Frames, LoaderOK(g),
           loader'[g] = loader[g], target'[g] = target[g], file'[g] = file[g],
           UNCHANGED dirs
    PROVE  LoaderOK(g)'
  BY DEF LoaderOK, dirs, Converted, Records, Exists

LEMMA DirsKept == ASSUME DirsOK, UNCHANGED dirs PROVE DirsOK'
  BY DEF DirsOK, dirs, Converted

LEMMA ApartKept ==
    ASSUME Apart, \A f \in Frames : f \in Loading' => f \in Loading /\ file'[f] = file[f]
    PROVE  Apart'
<1>1. Loading' \subseteq Frames
  BY DEF Loading
<1> QED
  BY <1>1 DEF Apart

\* A directory without a source.txt is written to, or removed.
LEMMA OtherDirs ==
    ASSUME Typed, Typed', DirsOK, source' = source,
           NEW t \in Dirs, source[t] = NoSource,
           \A d \in Dirs \ {t} : d \in DOMAIN written => written'[d] = written[d]
    PROVE  DirsOK'
<1>1. \A p \in Files : Converted(p)' = Converted(p)
  BY DEF Converted, Typed, TypeOK, Exists
<1>2. \A d \in Dirs : source'[d] # NoSource => written'[d] = {source'[d].content}
  BY DEF DirsOK, Typed, TypeOK, Exists
<1> QED
  BY <1>1, <1>2 DEF DirsOK

LEMMA ShownKept ==
    ASSUME Inv, Typed', NEW g \in Frames, UNCHANGED <<window, dir, file>>,
           NEW t \in Dirs \cup {NoDir}, t # NoDir => source[t] = NoSource,
           \A d \in Dirs \ {t} : source'[d] = source[d]
    PROVE  ShownOK(g)'
<1>1. CASE window[g] = "loaded"
  <2>1. dir[g] \in Dirs
    BY <1>1 DEF Inv, Typed, TypeOK
  <2>2. dir[g] # t
    BY <1>1, <2>1, OpenFlowAssumption DEF Inv, ShownOK, Records
  <2> QED
    BY <1>1, <2>1, <2>2 DEF Inv, ShownOK, Records
<1> QED
  BY <1>1 DEF ShownOK

\* The loader moves on and leaves the directories alone.
LEMMA LoaderMoves ==
    ASSUME Inv, Typed', NEW f \in Frames, loader[f] # "none", NEW next, NEW d,
           loader' = [loader EXCEPT ![f] = next], target' = [target EXCEPT ![f] = d],
           UNCHANGED <<dirs, Gui>>, LoaderOK(f)'
    PROVE  Inv'
<1>1. Apart'
  BY ApartKept DEF Inv, Gui, Loading
<1>2. DirsOK'
  BY DirsKept DEF Inv
<1>3. ASSUME NEW g \in Frames
      PROVE  LoaderOK(g)' /\ ShownOK(g)'
  <2>1. ShownOK(g)'
    BY ShownKept DEF Gui, dirs
  <2>2. CASE g = f
    BY <2>1, <2>2
  <2>3. CASE g # f
    <3>1. loader'[g] = loader[g] /\ target'[g] = target[g] /\ file'[g] = file[g]
      BY <2>3 DEF Inv, Typed, TypeOK, Gui
    <3> QED
      BY <2>1, <3>1, SameDirs DEF Inv
  <2> QED
    BY <2>2, <2>3
<1> QED
  BY <1>1, <1>2, <1>3 DEF Inv

\* The loader moves on and changes its target, which no window shows and no other
\* loader has.
LEMMA LoaderWrites ==
    ASSUME Inv, Typed', NEW f \in Frames, Importing(f), source[target[f]] = NoSource,
           UNCHANGED Gui,
           \A g \in Frames \ {f} : loader'[g] = loader[g] /\ target'[g] = target[g],
           \A d \in Dirs \ {target[f]} : /\ d \in DOMAIN written' <=> d \in DOMAIN written
                                         /\ d \in DOMAIN written => written'[d] = written[d]
                                         /\ source'[d] = source[d],
           DirsOK', LoaderOK(f)'
    PROVE  Inv'
<1>1. Apart'
  BY ApartKept DEF Inv, Gui, Loading
<1>2. target[f] \in Dirs /\ target[f][1] = Name[file[f]] /\ loader[f] # "none"
  BY DEF Inv, Typed, TypeOK, Importing, LoaderOK
<1>3. ASSUME NEW g \in Frames
      PROVE  LoaderOK(g)' /\ ShownOK(g)'
  <2>1. ShownOK(g)'
    BY <1>2, ShownKept DEF Gui
  <2>2. CASE g # f
    <3>1. loader[g] # "none" => target[f][1] # Name[file[g]]
      BY <1>2, <2>2, InLoading DEF Inv, Apart
    <3>2. LoaderOK(g)
      BY DEF Inv
    <3>3. loader'[g] = loader[g] /\ target'[g] = target[g] /\ file'[g] = file[g]
      BY <2>2 DEF Gui
    <3> QED
      BY <1>2, <2>1, <3>1, <3>2, <3>3, OtherLoader DEF Inv
  <2> QED
    BY <2>1, <2>2
<1> QED
  BY <1>1, <1>3 DEF Inv
-------------------------------------------------------------------------------
LEMMA LoaderInv ==
    ASSUME Inv, NEW f \in Frames, LoaderStep(f) \/ ImportFails(f)
    PROVE  Inv'
<1> USE OpenFlowAssumption DEF At
<1>1. Typed' /\ TypeOK /\ TypeOK'
  BY LoaderTyped DEF Inv, Typed
<1>2. loader[f] # "none"
  BY DEF LoaderStep, ImportFails, FindDataset, FindNothing, MakeOutputDirectoryPath,
         InferTypes, WriteDataFiles, WriteSourceInfo, ImportCancelled
<1>3. file[f] \in Files /\ Content[file[f]] \in Contents
  BY <1>2, LoadingFile, ContentsTyped DEF Inv
<1>4. LoaderOK(f)
  BY DEF Inv
<1>5. Importing(f) => target[f] \in Dirs
  BY DEF Inv, Typed, TypeOK
<1>6. ASSUME UNCHANGED <<dirs, Gui>>
      PROVE  Converted(file[f])' = Converted(file[f])
  BY <1>6 DEF dirs, Gui, Converted
<1>7. CASE FindDataset(f)
  <2>1. PICK d \in Converted(file[f]) : target' = [target EXCEPT ![f] = d]
    BY <1>7 DEF FindDataset
  <2>2. d \in Dirs /\ d # NoDir /\ d[1] = Name[file[f]] /\ Records(d, file[f])
    BY <1>1, <1>3, ConvertedDirs DEF Records
  <2>3. UNCHANGED <<dirs, Gui>> /\ loader' = [loader EXCEPT ![f] = "posted"]
    BY <1>7 DEF FindDataset
  <2>4. loader'[f] = "posted" /\ target'[f] = d
    BY <2>1, <2>3, <1>1 DEF TypeOK
  <2>5. LoaderOK(f)'
    BY <2>2, <2>3, <2>4 DEF LoaderOK, Records, dirs, Gui
  <2> QED
    BY <1>1, <1>2, <2>1, <2>3, <2>5, LoaderMoves
<1>8. CASE FindNothing(f)
  <2>1. /\ UNCHANGED <<dirs, Gui>> /\ loader' = [loader EXCEPT ![f] = "name"]
        /\ target' = target /\ Converted(file[f]) = {} /\ loader[f] = "find"
    BY <1>8 DEF FindNothing
  <2>2. loader'[f] = "name"
    BY <2>1, <1>1 DEF TypeOK
  <2>3. LoaderOK(f)'
    BY <1>4, <1>6, <2>1, <2>2 DEF LoaderOK, Gui
  <2>4. target' = [target EXCEPT ![f] = target[f]]
    BY <1>1, <2>1 DEF TypeOK
  <2> QED
    BY <1>1, <1>2, <2>1, <2>3, <2>4, LoaderMoves
<1>9. CASE MakeOutputDirectoryPath(f)
  <2>1. PICK i \in 1 .. NumDirs : /\ ~Exists(<<Name[file[f]], i>>)
                                  /\ target' = [target EXCEPT ![f] = <<Name[file[f]], i>>]
    BY <1>9 DEF MakeOutputDirectoryPath
  <2>2. PICK d : /\ d[1] = Name[file[f]]
                 /\ ~Exists(d)
                 /\ target' = [target EXCEPT ![f] = d]
    BY <2>1
  <2>3. /\ UNCHANGED <<dirs, Gui>> /\ loader' = [loader EXCEPT ![f] = "infer"]
        /\ loader[f] = "name"
    BY <1>9 DEF MakeOutputDirectoryPath
  <2>4. loader'[f] = "infer" /\ target'[f] = d
    BY <2>2, <2>3, <1>1 DEF TypeOK
  <2>5. Converted(file[f])' = {}
    BY <1>4, <1>6, <2>3 DEF LoaderOK
  <2>6. d \notin DOMAIN written' /\ file'[f] = file[f]
    BY <2>2, <2>3 DEF Exists, dirs, Gui
  <2>7. LoaderOK(f)'
    BY <2>2, <2>4, <2>5, <2>6 DEF LoaderOK, Exists
  <2> QED
    BY <1>1, <1>2, <2>2, <2>3, <2>7, LoaderMoves
<1>10. CASE InferTypes(f)
  <2>1. /\ UNCHANGED <<source, target, Gui>> /\ loader[f] = "infer"
        /\ loader' = [loader EXCEPT ![f] = "write"]
        /\ Importing(f) /\ ~Exists(target[f]) /\ Converted(file[f]) = {}
    BY <1>4, <1>10 DEF InferTypes, Importing, LoaderOK
  <2>2. loader'[f] = "write" /\ \A g \in Frames \ {f} : loader'[g] = loader[g]
    BY <2>1, <1>1 DEF TypeOK
  <2>3. source[target[f]] = NoSource
    BY <1>1, <1>5, <2>1 DEF TypeOK
  <2>4. /\ DOMAIN written' = DOMAIN written \cup {target[f]}
        /\ written'[target[f]] = {Content[file[f]]}
        /\ \A d \in DOMAIN written \ {target[f]} : written'[d] = written[d]
    BY <1>10, <2>1 DEF InferTypes, Exists
  <2>5. DirsOK'
    BY <1>1, <1>5, <2>1, <2>3, <2>4, OtherDirs DEF Inv
  <2>6. Converted(file[f])' = {}
    BY <2>1, <2>3, <2>4 DEF Converted, Gui
  <2>7. LoaderOK(f)'
    BY <1>4, <2>1, <2>2, <2>3, <2>4, <2>6 DEF LoaderOK, Gui, Exists
  <2> QED
    BY <1>1, <2>1, <2>2, <2>3, <2>4, <2>5, <2>7, LoaderWrites
<1>11. CASE WriteDataFiles(f)
  <2>1. /\ UNCHANGED <<source, target, Gui>> /\ loader[f] = "write"
        /\ loader' = [loader EXCEPT ![f] = "source"]
        /\ Importing(f) /\ Exists(target[f]) /\ source[target[f]] = NoSource
        /\ written[target[f]] = {Content[file[f]]} /\ Converted(file[f]) = {}
    BY <1>4, <1>11 DEF WriteDataFiles, Importing, LoaderOK
  <2>2. loader'[f] = "source" /\ \A g \in Frames \ {f} : loader'[g] = loader[g]
    BY <2>1, <1>1 DEF TypeOK
  <2>3. /\ DOMAIN written' = DOMAIN written
        /\ written'[target[f]] = {Content[file[f]]}
        /\ \A d \in DOMAIN written \ {target[f]} : written'[d] = written[d]
    BY <1>11, <2>1 DEF WriteDataFiles, Exists
  <2>4. DirsOK'
    BY <1>1, <1>5, <2>1, <2>3, OtherDirs DEF Inv
  <2>5. Converted(file[f])' = {}
    BY <2>1, <2>3 DEF Converted, Gui
  <2>6. LoaderOK(f)'
    BY <1>4, <2>1, <2>2, <2>3, <2>5 DEF LoaderOK, Gui, Exists
  <2> QED
    BY <1>1, <2>1, <2>2, <2>3, <2>4, <2>6, LoaderWrites
<1>12. CASE WriteSourceInfo(f)
  <2> DEFINE t == target[f]
             p == file[f]
  <2>1. /\ UNCHANGED <<written, target, Gui>> /\ loader[f] = "source"
        /\ loader' = [loader EXCEPT ![f] = "posted"]
        /\ Importing(f) /\ t \in DOMAIN written /\ source[t] = NoSource
        /\ written[t] = {Content[p]} /\ Converted(p) = {} /\ t \in Dirs
        /\ t[1] = Name[p]
    BY <1>4, <1>5, <1>12 DEF WriteSourceInfo, Importing, LoaderOK, Exists, Inv, Typed
  <2>2. loader'[f] = "posted" /\ \A g \in Frames \ {f} : loader'[g] = loader[g]
    BY <2>1, <1>1 DEF TypeOK
  <2>3. source' = [source EXCEPT ![t] = [content |-> Content[p], path |-> p]]
    BY <1>12, <2>1 DEF WriteSourceInfo, Exists
  <2>4. /\ source'[t] = [content |-> Content[p], path |-> p]
        /\ \A d \in Dirs \ {t} : source'[d] = source[d]
    BY <2>1, <2>3, <1>1 DEF TypeOK
  <2>5. source'[t] # NoSource /\ source'[t].content = Content[p]
    BY <1>3, <2>4
  <2>6. \A d \in Dirs : source'[d] # NoSource => written'[d] = {source'[d].content}
    BY <2>1, <2>4, <2>5 DEF Inv, DirsOK
  <2>7. ASSUME NEW q \in Files
        PROVE  Converted(q)' = Converted(q) \/ Converted(q)' = {t}
    <3>1. Converted(q)' \ {t} = Converted(q) \ {t}
      BY <1>1, <2>1, <2>4 DEF Converted, TypeOK
    <3>2. t \notin Converted(q)
      BY <2>1 DEF Converted
    <3>3. CASE t \in Converted(q)'
      <4>1. Name[q] = Name[p] /\ Content[q] = Content[p]
        BY <2>1, <2>5, <3>3 DEF Converted
      <4>2. Converted(q) = Converted(p)
        BY <4>1 DEF Converted
      <4> QED
        BY <2>1, <3>1, <3>3, <4>2
    <3> QED
      BY <3>1, <3>2, <3>3
  <2>8. DirsOK'
    BY <2>6, <2>7 DEF Inv, DirsOK
  <2>9. LoaderOK(f)'
    BY <2>1, <2>2, <2>5 DEF LoaderOK, Gui, Records
  <2> QED
    BY <1>1, <2>1, <2>2, <2>4, <2>8, <2>9, LoaderWrites
<1>13. CASE ImportCancelled(f)
  <2>1. /\ UNCHANGED Gui /\ Importing(f) /\ target[f] \in Dirs
        /\ loader' = [loader EXCEPT ![f] = "posted"]
        /\ target' = [target EXCEPT ![f] = NoDir]
        /\ source[target[f]] = NoSource
    BY <1>1, <1>4, <1>5, <1>13 DEF ImportCancelled, Importing, LoaderOK, TypeOK
  <2>2. /\ loader'[f] = "posted" /\ target'[f] = NoDir
        /\ \A g \in Frames \ {f} : loader'[g] = loader[g] /\ target'[g] = target[g]
    BY <2>1, <1>1 DEF TypeOK
  <2>3. /\ source' = source
        /\ DOMAIN written' = DOMAIN written \ {target[f]}
        /\ \A d \in DOMAIN written \ {target[f]} : written'[d] = written[d]
    BY <1>1, <1>13, <2>1 DEF ImportCancelled, RemoveImport, TypeOK
  <2>4. DirsOK'
    BY <1>1, <2>1, <2>3, OtherDirs DEF Inv
  <2>5. LoaderOK(f)'
    BY <2>2 DEF LoaderOK
  <2> QED
    BY <1>1, <2>1, <2>2, <2>3, <2>4, <2>5, LoaderWrites
<1>14. CASE ImportFails(f)
  <2>1. /\ UNCHANGED <<dirs, Gui>> /\ loader' = [loader EXCEPT ![f] = "error"]
        /\ target' = target
    BY <1>14 DEF ImportFails
  <2>2. loader'[f] = "error"
    BY <2>1, <1>1 DEF TypeOK
  <2>3. LoaderOK(f)'
    BY <1>2, <1>4, <2>1, <2>2 DEF LoaderOK, Gui
  <2>4. target' = [target EXCEPT ![f] = target[f]]
    BY <1>1, <2>1 DEF TypeOK
  <2> QED
    BY <1>1, <1>2, <2>1, <2>3, <2>4, LoaderMoves
<1> QED
  BY <1>7, <1>8, <1>9, <1>10, <1>11, <1>12, <1>13, <1>14 DEF LoaderStep

\* A handler that leaves the directories as they are and concerns the window f.
LEMMA WindowChanges ==
    ASSUME Inv, Typed', NEW f \in Frames, UNCHANGED dirs, Apart',
           \A g \in Frames \ {f} : /\ loader'[g] = loader[g] /\ target'[g] = target[g]
                                   /\ file'[g] = file[g] /\ window'[g] = window[g]
                                   /\ dir'[g] = dir[g],
           LoaderOK(f)', ShownOK(f)'
    PROVE  Inv'
<1>1. ASSUME NEW g \in Frames, g # f
      PROVE  LoaderOK(g)' /\ ShownOK(g)'
  <2>1. LoaderOK(g) /\ ShownOK(g)
    BY DEF Inv
  <2>2. LoaderOK(g)'
    BY <1>1, <2>1, SameDirs
  <2> QED
    BY <1>1, <2>1, <2>2 DEF ShownOK, Records, dirs
<1> QED
  BY <1>1, DirsKept DEF Inv

LEMMA GuiInv ==
    ASSUME ~Racing, Inv, NEW f \in Frames,
           \/ \E p \in Files : OpenConverted(f, p) \/ OpenPreview(f, p)
           \/ OnLoadDone(f) \/ Close(f) \/ CloseLoading(f) \/ Joined(f)
    PROVE  Inv'
<1>1. Typed' /\ TypeOK /\ TypeOK'
  BY GuiTyped DEF Inv, Typed
<1>2. LoaderOK(f)
  BY DEF Inv
<1>3. ASSUME NEW p \in Files, OpenConverted(f, p)
      PROVE  Inv'
  <2>1. PICK d \in Converted(p) : dir' = [dir EXCEPT ![f] = d]
    BY <1>3 DEF OpenConverted
  <2>2. Records(d, p)
    BY <1>1, ConvertedDirs DEF Records
  <2>3. /\ UNCHANGED dirs /\ UNCHANGED thread
        /\ file' = [file EXCEPT ![f] = p] /\ window' = [window EXCEPT ![f] = "loaded"]
        /\ window[f] = "none"
    BY <1>3 DEF OpenConverted, MayOpen
  <2>4. loader[f] = "none"
    BY <1>1, <2>3 DEF TypeOK
  <2>5. LoaderOK(f)'
    BY <1>2, <2>3, <2>4 DEF LoaderOK, thread
  <2>6. ShownOK(f)'
    BY <1>1, <2>1, <2>2, <2>3 DEF ShownOK, Records, dirs, TypeOK
  <2>7. Apart'
    BY <1>1, <2>3, ApartKept DEF Inv, Loading, TypeOK
  <2> QED
    BY <1>1, <2>1, <2>3, <2>5, <2>6, <2>7, WindowChanges DEF thread
<1>4. ASSUME NEW p \in Files, OpenPreview(f, p)
      PROVE  Inv'
  <2>1. /\ UNCHANGED dirs /\ dir' = dir
        /\ file' = [file EXCEPT ![f] = p] /\ window' = [window EXCEPT ![f] = "loading"]
        /\ loader' = [loader EXCEPT ![f] = "find"] /\ target' = [target EXCEPT ![f] = NoDir]
        /\ \A g \in Loading : Name[file[g]] # Name[p]
        /\ window[f] = "none"
    BY <1>4 DEF OpenPreview, MayOpen
  <2>2. /\ file'[f] = p /\ window'[f] = "loading" /\ loader'[f] = "find"
        /\ target'[f] = NoDir
        /\ \A g \in Frames \ {f} : /\ loader'[g] = loader[g] /\ target'[g] = target[g]
                                   /\ file'[g] = file[g] /\ window'[g] = window[g]
    BY <1>1, <2>1 DEF TypeOK
  <2>3. Apart'
    BY <2>1, <2>2 DEF Inv, Apart, Loading
  <2>4. LoaderOK(f)' /\ ShownOK(f)'
    BY <2>2 DEF LoaderOK, ShownOK
  <2> QED
    BY <1>1, <2>1, <2>2, <2>3, <2>4, WindowChanges
<1>5. CASE OnLoadDone(f)
  <2> DEFINE opens == loader[f] = "posted" /\ target[f] # NoDir /\ Exists(target[f])
  <2>1. /\ UNCHANGED <<dirs, file>>
        /\ window' = [window EXCEPT ![f] = IF opens THEN "loaded" ELSE "failed"]
        /\ dir' = [dir EXCEPT ![f] = IF opens THEN target[f] ELSE NoDir]
        /\ loader' = [loader EXCEPT ![f] = "none"] /\ target' = [target EXCEPT ![f] = NoDir]
    BY <1>5 DEF OnLoadDone
  <2>2. LoaderOK(f)'
    BY <1>1, <2>1 DEF LoaderOK, TypeOK
  <2>3. ShownOK(f)'
    <3>1. CASE opens
      BY <1>1, <1>2, <2>1, <3>1 DEF ShownOK, LoaderOK, Records, dirs, TypeOK
    <3>2. CASE ~opens
      BY <1>1, <2>1, <3>2 DEF ShownOK, TypeOK
    <3> QED
      BY <3>1, <3>2
  <2>4. Apart'
    BY <1>1, <2>1, ApartKept DEF Inv, Loading, TypeOK
  <2> HIDE DEF opens
  <2> QED
    BY <1>1, <2>1, <2>2, <2>3, <2>4, WindowChanges
<1>6. CASE Close(f) \/ Joined(f)
  <2>1. Gone(f) /\ UNCHANGED dirs
    BY <1>6 DEF Close, Joined
  <2>2. LoaderOK(f)' /\ ShownOK(f)'
    BY <1>1, <2>1 DEF Gone, LoaderOK, ShownOK, TypeOK
  <2>3. Apart'
    BY <1>1, <2>1, ApartKept DEF Gone, Inv, Loading, TypeOK
  <2> QED
    BY <1>1, <2>1, <2>2, <2>3, WindowChanges DEF Gone
<1>7. CASE CloseLoading(f)
  <2>1. UNCHANGED <<dirs, window, file, dir, loader, target>>
    BY <1>7 DEF CloseLoading
  <2>2. LoaderOK(f)' /\ ShownOK(f)'
    BY <1>2, <2>1, SameDirs DEF Inv, ShownOK, Records, dirs
  <2>3. Apart'
    BY <2>1, ApartKept DEF Inv, Loading
  <2> QED
    BY <1>1, <2>1, <2>2, <2>3, WindowChanges
<1> QED
  BY <1>3, <1>4, <1>5, <1>6, <1>7

LEMMA NextInv ==
    ASSUME ~Racing
    PROVE  Inv /\ [Next]_vars => Inv'
<1> SUFFICES ASSUME Inv, [Next]_vars PROVE Inv'
  OBVIOUS
<1>1. CASE Crash
  <2>1. Typed'
    BY <1>1, NextTyped DEF Inv, Next
  <2>2. /\ UNCHANGED dirs
        /\ \A f \in Frames : window'[f] = "none" /\ loader'[f] = "none" /\ target'[f] = NoDir
    BY <1>1 DEF Crash
  <2>3. Apart'
    BY <2>2 DEF Apart, Loading
  <2> QED
    BY <2>1, <2>2, <2>3, DirsKept DEF Inv, LoaderOK, ShownOK
<1>2. CASE UNCHANGED vars
  <2>1. Typed'
    BY <1>2, NextTyped DEF Inv
  <2> QED
    BY <1>2, <2>1, DirsKept, SameDirs
    DEF vars, Inv, Apart, Loading, ShownOK, Records, dirs
<1> QED
  BY <1>1, <1>2, LoaderInv, GuiInv DEF Next
-------------------------------------------------------------------------------
(* The theorems. *)

LEMMA InvAlways == ~Racing /\ Spec => []Inv
<1>1. ~Racing => (Inv /\ [Next]_vars => Inv')
  BY NextInv
<1>2. CASE Racing
  BY <1>2
<1>3. CASE ~Racing
  BY <1>1, <1>3, InitInv, PTL DEF Spec
<1> QED
  BY <1>2, <1>3

LEMMA SourcesWhole == ASSUME Inv PROVE SourceMeansWhole
<1> SUFFICES ASSUME NEW d \in Dirs, source[d] # NoSource
             PROVE  Whole(d, source[d].content)
  BY DEF SourceMeansWhole
<1>1. Exists(d) /\ written[d] = {source[d].content}
  BY DEF Inv, Typed, TypeOK, DirsOK
<1>2. \A f \in Frames : ~(loader[f] = "write" /\ target[f] = d)
  BY DEF Inv, LoaderOK
<1> QED
  BY <1>1, <1>2 DEF Whole

(* A directory with a source.txt is a complete import of what it records,   *)
(* and nobody is writing to it: crashed, failed and cancelled imports are   *)
(* not found by a later search (StartBackgroundLoad, ImportCsv,             *)
(* WriteSourceInfo).                                                        *)
THEOREM SourcesAreWhole == ~Racing /\ Spec => []SourceMeansWhole
  BY InvAlways, SourcesWhole, PTL

(* A loaded window shows the complete dataset of the file it was opened     *)
(* for, however many windows load, close and crash meanwhile.               *)
THEOREM WindowsShowOwn == ~Racing /\ Spec => []OwnDataset
<1>1. Inv => OwnDataset
  <2> SUFFICES ASSUME Inv, NEW f \in Frames, window[f] = "loaded"
               PROVE  Whole(dir[f], Content[file[f]])
    BY DEF OwnDataset
  <2>1. dir[f] \in Dirs /\ Records(dir[f], file[f])
    BY DEF Inv, Typed, TypeOK, ShownOK
  <2> QED
    BY <2>1, SourcesWhole DEF SourceMeansWhole, Records
<1> QED
  BY <1>1, InvAlways, PTL

(* No content is converted twice under one name: an existing dataset is     *)
(* reused (spreadsheet_frame.cpp:602).                                      *)
THEOREM OneDatasetEach == ~Racing /\ Spec => []ConvertedOnce
<1>1. Inv => ConvertedOnce
  <2> SUFFICES ASSUME Inv, NEW p \in Files
               PROVE  Cardinality(Converted(p)) <= 1
    BY DEF ConvertedOnce
  <2>1. CASE Converted(p) = {}
    BY <2>1, FS_EmptySet
  <2>2. CASE Converted(p) # {}
    <3>1. PICK d : d \in Converted(p)
      BY <2>2
    <3>2. Converted(p) = {d}
      BY <3>1 DEF Inv, DirsOK
    <3> QED
      BY <3>2, FS_Singleton
  <2> QED
    BY <2>1, <2>2
<1> QED
  BY <1>1, InvAlways, PTL

-------------------------------------------------------------------------------
(* Files of one name racing: what holds of each directory that is not shared. *)

\* What f has to do with d: an import into it finds it empty-handed or holding
\* just this import, and whoever is done with d, or shows it, has a whole one.
FrameOK(f, d) ==
    /\ ImportsInto(f, d) => source[d] = NoSource
    /\ ImportsInto(f, d) /\ loader[f] = "infer" => ~Exists(d)
    /\ ImportsInto(f, d) /\ loader[f] \in {"write", "source"} =>
          Exists(d) /\ written[d] = {Content[file[f]]}
    /\ loader[f] = "posted" /\ target[f] = d => Records(d, file[f])
    /\ window[f] = "loaded" /\ dir[f] = d => Records(d, file[f])

DirOK(d) ==
    /\ d \notin Sharing
    /\ source[d] # NoSource => written[d] = {source[d].content}
    /\ \A f \in Frames : FrameOK(f, d)

\* What every loader knows of itself, whether its directory is shared or not.
TargetsNamed ==
    \A f \in Frames : /\ loader[f] \in {"none", "find", "name"} => target[f] = NoDir
                      /\ Importing(f) => target[f][1] = Name[file[f]]

SharedInv ==
    /\ Typed
    /\ TargetsNamed
    /\ shared \subseteq Dirs
    /\ \A d \in Dirs \ shared : DirOK(d)

LEMMA InitShared == SharedInit => SharedInv
<1> SUFFICES ASSUME SharedInit PROVE SharedInv
  OBVIOUS
<1>1. Typed
  BY InitTyped DEF SharedInit
<1>2. TargetsNamed
  BY DEF SharedInit, Init, TargetsNamed, Importing
<1>3. \A d \in Dirs : DirOK(d)
  BY DEF SharedInit, Init, DirOK, FrameOK, Sharing, ImportsInto
<1> QED
  BY <1>1, <1>2, <1>3 DEF SharedInit, SharedInv

LEMMA NextTargetsNamed ==
    ASSUME Typed, Typed', TargetsNamed, Next
    PROVE  TargetsNamed'
<1> USE DEF TargetsNamed, Importing, At, Gui
<1>1. ASSUME NEW f \in Frames, LoaderStep(f) \/ ImportFails(f)
      PROVE  TargetsNamed'
  <2>1. /\ loader \in [Frames -> Loaders] /\ target \in [Frames -> Dirs \cup {NoDir}]
    BY DEF Typed, TypeOK, Loaders
  <2>2. CASE MakeOutputDirectoryPath(f)
    <3>1. PICK i \in 1 .. NumDirs : target' = [target EXCEPT ![f] = <<Name[file[f]], i>>]
      BY <2>2 DEF MakeOutputDirectoryPath
    <3>2. target'[f][1] = Name[file[f]]
      BY <2>1, <3>1
    <3> QED
      BY <2>1, <2>2, <3>1, <3>2 DEF MakeOutputDirectoryPath
  <2>3. CASE FindDataset(f)
    BY <2>1, <2>3 DEF FindDataset
  <2>4. CASE FindNothing(f)
    BY <2>1, <2>4 DEF FindNothing
  <2>5. CASE InferTypes(f) \/ WriteDataFiles(f) \/ WriteSourceInfo(f) \/ ImportFails(f)
    BY <2>1, <2>5 DEF InferTypes, WriteDataFiles, WriteSourceInfo, ImportFails
  <2>6. CASE ImportCancelled(f)
    BY <2>1, <2>6 DEF ImportCancelled
  <2> QED
    BY <1>1, <2>2, <2>3, <2>4, <2>5, <2>6 DEF LoaderStep
<1>2. ASSUME NEW f \in Frames, NEW p \in Files, OpenConverted(f, p) \/ OpenPreview(f, p)
      PROVE  TargetsNamed'
  BY <1>2 DEF OpenConverted, OpenPreview, MayOpen, thread, Typed, TypeOK
<1>3. ASSUME NEW f \in Frames, OnLoadDone(f) \/ Close(f) \/ CloseLoading(f) \/ Joined(f)
      PROVE  TargetsNamed'
  BY <1>3 DEF OnLoadDone, Close, CloseLoading, Joined, Gone, Typed, TypeOK
<1>4. CASE Crash
  BY <1>4 DEF Crash
<1> QED
  BY <1>1, <1>2, <1>3, <1>4 DEF Next
-------------------------------------------------------------------------------
\* A directory and a window that a step leaves alone.
LEMMA FrameStays ==
    ASSUME NEW d, NEW g \in Frames, FrameOK(g, d),
           source'[d] = source[d], d \in DOMAIN written' <=> d \in DOMAIN written,
           d \in DOMAIN written => written'[d] = written[d],
           loader'[g] = loader[g], target'[g] = target[g], file'[g] = file[g],
           window'[g] = window[g], dir'[g] = dir[g]
    PROVE  FrameOK(g, d)'
  BY DEF FrameOK, ImportsInto, Exists, Records

\* What the others have to do with the directory of an import: nothing.
LEMMA ImportAlone ==
    ASSUME NEW d \in Dirs, DirOK(d), NEW f \in Frames, ImportsInto(f, d),
           NEW g \in Frames, g # f
    PROVE  /\ ~ImportsInto(g, d)
           /\ ~(loader[g] = "posted" /\ target[g] = d)
           /\ ~(window[g] = "loaded" /\ dir[g] = d)
<1>1. ~ImportsInto(g, d)
  BY DEF DirOK, Sharing
<1>2. source[d] = NoSource
  BY DEF DirOK, FrameOK
<1> QED
  BY <1>1, <1>2 DEF DirOK, FrameOK, Records

\* A step of f alone that leaves the directory d as it is.
LEMMA DirStays ==
    ASSUME NEW d \in Dirs, DirOK(d), d \notin Sharing', NEW f \in Frames,
           source'[d] = source[d], d \in DOMAIN written' <=> d \in DOMAIN written,
           d \in DOMAIN written => written'[d] = written[d],
           source[d] # NoSource => d \in DOMAIN written,
           \A g \in Frames \ {f} : /\ loader'[g] = loader[g] /\ target'[g] = target[g]
                                   /\ file'[g] = file[g] /\ window'[g] = window[g]
                                   /\ dir'[g] = dir[g],
           FrameOK(f, d)'
    PROVE  DirOK(d)'
<1>1. ASSUME NEW g \in Frames
      PROVE  FrameOK(g, d)'
  <2>1. CASE g # f
    BY <2>1, FrameStays DEF DirOK
  <2> QED
    BY <2>1
<1>2. source'[d] # NoSource => written'[d] = {source'[d].content}
  BY DEF DirOK
<1> QED
  BY <1>1, <1>2 DEF DirOK

\* A step of the import f in its own directory d.
LEMMA DirWorked ==
    ASSUME NEW d \in Dirs, DirOK(d), d \notin Sharing', NEW f \in Frames, ImportsInto(f, d),
           \A g \in Frames \ {f} : loader'[g] = loader[g] /\ target'[g] = target[g],
           UNCHANGED <<window, dir>>,
           source'[d] # NoSource => written'[d] = {source'[d].content},
           FrameOK(f, d)'
    PROVE  DirOK(d)'
<1>1. ASSUME NEW g \in Frames
      PROVE  FrameOK(g, d)'
  <2>1. CASE g # f
    <3>1. /\ ~ImportsInto(g, d)
          /\ ~(loader[g] = "posted" /\ target[g] = d)
          /\ ~(window[g] = "loaded" /\ dir[g] = d)
      BY <2>1, ImportAlone
    <3> QED
      BY <2>1, <3>1 DEF FrameOK, ImportsInto
  <2> QED
    BY <2>1
<1> QED
  BY <1>1 DEF DirOK
-------------------------------------------------------------------------------
LEMMA LoaderDirOK ==
    ASSUME Typed, Typed', TargetsNamed, NEW f \in Frames, LoaderStep(f) \/ ImportFails(f),
           NEW d \in Dirs, DirOK(d), d \notin Sharing'
    PROVE  DirOK(d)'
<1> USE OpenFlowAssumption DEF At, Gui
<1>1. /\ loader \in [Frames -> Loaders] /\ target \in [Frames -> Dirs \cup {NoDir}]
      /\ source \in [Dirs -> [content : Contents, path : Files] \cup {NoSource}]
      /\ source[d] # NoSource => d \in DOMAIN written
      /\ source'[d] # NoSource => d \in DOMAIN written'
  BY DEF Typed, TypeOK, Loaders, Exists
<1>2. loader[f] # "none" /\ window[f] = "loading" /\ file[f] \in Files /\ dir[f] = NoDir
  <2>1. loader[f] # "none"
    BY DEF LoaderStep, ImportFails, FindDataset, FindNothing, MakeOutputDirectoryPath,
           InferTypes, WriteDataFiles, WriteSourceInfo, ImportCancelled
  <2> QED
    BY <2>1 DEF Typed, TypeOK
<1>3. FrameOK(f, d)
  BY DEF DirOK
<1>4. UNCHANGED <<window, file, dir>>
  BY DEF LoaderStep, ImportFails, FindDataset, FindNothing, MakeOutputDirectoryPath,
         InferTypes, WriteDataFiles, WriteSourceInfo, ImportCancelled
\* The loader moves on, without touching a directory.
<1>5. ASSUME UNCHANGED dirs, NEW next, loader' = [loader EXCEPT ![f] = next],
             NEW t, target' = [target EXCEPT ![f] = t], FrameOK(f, d)'
      PROVE  DirOK(d)'
  BY <1>1, <1>4, <1>5, DirStays DEF dirs
<1>6. target' = target => target' = [target EXCEPT ![f] = target[f]]
  BY <1>1
<1>7. CASE FindDataset(f)
  <2>1. PICK e \in Converted(file[f]) : target' = [target EXCEPT ![f] = e]
    BY <1>7 DEF FindDataset
  <2>2. Records(e, file[f])
    BY <1>2, ConvertedDirs DEF Records, Typed
  <2>3. UNCHANGED dirs /\ loader' = [loader EXCEPT ![f] = "posted"]
    BY <1>7 DEF FindDataset
  <2>4. FrameOK(f, d)'
    BY <1>1, <1>2, <1>4, <2>1, <2>2, <2>3 DEF FrameOK, ImportsInto, Records, dirs
  <2> QED
    BY <1>5, <2>1, <2>3, <2>4
<1>8. CASE FindNothing(f)
  <2>1. UNCHANGED <<dirs, target>> /\ loader' = [loader EXCEPT ![f] = "name"]
    BY <1>8 DEF FindNothing
  <2>2. FrameOK(f, d)'
    BY <1>1, <1>2, <1>4, <2>1 DEF FrameOK, ImportsInto
  <2> QED
    BY <1>5, <1>6, <2>1, <2>2
<1>9. CASE MakeOutputDirectoryPath(f)
  <2>1. PICK t : ~Exists(t) /\ target' = [target EXCEPT ![f] = t]
    BY <1>9 DEF MakeOutputDirectoryPath
  <2>2. UNCHANGED dirs /\ loader' = [loader EXCEPT ![f] = "infer"]
    BY <1>9 DEF MakeOutputDirectoryPath
  <2>3. loader'[f] = "infer" /\ target'[f] = t
    BY <1>1, <2>1, <2>2
  <2>4. d = t => source[d] = NoSource
    BY <1>1, <2>1 DEF Exists
  <2>5. FrameOK(f, d)'
    BY <1>2, <1>4, <2>1, <2>2, <2>3, <2>4 DEF FrameOK, ImportsInto, Exists, dirs
  <2> QED
    BY <1>5, <2>1, <2>2, <2>5
<1>10. CASE ImportFails(f)
  <2>1. UNCHANGED <<dirs, target>> /\ loader' = [loader EXCEPT ![f] = "error"]
    BY <1>10 DEF ImportFails
  <2>2. FrameOK(f, d)'
    BY <1>1, <1>2, <1>4, <2>1 DEF FrameOK, ImportsInto
  <2> QED
    BY <1>5, <1>6, <2>1, <2>2
\* The steps that write to, or remove, the target.
<1>11. CASE InferTypes(f)
  <2>1. /\ loader[f] = "infer" /\ loader' = [loader EXCEPT ![f] = "write"]
        /\ UNCHANGED <<source, target>>
        /\ DOMAIN written' = DOMAIN written \cup {target[f]}
        /\ \A e \in DOMAIN written \ {target[f]} : written'[e] = written[e]
    BY <1>11 DEF InferTypes, Exists
  <2>2. loader'[f] = "write" /\ \A g \in Frames \ {f} : loader'[g] = loader[g]
    BY <1>1, <2>1
  <2>3. CASE target[f] = d
    <3>1. ImportsInto(f, d) /\ ~Exists(d) /\ source[d] = NoSource
      BY <1>3, <2>1, <2>3 DEF FrameOK, ImportsInto
    <3>2. d \in DOMAIN written' /\ written'[d] = {Content[file[f]]}
      BY <1>11, <2>3, <3>1 DEF InferTypes, Exists
    <3>3. FrameOK(f, d)'
      BY <1>2, <1>4, <2>1, <2>2, <3>1, <3>2 DEF FrameOK, ImportsInto, Exists
    <3> QED
      BY <1>4, <2>1, <2>2, <3>1, <3>3, DirWorked
  <2>4. CASE target[f] # d
    <3>1. FrameOK(f, d)'
      BY <1>2, <1>4, <2>1, <2>2, <2>4 DEF FrameOK, ImportsInto
    <3> QED
      BY <1>1, <1>4, <2>1, <2>2, <2>4, <3>1, DirStays
  <2> QED
    BY <2>3, <2>4
<1>12. CASE WriteDataFiles(f)
  <2>1. /\ loader[f] = "write" /\ loader' = [loader EXCEPT ![f] = "source"]
        /\ UNCHANGED <<source, target>>
        /\ Exists(target[f])
        /\ written' = [written EXCEPT ![target[f]] = @ \cup {Content[file[f]]}]
    BY <1>12 DEF WriteDataFiles
  <2>2. loader'[f] = "source" /\ \A g \in Frames \ {f} : loader'[g] = loader[g]
    BY <1>1, <2>1
  <2>3. CASE target[f] = d
    <3>1. /\ ImportsInto(f, d) /\ source[d] = NoSource
          /\ Exists(d) /\ written[d] = {Content[file[f]]}
      BY <1>3, <2>1, <2>3 DEF FrameOK, ImportsInto
    <3>2. d \in DOMAIN written' /\ written'[d] = {Content[file[f]]}
      BY <2>1, <2>3, <3>1 DEF Exists
    <3>3. FrameOK(f, d)'
      BY <1>2, <1>4, <2>1, <2>2, <3>1, <3>2 DEF FrameOK, ImportsInto, Exists
    <3> QED
      BY <1>4, <2>1, <2>2, <3>1, <3>3, DirWorked
  <2>4. CASE target[f] # d
    <3>1. FrameOK(f, d)'
      BY <1>2, <1>4, <2>1, <2>2, <2>4 DEF FrameOK, ImportsInto
    <3>2. DOMAIN written' = DOMAIN written /\ (d \in DOMAIN written => written'[d] = written[d])
      BY <2>1, <2>4
    <3> QED
      BY <1>1, <1>4, <2>1, <2>2, <3>1, <3>2, DirStays
  <2> QED
    BY <2>3, <2>4
<1>13. CASE WriteSourceInfo(f)
  <2> DEFINE info == [content |-> Content[file[f]], path |-> file[f]]
  <2>1. /\ loader[f] = "source" /\ loader' = [loader EXCEPT ![f] = "posted"]
        /\ UNCHANGED <<written, target>>
        /\ source' = IF Exists(target[f]) THEN [source EXCEPT ![target[f]] = info] ELSE source
    BY <1>13 DEF WriteSourceInfo
  <2>2. loader'[f] = "posted" /\ \A g \in Frames \ {f} : loader'[g] = loader[g]
    BY <1>1, <2>1
  <2>3. info # NoSource /\ info.content = Content[file[f]]
    BY <1>2, ContentsTyped
  <2> HIDE DEF info
  <2>4. CASE target[f] = d
    <3>1. ImportsInto(f, d) /\ Exists(d) /\ written[d] = {Content[file[f]]}
      BY <1>3, <2>1, <2>4 DEF FrameOK, ImportsInto
    <3>2. source'[d] = info
      BY <1>1, <2>1, <2>4, <3>1
    <3>3. FrameOK(f, d)'
      BY <1>2, <1>4, <2>2, <2>3, <3>2 DEF FrameOK, ImportsInto, Records
    <3> QED
      BY <1>4, <2>1, <2>2, <2>3, <3>1, <3>2, <3>3, DirWorked
  <2>5. CASE target[f] # d
    <3>1. FrameOK(f, d)'
      BY <1>2, <1>4, <2>1, <2>2, <2>5 DEF FrameOK, ImportsInto
    <3>2. source'[d] = source[d]
      BY <1>1, <2>1, <2>5
    <3> QED
      BY <1>1, <1>4, <2>1, <2>2, <3>1, <3>2, DirStays
  <2> QED
    BY <2>4, <2>5
<1>14. CASE ImportCancelled(f)
  <2>1. /\ loader[f] \in {"infer", "write"} /\ loader' = [loader EXCEPT ![f] = "posted"]
        /\ target' = [target EXCEPT ![f] = NoDir]
        /\ written' = [e \in DOMAIN written \ {target[f]} |-> written[e]]
        /\ source' = [source EXCEPT ![target[f]] = NoSource]
    BY <1>14 DEF ImportCancelled, RemoveImport
  <2>2. /\ loader'[f] = "posted" /\ target'[f] = NoDir
        /\ \A g \in Frames \ {f} : loader'[g] = loader[g] /\ target'[g] = target[g]
    BY <1>1, <2>1
  <2>3. FrameOK(f, d)'
    BY <1>2, <1>4, <2>2 DEF FrameOK, ImportsInto
  <2>4. CASE target[f] = d
    <3>1. ImportsInto(f, d) /\ source'[d] = NoSource
      BY <1>1, <2>1, <2>4 DEF ImportsInto
    <3> QED
      BY <1>4, <2>2, <2>3, <3>1, DirWorked
  <2>5. CASE target[f] # d
    <3>1. /\ source'[d] = source[d] /\ (d \in DOMAIN written' <=> d \in DOMAIN written)
          /\ d \in DOMAIN written => written'[d] = written[d]
      BY <1>1, <2>1, <2>5
    <3> QED
      BY <1>1, <1>4, <2>2, <2>3, <3>1, DirStays
  <2> QED
    BY <2>4, <2>5
<1> QED
  BY <1>7, <1>8, <1>9, <1>10, <1>11, <1>12, <1>13, <1>14 DEF LoaderStep

LEMMA GuiDirOK ==
    ASSUME Typed, Typed', TargetsNamed, NEW f \in Frames,
           \/ \E p \in Files : OpenConverted(f, p) \/ OpenPreview(f, p)
           \/ OnLoadDone(f) \/ Close(f) \/ CloseLoading(f) \/ Joined(f),
           NEW d \in Dirs, DirOK(d), d \notin Sharing'
    PROVE  DirOK(d)'
<1> USE OpenFlowAssumption
<1>1. TypeOK /\ (source[d] # NoSource => d \in DOMAIN written)
  BY DEF Typed, TypeOK, Exists
<1>2. FrameOK(f, d)
  BY DEF DirOK
<1>3. ASSUME UNCHANGED dirs, FrameOK(f, d)',
             \A g \in Frames \ {f} : /\ loader'[g] = loader[g] /\ target'[g] = target[g]
                                     /\ file'[g] = file[g] /\ window'[g] = window[g]
                                     /\ dir'[g] = dir[g]
      PROVE  DirOK(d)'
  BY <1>1, <1>3, DirStays DEF dirs
<1>4. ASSUME NEW p \in Files, OpenConverted(f, p)
      PROVE  DirOK(d)'
  <2>1. PICK e \in Converted(p) : dir' = [dir EXCEPT ![f] = e]
    BY <1>4 DEF OpenConverted
  <2>2. Records(e, p)
    BY <1>1, ConvertedDirs DEF Records
  <2>3. /\ UNCHANGED dirs /\ UNCHANGED thread /\ window[f] = "none"
        /\ file' = [file EXCEPT ![f] = p] /\ window' = [window EXCEPT ![f] = "loaded"]
    BY <1>4 DEF OpenConverted, MayOpen
  <2>4. loader[f] = "none"
    BY <1>1, <2>3 DEF TypeOK
  <2>5. FrameOK(f, d)'
    BY <1>1, <2>1, <2>2, <2>3, <2>4 DEF FrameOK, ImportsInto, Records, dirs, thread, TypeOK
  <2> QED
    BY <1>1, <1>3, <2>1, <2>3, <2>5 DEF thread, TypeOK
<1>5. ASSUME NEW p \in Files, OpenPreview(f, p)
      PROVE  DirOK(d)'
  <2>1. /\ UNCHANGED dirs /\ dir' = dir
        /\ file' = [file EXCEPT ![f] = p] /\ window' = [window EXCEPT ![f] = "loading"]
        /\ loader' = [loader EXCEPT ![f] = "find"] /\ target' = [target EXCEPT ![f] = NoDir]
    BY <1>5 DEF OpenPreview, MayOpen
  <2>2. FrameOK(f, d)'
    BY <1>1, <2>1 DEF FrameOK, ImportsInto, TypeOK
  <2> QED
    BY <1>1, <1>3, <2>1, <2>2 DEF TypeOK
<1>6. CASE OnLoadDone(f)
  <2> DEFINE opens == loader[f] = "posted" /\ target[f] # NoDir /\ Exists(target[f])
  <2>1. /\ UNCHANGED <<dirs, file>>
        /\ window' = [window EXCEPT ![f] = IF opens THEN "loaded" ELSE "failed"]
        /\ dir' = [dir EXCEPT ![f] = IF opens THEN target[f] ELSE NoDir]
        /\ loader' = [loader EXCEPT ![f] = "none"] /\ target' = [target EXCEPT ![f] = NoDir]
    BY <1>6 DEF OnLoadDone
  <2>2. loader'[f] = "none" /\ target'[f] = NoDir /\ file'[f] = file[f]
    BY <1>1, <2>1 DEF TypeOK
  <2>3. FrameOK(f, d)'
    <3>1. CASE opens
      <4>1. dir'[f] = target[f] /\ loader[f] = "posted"
        BY <1>1, <2>1, <3>1 DEF TypeOK
      <4> QED
        BY <1>2, <2>1, <2>2, <4>1 DEF FrameOK, ImportsInto, Records, dirs
    <3>2. CASE ~opens
      <4>1. window'[f] = "failed"
        BY <1>1, <2>1, <3>2 DEF TypeOK
      <4> QED
        BY <2>2, <4>1 DEF FrameOK, ImportsInto
    <3> QED
      BY <3>1, <3>2
  <2> HIDE DEF opens
  <2> QED
    BY <1>1, <1>3, <2>1, <2>3 DEF TypeOK
<1>7. CASE Close(f) \/ Joined(f)
  <2>1. Gone(f) /\ UNCHANGED dirs
    BY <1>7 DEF Close, Joined
  <2>2. FrameOK(f, d)'
    BY <1>1, <2>1 DEF Gone, FrameOK, ImportsInto, TypeOK
  <2> QED
    BY <1>1, <1>3, <2>1, <2>2 DEF Gone, TypeOK
<1>8. CASE CloseLoading(f)
  <2>1. UNCHANGED <<dirs, window, file, dir, loader, target>>
    BY <1>8 DEF CloseLoading
  <2>2. FrameOK(f, d)'
    BY <1>2, <2>1 DEF FrameOK, ImportsInto, Records, Exists, dirs
  <2> QED
    BY <1>3, <2>1, <2>2
<1> QED
  BY <1>4, <1>5, <1>6, <1>7, <1>8

LEMMA NextDirOK ==
    ASSUME Typed, Typed', TargetsNamed, Next, NEW d \in Dirs, DirOK(d), d \notin Sharing'
    PROVE  DirOK(d)'
<1>1. CASE Crash
  <2>1. /\ UNCHANGED dirs
        /\ \A f \in Frames : window'[f] = "none" /\ loader'[f] = "none"
    BY <1>1 DEF Crash
  <2> QED
    BY <2>1 DEF DirOK, FrameOK, ImportsInto, dirs
<1> QED
  BY <1>1, LoaderDirOK, GuiDirOK DEF Next

\* Nothing is left of d, on the disk or in a window, after a step.
LEMMA ForgottenDirOK ==
    ASSUME Typed', NEW d \in Dirs, ~Known(d)'
    PROVE  DirOK(d)'
<1>1. source'[d] = NoSource
  BY DEF Known, Typed, TypeOK
<1>2. \A f \in Frames : target'[f] # d /\ dir'[f] # d
  BY DEF Known
<1> QED
  BY <1>1, <1>2 DEF DirOK, FrameOK, Sharing, ImportsInto

LEMMA NextShared == SharedInv /\ [SharedNext]_sharedVars => SharedInv'
<1> SUFFICES ASSUME SharedInv, [SharedNext]_sharedVars PROVE SharedInv'
  OBVIOUS
<1>1. CASE UNCHANGED sharedVars
  <2>1. Typed'
    BY <1>1, NextTyped DEF SharedInv, sharedVars
  <2> QED
    BY <1>1, <2>1
    DEF sharedVars, vars, SharedInv, TargetsNamed, Importing, DirOK, FrameOK, Sharing,
        ImportsInto, Exists, Records
<1>2. CASE SharedNext
  <2>1. Next /\ shared' = {d \in shared \cup Sharing' : Known(d)'}
    BY <1>2 DEF SharedNext
  <2>2. Typed /\ Typed' /\ TargetsNamed
    BY <2>1, NextTyped DEF SharedInv
  <2>3. TargetsNamed'
    BY <2>1, <2>2, NextTargetsNamed
  <2>4. shared' \subseteq Dirs
    BY <2>1 DEF SharedInv, Sharing
  <2>5. ASSUME NEW d \in Dirs \ shared'
        PROVE  DirOK(d)'
    <3>1. CASE Known(d)'
      <4>1. d \notin shared /\ d \notin Sharing'
        BY <2>1, <2>5, <3>1
      <4> QED
        BY <2>1, <2>2, <4>1, NextDirOK DEF SharedInv
    <3>2. CASE ~Known(d)'
      BY <2>2, <3>2, ForgottenDirOK
    <3> QED
      BY <3>1, <3>2
  <2> QED
    BY <2>2, <2>3, <2>4, <2>5 DEF SharedInv
<1> QED
  BY <1>1, <1>2

LEMMA SharedInvAlways == SharedSpec => []SharedInv
  BY InitShared, NextShared, PTL DEF SharedSpec

\* Only the choice of its name makes an import go into a directory.
LEMMA NewImport ==
    ASSUME Typed, TargetsNamed, Next, NEW d \in Dirs, NEW f \in Frames,
           ImportsInto(f, d)', ~ImportsInto(f, d)
    PROVE  MakeOutputDirectoryPath(f)
<1> USE DEF At, Gui, ImportsInto
<1>1. loader \in [Frames -> Loaders] /\ target \in [Frames -> Dirs \cup {NoDir}]
  BY DEF Typed, TypeOK, Loaders
<1>2. d # NoDir
  BY OpenFlowAssumption
<1>3. ASSUME NEW g \in Frames, LoaderStep(g) \/ ImportFails(g)
      PROVE  MakeOutputDirectoryPath(f)
  <2>1. CASE MakeOutputDirectoryPath(g)
    BY <1>1, <2>1 DEF MakeOutputDirectoryPath
  <2>2. CASE FindDataset(g) \/ FindNothing(g) \/ ImportFails(g)
    BY <1>1, <2>2 DEF FindDataset, FindNothing, ImportFails
  <2>3. CASE InferTypes(g) \/ WriteDataFiles(g) \/ WriteSourceInfo(g)
    BY <1>1, <2>3 DEF InferTypes, WriteDataFiles, WriteSourceInfo
  <2>4. CASE ImportCancelled(g)
    BY <1>1, <1>2, <2>4 DEF ImportCancelled
  <2> QED
    BY <1>3, <2>1, <2>2, <2>3, <2>4 DEF LoaderStep
<1>4. ASSUME NEW g \in Frames, NEW p \in Files, OpenConverted(g, p) \/ OpenPreview(g, p)
      PROVE  FALSE
  BY <1>1, <1>4 DEF OpenConverted, OpenPreview, MayOpen, thread
<1>5. ASSUME NEW g \in Frames, OnLoadDone(g) \/ Close(g) \/ CloseLoading(g) \/ Joined(g)
      PROVE  FALSE
  BY <1>1, <1>5 DEF OnLoadDone, Close, CloseLoading, Joined, Gone
<1>6. CASE Crash
  BY <1>6 DEF Crash
<1> QED
  BY <1>3, <1>4, <1>5, <1>6 DEF Next

\* What a step that removes a directory is: the end of a cancelled import into it.
LEMMA RemovedByImport ==
    ASSUME Typed, [Next]_vars, NEW d \in DOMAIN written \ DOMAIN written'
    PROVE  \E g \in Frames : /\ ImportsInto(g, d)
                             /\ target' = [target EXCEPT ![g] = NoDir]
<1>1. PICK g \in Frames : ImportCancelled(g)
  <2>1. ~UNCHANGED written
    OBVIOUS
  <2>2. ASSUME NEW h \in Frames, InferTypes(h) \/ WriteDataFiles(h)
        PROVE  FALSE
    BY <2>2 DEF InferTypes, WriteDataFiles
  <2> QED
    BY <2>1, <2>2
    DEF Next, LoaderStep, FindDataset, FindNothing, MakeOutputDirectoryPath,
        WriteSourceInfo, ImportFails, OpenConverted, OpenPreview, MayOpen, OnLoadDone,
        Close, CloseLoading, Joined, Crash, dirs, vars
<1> QED
  BY <1>1 DEF ImportCancelled, RemoveImport, ImportsInto
-------------------------------------------------------------------------------
(* The theorems on races: for every value of Racing. *)

(* Two imports come to share a directory only between the check that its    *)
(* name is free and the first write to it, and only for files of one name.  *)
THEOREM OnlyUncreatedShared == SharedSpec => SharedBeforeCreated
<1>1. SharedInv /\ SharedInv' /\ [SharedNext]_sharedVars =>
          [\A d \in shared' \ shared :
              /\ ~Exists(d) /\ ~Exists(d)'
              /\ \A f \in Frames : ImportsInto(f, d)' =>
                    loader'[f] = "infer" /\ Name[file'[f]] = d[1]]_sharedVars
  <2> SUFFICES ASSUME SharedInv, SharedInv', SharedNext, NEW d \in shared' \ shared
               PROVE  /\ ~Exists(d) /\ ~Exists(d)'
                      /\ \A f \in Frames : ImportsInto(f, d)' =>
                            loader'[f] = "infer" /\ Name[file'[f]] = d[1]
    OBVIOUS
  <2>1. Typed /\ TargetsNamed /\ TargetsNamed' /\ Next /\ d \in Dirs /\ d \in Sharing'
    BY DEF SharedInv, SharedNext
  <2>2. DirOK(d)
    BY <2>1 DEF SharedInv
  <2>3. PICK h \in Frames : ImportsInto(h, d)' /\ ~ImportsInto(h, d)
    BY <2>1, <2>2 DEF DirOK, Sharing
  <2>4. MakeOutputDirectoryPath(h)
    BY <2>1, <2>3, NewImport
  <2>5. target'[h] = d /\ ~Exists(d) /\ UNCHANGED dirs
    <3>1. PICK t : ~Exists(t) /\ target' = [target EXCEPT ![h] = t]
      BY <2>4 DEF MakeOutputDirectoryPath
    <3>2. target'[h] = t
      BY <2>1, <3>1 DEF Typed, TypeOK
    <3> QED
      BY <2>3, <2>4, <3>1, <3>2 DEF MakeOutputDirectoryPath, ImportsInto
  <2>6. ASSUME NEW f \in Frames, ImportsInto(f, d)'
        PROVE  loader'[f] = "infer" /\ Name[file'[f]] = d[1]
    <3>1. Name[file'[f]] = d[1]
      BY <2>1, <2>6 DEF TargetsNamed, ImportsInto, Importing
    <3>2. CASE f = h
      BY <2>1, <2>4, <3>1, <3>2 DEF MakeOutputDirectoryPath, At, Typed, TypeOK
    <3>3. CASE f # h
      <4>1. loader'[f] = loader[f] /\ target'[f] = target[f]
        BY <2>1, <2>4, <3>3 DEF MakeOutputDirectoryPath, At, Typed, TypeOK
      <4>2. ImportsInto(f, d)
        BY <2>6, <4>1 DEF ImportsInto
      <4> QED
        BY <2>2, <2>5, <3>1, <4>1, <4>2 DEF DirOK, FrameOK, ImportsInto
    <3> QED
      BY <3>2, <3>3
  <2> QED
    BY <2>5, <2>6 DEF Exists, dirs
<1> QED
  BY <1>1, SharedInvAlways, PTL DEF SharedSpec, SharedBeforeCreated

LEMMA DirWhole ==
    ASSUME SharedInv, NEW d \in Dirs \ shared, source[d] # NoSource
    PROVE  Whole(d, source[d].content)
<1>1. DirOK(d)
  BY DEF SharedInv
<1> QED
  BY <1>1 DEF SharedInv, Typed, TypeOK, DirOK, FrameOK, ImportsInto, Whole

(* Whatever races, a directory that no two imports shared is a complete     *)
(* import if it has a source.txt, and nobody writes to it.                  *)
THEOREM UnsharedAreWhole == SharedSpec => []UnsharedWhole
<1>1. SharedInv => UnsharedWhole
  BY DirWhole DEF UnsharedWhole
<1> QED
  BY <1>1, SharedInvAlways, PTL

(* Whatever races, a window whose dataset lies in such a directory shows    *)
(* the complete dataset of the file it was opened for.                      *)
THEOREM WindowsShowUnshared == SharedSpec => []UnsharedOwn
<1>1. SharedInv => UnsharedOwn
  <2> SUFFICES ASSUME SharedInv, NEW f \in Frames, window[f] = "loaded", dir[f] \notin shared
               PROVE  Whole(dir[f], Content[file[f]])
    BY DEF UnsharedOwn
  <2>1. dir[f] \in Dirs \ shared
    BY DEF SharedInv, Typed, TypeOK
  <2>2. Records(dir[f], file[f])
    BY <2>1 DEF SharedInv, DirOK, FrameOK
  <2> QED
    BY <2>1, <2>2, DirWhole DEF Records
<1> QED
  BY <1>1, SharedInvAlways, PTL

(* Also when files of one name are loaded at once: a cancelled import       *)
(* removes nothing that another window shows or imports, but what is in a   *)
(* directory that two imports chose.                                        *)
THEOREM OwnOutputDiscarded == SharedSpec => UnsharedKept
<1>1. SharedInv /\ [SharedNext]_sharedVars =>
          [\A f \in Frames : \A d \in (DOMAIN written \ DOMAIN written') \ shared :
              /\ dir[f] # d
              /\ target[f] = d /\ loader[f] \in {"write", "source", "posted"}
                     => target'[f] # d]_sharedVars
  <2> SUFFICES ASSUME SharedInv, SharedNext, NEW f \in Frames,
                      NEW d \in (DOMAIN written \ DOMAIN written') \ shared
               PROVE  /\ dir[f] # d
                      /\ target[f] = d /\ loader[f] \in {"write", "source", "posted"}
                             => target'[f] # d
    OBVIOUS
  <2>1. Typed /\ Next /\ d \in Dirs /\ d # NoDir /\ DirOK(d)
    BY OpenFlowAssumption DEF SharedInv, SharedNext, Typed, TypeOK
  <2>2. PICK g \in Frames : ImportsInto(g, d) /\ target' = [target EXCEPT ![g] = NoDir]
    BY <2>1, RemovedByImport
  <2>3. dir[f] = d => window[f] = "loaded"
    BY <2>1 DEF Typed, TypeOK
  <2>4. CASE f = g
    BY <2>1, <2>2, <2>4 DEF ImportsInto, Typed, TypeOK
  <2>5. CASE f # g
    <3>1. /\ ~ImportsInto(f, d)
          /\ ~(loader[f] = "posted" /\ target[f] = d)
          /\ ~(window[f] = "loaded" /\ dir[f] = d)
      BY <2>1, <2>2, <2>5, ImportAlone
    <3> QED
      BY <2>3, <3>1 DEF ImportsInto
  <2> QED
    BY <2>4, <2>5
<1> QED
  BY <1>1, SharedInvAlways, PTL DEF SharedSpec, UnsharedKept

(* As long as no two files of one name load at once no directory is ever    *)
(* shared.                                                                  *)
THEOREM NothingShared == ~Racing /\ SharedSpec => [](shared = {})
<1>1. Inv => Sharing = {}
  <2> SUFFICES ASSUME Inv, NEW d \in Dirs, NEW f \in Frames, NEW g \in Frames, f # g,
                      ImportsInto(f, d), ImportsInto(g, d)
               PROVE  FALSE
    BY DEF Sharing
  <2>1. d # NoDir
    BY OpenFlowAssumption
  <2>2. d[1] = Name[file[f]] /\ d[1] = Name[file[g]]
    BY <2>1 DEF Inv, LoaderOK, ImportsInto
  <2>3. f \in Loading /\ g \in Loading
    BY InLoading DEF Inv, ImportsInto
  <2> QED
    BY <2>2, <2>3 DEF Inv, Apart
<1>2. SharedInit => Init /\ shared = {}
  BY DEF SharedInit
<1>3. [SharedNext]_sharedVars => [Next]_vars
  BY DEF SharedNext, sharedVars
<1>4. (Inv => Sharing = {})'
  BY <1>1, PTL
<1>5. shared = {} /\ Inv' /\ [SharedNext]_sharedVars => (shared = {})'
  BY <1>4 DEF SharedNext, sharedVars
<1>6. ~Racing /\ Spec => []Inv
  BY InvAlways
<1> QED
  BY <1>2, <1>3, <1>5, <1>6, PTL DEF Spec, SharedSpec

(* So then a cancelled import removes nothing of another window at all.     *)
COROLLARY ApartDiscardsOwn == ~Racing /\ SharedSpec => DiscardsOwnOutput
<1>1. shared = {} /\
      [\A f \in Frames : \A d \in (DOMAIN written \ DOMAIN written') \ shared :
          /\ dir[f] # d
          /\ target[f] = d /\ loader[f] \in {"write", "source", "posted"}
                 => target'[f] # d]_sharedVars
      => [\A f \in Frames : \A d \in DOMAIN written \ DOMAIN written' :
              /\ dir[f] # d
              /\ target[f] = d /\ loader[f] \in {"write", "source", "posted"}
                     => target'[f] # d]_vars
  BY DEF sharedVars
<1> QED
  BY <1>1, NothingShared, OwnOutputDiscarded, PTL DEF UnsharedKept, DiscardsOwnOutput
===============================================================================
