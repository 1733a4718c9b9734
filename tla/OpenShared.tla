------------------------------ MODULE OpenShared ------------------------------
(***************************************************************************)
(* OpenFlow with a history variable: the directories that two imports have *)
(* at one time chosen for their output.  MakeOutputDirectoryPath only asks *)
(* whether a directory exists, and ImportCsv creates it a pass over the    *)
(* CSV later, so two loaders of files of one name can end up in one        *)
(* directory.  The properties say what the code still guarantees then.     *)
(***************************************************************************)
EXTENDS OpenFlow

VARIABLE shared     \* directories shared by two imports, until nothing is left of them

\* The output of f's import goes, or is to go, into d.
ImportsInto(f, d) == loader[f] \in {"infer", "write", "source"} /\ target[f] = d

Sharing == {d \in Dirs : \E f, g \in Frames : /\ f # g
                                              /\ ImportsInto(f, d)
                                              /\ ImportsInto(g, d)}

\* The directory is there, or some window or loader still has its path.
Known(d) == Exists(d) \/ \E f \in Frames : target[f] = d \/ dir[f] = d

SharedInit == Init /\ shared = {}

SharedNext == Next /\ shared' = {d \in shared \cup Sharing' : Known(d)'}

sharedVars == <<vars, shared>>

SharedSpec == SharedInit /\ [][SharedNext]_sharedVars

SharedFairSpec == SharedSpec /\ Fairness
-------------------------------------------------------------------------------
(* Two imports come to share a directory only before either has created it, *)
(* and only if their files have one name: the race is between the check of  *)
(* the name and the first write (spreadsheet_frame.cpp:209), and no import  *)
(* joins a directory that is there, partial or complete.                    *)
SharedBeforeCreated ==
    [][\A d \in shared' \ shared :
          /\ ~Exists(d) /\ ~Exists(d)'
          /\ \A f \in Frames : ImportsInto(f, d)' =>
                                  loader'[f] = "infer" /\ Name[file'[f]] = d[1]]_sharedVars

(* However files of one name race, a directory that the search would find   *)
(* is a complete import of what its source.txt says, if it was never        *)
(* shared: source.txt is written last (csv import, then WriteSourceInfo),   *)
(* so partial, failed and crashed imports are not found.                    *)
UnsharedWhole == \A d \in Dirs \ shared : source[d] # NoSource => Whole(d, source[d].content)

(* A window that shows a dataset shows the one of the file it was opened    *)
(* for, complete, and nobody is writing into it, unless two imports shared  *)
(* its directory.                                                           *)
UnsharedOwn ==
    \A f \in Frames : window[f] = "loaded" /\ dir[f] \notin shared =>
                         Whole(dir[f], Content[file[f]])

(* "Window closed mid-import: discard the partial output"                   *)
(* (spreadsheet_frame.cpp:616) takes the dataset or the unfinished import   *)
(* of another window only if two imports shared its directory: a dataset    *)
(* that was there before the closing window's import chose its directory    *)
(* is never removed, whatever races.                                        *)
UnsharedKept ==
    [][\A f \in Frames : \A d \in (DOMAIN written \ DOMAIN written') \ shared :
          /\ dir[f] # d
          /\ target[f] = d /\ loader[f] \in {"write", "source", "posted"}
                 => target'[f] # d]_sharedVars
===============================================================================
