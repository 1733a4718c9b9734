------------------------------ MODULE MCWriteBack ------------------------------
(* WriteBack on a CSV of two columns and two rows, with up to                *)
(* MaxDisturbances faults, crashes and foreign writes in a behaviour.  "01"  *)
(* is stored as 1 but printed "1"; "1+" stands for a double of more than 15  *)
(* digits, a value of its own that is printed as "1" too.                    *)
EXTENDS WriteBack

CONSTANT MaxDisturbances

MCTexts   == {"1", "01", "1+", ""}
MCValues  == {1, 2}
MCStored  == [t \in MCTexts |-> IF t \in {"1", "01"} THEN 1 ELSE 2]
MCPrinted == [v \in MCValues |-> "1"]

Record(first, second) == [c \in Cols |-> IF c = 0 THEN first ELSE second]

MCInitialFiles  == {<<Record("01", "1+"), Record("1+", "1")>>}
MCExternalFiles == {<<Record("1+", "01")>>, <<Record("01", "1+"), Record("1", "1")>>}

VARIABLE disturbances   \* history: how many so far

Disturbed ==
    \/ \E c \in Cols : ColumnWriteFails(c) \/ StatsWriteFails(c)
    \/ TempOpenFails \/ ReplaceFails \/ SourceWriteFails
    \/ ExternalChange
    \/ Crash
    \/ WriteTempFile /\ save'.out # save'.crc

CountedNext ==
    /\ Next
    /\ disturbances' = IF Disturbed THEN disturbances + 1 ELSE disturbances
    /\ disturbances' <= MaxDisturbances

CountedInit == Init /\ disturbances = 0

CountedSpec == CountedInit /\ [][CountedNext]_<<vars, disturbances>>

(* As long as nothing went wrong before, a save that replaced the CSV has    *)
(* put every edit into it, and a CSV that the fingerprint recognises is what *)
(* the dataset shows (DoSave, WriteSourceInfo, FindConvertedDirByStat).      *)
InSyncUntilDisturbed == disturbances = 0 => WrittenBack /\ ReuseShowsFile
===============================================================================
