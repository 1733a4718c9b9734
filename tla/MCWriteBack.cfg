CONSTANTS
    NumCols = 2
    Texts <- MCTexts
    Values <- MCValues
    Stored <- MCStored
    Printed <- MCPrinted
    Blank = ""
    InitialFiles <- MCInitialFiles
    ExternalFiles <- MCExternalFiles
    NoSource = NoSource
    Faults = {"columnWrite", "statsWrite", "tempOpen", "shortWrite", "rename", "copy", "sourceWrite", "external", "crash"}
    MaxDisturbances = 2
SPECIFICATION CountedSpec
INVARIANTS
    InSyncUntilDisturbed
PROPERTIES
    UneditedRowsVerbatim
    ChangedRowsCaptured
CHECK_DEADLOCK FALSE
