CONSTANTS
    NumCols = 2
    Texts <- MCTexts
    Values <- MCValues
    Stored <- MCStored
    Printed <- MCPrinted
    Blank = ""
    InitialFiles <- MCInitialFiles
    ExternalFiles <- MCExternalFiles
    NoSource = NoSource
    Faults = {"columnWrite"}
    MaxDisturbances = 1
SPECIFICATION CountedSpec
INVARIANTS
    WrittenBack
CHECK_DEADLOCK FALSE
