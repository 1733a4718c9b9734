CONSTANTS
    Delimiter = ","
    Letters = {"x"}
    Beginnings <- MCBeginnings
    MaxTyped = 4
    MaxText = 2
    EditTexts <- MCEditTexts
    MaxEdits = 2
SPECIFICATION Spec
INVARIANTS
    ScannerAgrees
    CsvInSync
PROPERTIES
    OtherRecordsVerbatim
    NoSilentDefault
CHECK_DEADLOCK FALSE
