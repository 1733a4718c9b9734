CONSTANTS
    Delimiter = ";"
    Letters = {"x"}
    Beginnings <- MCBeginnings
    MaxTyped = 4
    MaxText = 2
    EditTexts <- MCEditTexts
    MaxEdits = 1
SPECIFICATION Spec
INVARIANTS
    CsvInSync
CHECK_DEADLOCK FALSE
