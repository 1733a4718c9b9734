CONSTANTS
    ChunkSize = 1
    Infinity = 99
    Windows = {w1, w2}
    NumCols = 1
    NumRows = 2
    NumericCols = {0}
    Values <- MCValues
    NoEdit = NoEdit
    NoWindow = NoWindow
    Faults = {"dataOpen", "dataWrite", "statsOpen", "statsWrite", "crash"}
SPECIFICATION Spec
PROPERTIES
    SheetSpec
    SoundIndexStaysSound
