CONSTANTS
    ChunkSize = 2
    Infinity = 99
    Windows = {w1}
    NumCols = 2
    NumRows = 3
    NumericCols = {0}
    Values <- MCValues
    NoEdit = NoEdit
    NoWindow = NoWindow
    Faults = {"dataOpen"}
SPECIFICATION Spec
INVARIANTS
    TypeOK
    IndexReflectsDisk
    StatsFileReflectsDisk
    QueriesExact
    SavedColumnsClean
PROPERTIES
    SheetSpec
