CONSTANTS
    ChunkSize = 2
    Infinity = 99
    MaxRows = 5
    Values <- MCValues
SPECIFICATION Spec
INVARIANTS
    TypeOK
    ChunksAligned
    LoadedRecordsSummarise
    AnswersExact
CHECK_DEADLOCK FALSE
