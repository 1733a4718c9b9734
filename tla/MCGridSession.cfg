CONSTANTS
    Rows = {r1, r2, r3}
    Values = {0, 1}
    Junk = Junk
    NoRow = NoRow
    NoEditor = NoEditor
SPECIFICATION Spec
INVARIANTS
    TypeOK
    ClosesWithConsent
PROPERTIES
    SaveCoversSession
    TitleCatchesUp
CHECK_DEADLOCK FALSE
