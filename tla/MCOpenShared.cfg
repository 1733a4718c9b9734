CONSTANTS
    Frames = {f1, f2}
    Files <- MCFiles
    Name <- MCName
    Content <- MCContent
    NumDirs = 3
    NoDir = NoDir
    NoFile = NoFile
    NoSource = NoSource
    NoFrame = NoFrame
    Racing = TRUE
SPECIFICATION SharedFairSpec
INVARIANTS
    TypeOK
    UnsharedWhole
    UnsharedOwn
PROPERTIES
    SharedBeforeCreated
    UnsharedKept
    LoadingEnds
    GuiReturns
CHECK_DEADLOCK FALSE
