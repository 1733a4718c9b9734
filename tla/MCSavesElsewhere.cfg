CONSTANTS
    Frames = {f1, f2}
    Files <- MCFiles
    Name <- MCName
    Content <- MCContent
    NumDirs = 2
    NoDir = NoDir
    NoFile = NoFile
    NoSource = NoSource
    NoFrame = NoFrame
    Racing = FALSE
SPECIFICATION Spec
INVARIANTS
    SavesToOpenedFile
CHECK_DEADLOCK FALSE
