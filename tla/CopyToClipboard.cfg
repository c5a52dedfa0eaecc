SPECIFICATION ProgramsSpec
CONSTANTS
    DriveCount = 2
    Capacity <- MCCapacity
    Tree <- MCTree
    Handles = {4, 8}
    File <- MCFile
    SizeBits = 4
    IsStream <- MCIsStream
    ClickPhases = {"finished"}
    ExportColumns = {"none", "descendants"}
    Commands <- MCCommands
INVARIANTS
    CopyReachesClipboard
