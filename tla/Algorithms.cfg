SPECIFICATION AlgorithmsSpec
CONSTANTS
    s1 = s1  s2 = s2  s3 = s3  s4 = s4
    Streams = {s1, s2, s3, s4}
    Priorities = {0, 1, 2}
    Sizes = {2, 3, 5}
    Rounding = {0, 1}
    MaxReads = 2
    Mfts <- MCMfts  BufferSize = 3
    RecordSizes = {512, 1024, 2048}  Contents <- MCContents  CountBits = 2  MaxWrites = 3
    Characters <- MCCharacters
    Patterns <- MCPatterns
    Root <- MCRoot
    Names <- MCNames
    MaxDepth = 4
SYMMETRY Alike
INVARIANTS
    BoundedOvertaking
    BlockOfItsOwn
    FoundIffMeant
    PruningHidesNothing
    ToolsReadTheMft
    RecordWholeOrBad
PROPERTIES
    
    SelectsAsTheLoop
CHECK_DEADLOCK FALSE
