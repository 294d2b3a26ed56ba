CONSTANTS
    Ids <- MCIds
    Vals <- MCVals
    NoId = NoId
    SockIds = {s1, s2}
    Null = Null
    NoData = NoData
    Garbage = Garbage
    Frames <- ViewFrames
    StatVals <- MCStats
    InitStats = "zeros"
    MaxLog = 1
    MaxMounts = 1
    HostCalls = FALSE
    Searches <- MCSearches
    Includes <- MCIncludes
SPECIFICATION ViewSpec
INVARIANT ViewTypeOK
INVARIANT SpinnerNeverThrows
