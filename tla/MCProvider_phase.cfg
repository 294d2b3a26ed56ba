CONSTANTS
    Ids <- MCIds
    Vals <- MCVals
    NoId = NoId
    Null = Null
    NoData = NoData
    Garbage = Garbage
    Frames <- ConnFrames
    StatVals <- MCStats
    InitStats = "zeros"
    MaxLog = 1
    MaxMounts = 1
    HostCalls = FALSE
    SockIds = {s1, s2}
SPECIFICATION Spec
INVARIANT ConnectingPhaseShown
