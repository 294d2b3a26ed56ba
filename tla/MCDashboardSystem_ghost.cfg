CONSTANTS
    Ids <- MCIds
    Vals <- MCVals
    NoId = NoId
    SockIds = {s1, s2}
    Null = Null
    NoData = NoData
    Garbage = Garbage
    Frames = {}
    StatVals <- MCStats
    InitStats = "zeros"
    MaxLog = 4
    MaxMounts = 1
    HostCalls = FALSE
    MaxChan = 2
    MaxEvents = 4
    MaxSends = 0
SPECIFICATION SysSpec
INVARIANT NoGhostWhenSynced
