CONSTANTS
    Ids <- MCIds
    Vals <- MCVals
    NoId = NoId
    SockIds = {s1, s2}
    Null = Null
    NoData = NoData
    Garbage = Garbage
    Frames = {}
    StatVals <- MCStats
    InitStats = "zeros"
    MaxLog = 6
    MaxMounts = 1
    HostCalls = FALSE
    MaxChan = 3
    MaxEvents = 6
    MaxSends = 1
SPECIFICATION SysSpec
INVARIANT SysTypeOK
INVARIANT UpdateRefreshes
INVARIANT LogNoDuplicates
