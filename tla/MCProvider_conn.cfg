CONSTANTS
    Ids <- MCIds
    Vals <- MCVals
    NoId = NoId
    SockIds = {s1, s2}
    Null = Null
    NoData = NoData
    Garbage = Garbage
    Frames <- KnownFrames
    StatVals <- MCStats
    InitStats = "zeros"
    MaxLog = 2
    MaxMounts = 1
    HostCalls = FALSE
SPECIFICATION Spec
INVARIANT TypeOK
 
INVARIANT PhaseTracksSocket
PROPERTY ReconnectEventually
PROPERTY ImplementsConnectionPhase
