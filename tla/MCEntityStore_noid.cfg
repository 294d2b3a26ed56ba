CONSTANTS
    Ids <- MCIds
    Vals <- MCVals
    NoId = NoId
    MaxList = 2
    MaxHist = 4
    SpawnData <- AnyEntry
SPECIFICATION Spec
INVARIANT StoreMatchesHistory
CHECK_DEADLOCK FALSE
