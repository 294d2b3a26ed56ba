CONSTANTS
    Ids <- MCIds
    Vals <- MCVals
    NoId = NoId
    MaxList = 2
    MaxHist = 4
    SpawnData <- WithId
SPECIFICATION Spec
INVARIANT TypeOK
INVARIANT StoreMatchesHistory
CHECK_DEADLOCK FALSE
