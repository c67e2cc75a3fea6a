SPECIFICATION Spec
CONSTANTS
    MinInt64 = 0
    MaxInt64 = 7
    LastTime = 4
    MaxBlockSize = 2
    BufferSize = 2
    MaxDeletes = 1
    FileSets <- MCFileSets
    CacheSets <- MCCacheSets
    Ranges <- MCRanges
    Deletes <- MCDeletes
INVARIANTS TypeOK NewestReturned NothingMissed ResultsOrdered
CHECK_DEADLOCK FALSE
