SPECIFICATION Spec
CONSTANTS
    MinInt64 = 0
    MaxInt64 = 9
    LastTime = 4
    BlockSize = 2
    Size = 2
    Encoders = {e1, e2}
    SeparateEnabled = TRUE
    MaxEncodeErrors = 1
    MaxDeletes = 1
    Older <- MCOlder
    MemTables <- MCMemTables
    Deletes <- MCDeletes
SYMMETRY EncoderSymmetry
INVARIANTS TypeOK FlushedWhole MergedExactly BlocksOrdered
CHECK_DEADLOCK FALSE
