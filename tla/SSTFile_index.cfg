SPECIFICATION Spec
CONSTANTS
    MinInt64 <- MCMinInt64
    MaxInt64 <- MCMaxInt64
    KeyLen <- MCKeyLen
    BlockLen <- MCBlockLen
    MaxIndexEntries = 2
    MaxFileSize = 85
    BatchSize = 2
    MaxDeletes = 2
    MaxOpens = 2
    Inputs <- MCInputs
    Requests <- MCRequests
INVARIANTS TypeOK FilesWhole DeletedGone OthersKept KeysWalked IterationWhole
CHECK_DEADLOCK FALSE
