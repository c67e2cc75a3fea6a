SPECIFICATION Spec
CONSTANTS
  Writers = {w1, w2}
  MaxMemTableSize = 1
  NumMemTables = 1
  SyncWrite = TRUE
  Uneven = {1}
  MaxWrites = 2
  MaxFid = 5
  MaxGen = 3
  MaxCrashes = 2
  MaxFailures = 0
  MaxToggles = 1
  MaxConflicts = 1
  MaxQueries = 1
  MaxCloses = 0
SYMMETRY WriterSymmetry
INVARIANTS TypeOK Durable Visible QueryComplete FlushInOrder WalReclaimed
PROPERTY ImplementsDurableLog
CHECK_DEADLOCK FALSE
