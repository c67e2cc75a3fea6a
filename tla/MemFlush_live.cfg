SPECIFICATION FairSpec
CONSTANTS
  Writers = {w1}
  MaxMemTableSize = 1
  NumMemTables = 1
  SyncWrite = FALSE
  Uneven = {}
  MaxWrites = 3
  MaxFid = 5
  MaxGen = 12
  MaxCrashes = 0
  MaxFailures = 1
  MaxToggles = 0
  MaxConflicts = 0
  MaxQueries = 0
  MaxCloses = 1

PROPERTIES CloseReturns OpenReturns EventuallyFlushed WriteReturns
CHECK_DEADLOCK FALSE
