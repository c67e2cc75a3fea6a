SPECIFICATION Spec
CONSTANTS
  Writers = {w1}
  MaxMemTableSize = 2
  NumMemTables = 1
  SyncWrite = FALSE
  Uneven = {}
  MaxWrites = 2
  MaxFid = 2
  MaxGen = 1
  MaxCrashes = 1
  MaxFailures = 0
  MaxToggles = 0
  MaxConflicts = 1
  MaxQueries = 0
  MaxCloses = 0

INVARIANT RestoreSucceeds
CHECK_DEADLOCK FALSE
