SPECIFICATION Spec
CONSTANTS
  Writers = {w1, w2}
  MaxSize = 1
  MaxEntries = 1
  MaxBlocks = 4
  MaxFid = 2
  MaxPlace = 3
  MaxStops = 1
  MaxFailures = 1
SYMMETRY WriterSymmetry
INVARIANTS TypeOK OwnBlock ReadsBack
CHECK_DEADLOCK FALSE
