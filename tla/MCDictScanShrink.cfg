SPECIFICATION Spec
CONSTANTS
  Key = {1, 2, 3}
  Val = {val}
  Hash <- MCHash
  DICT_HT_INITIAL_SIZE = 2
  MaxDoublings = 2
  EmptyVisitsPerStep = 2
  ForceResizeRatio = 1
  CursorBits = 3
  RehashBatch = 1
  MaxRatio = 4
INVARIANT ScanComplete
