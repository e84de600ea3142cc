SPECIFICATION TSpec
CONSTANTS
  Key = {1, 2, 3, 4}
  Val = {val}
  Hash <- MCHash
  DICT_HT_INITIAL_SIZE = 2
  MaxDoublings = 3
  EmptyVisitsPerStep = 2
  ForceResizeRatio = 1
  CursorBits = 4
  RehashBatch = 1
  MaxRatio = 2
  IterKey = {1, 2, 3}
  NoEntry = NoEntry
  TicksPerSecond = 2
  Delays = {0, 2}
  MaxIds = 3
  MaxTime = 4
  MaxSetBacks = 1
  NoTimer = NoTimer
INVARIANTS ScanComplete IterationExact DueAreCalled
PROPERTIES CalledRightly ScanEnds RehashMovesOn
