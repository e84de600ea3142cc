CONSTANTS
  Values = {1, 2}
  Bytes <- MCBytes
  optimization_level <- MCLevels
  SIZE_SAFETY_LIMIT = 100
  Strings = {2}
  Saving <- MCSaving
  MIN_COMPRESS_BYTES = 13
  MIN_COMPRESS_IMPROVE = 1
  FILL_MAX = 8
  COMPRESS_MAX = 4
  Options <- MCShallow
  Ziplists <- MCZiplists
  Starts <- MCStarts
  Counts <- MCCounts
  RangeStarts <- MCRangeStarts
  RotateInPlace = FALSE
  MaxCount = 5
  NoValue = NoValue
SPECIFICATION QLSpec
INVARIANT EndsUncompressed
