CONSTANTS
  Values = {1, 2}
  Bytes <- MCSame
  optimization_level <- MCLevels
  SIZE_SAFETY_LIMIT = 100
  Strings = {1, 2}
  Saving <- MCSaving
  MIN_COMPRESS_BYTES = 13
  MIN_COMPRESS_IMPROVE = 1
  FILL_MAX = 8
  COMPRESS_MAX = 4
  Options <- MCPlain
  Ziplists <- MCZiplists
  Starts <- MCStarts
  Counts <- MCCounts
  RangeStarts <- MCRangeStarts
  RotateInPlace = TRUE
  MaxCount = 5
  NoValue = NoValue
SPECIFICATION QLSpec
PROPERTY RotateMoves
