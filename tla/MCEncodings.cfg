CONSTANTS
  Key = {1, 2, 3}
  Val = {v1, v2}
  Hash <- MCHash
  DICT_HT_INITIAL_SIZE = 1
  MaxDoublings = 3
  EmptyVisitsPerStep = 2
  ForceResizeRatio = 1
  ExpandSizes = {8}
  RehashBatch = 2
  MaxIterators = 1
  Values = {1, 2}
  Bytes <- MCBytes
  optimization_level <- MCLevels
  SIZE_SAFETY_LIMIT = 100
  Strings = {2}
  Saving <- MCSaving
  MIN_COMPRESS_BYTES = 13
  MIN_COMPRESS_IMPROVE = 1
  FILL_MAX = 8
  COMPRESS_MAX = 4
  Options <- MCOptions
  Ziplists <- MCZiplists
  Starts <- MCStarts
  Counts <- MCCounts
  RangeStarts <- MCRangeStarts
  RotateInPlace = FALSE
  MaxCount = 5
  NoValue = NoValue
  ZLValues = {0, 2, 6}
  Payload <- MCPayload
  ZIP_BIGLEN = 8
  LENGTH_MAX = 3
  ZLStarts <- MCZLStarts
  ZLCounts <- MCZLCounts
  Others <- MCOthers
  MaxEntries = 4
  ZLNothing = ZLNothing
  Base = 4
  Members <- MCMembers
  Positions = {0, 2, 4}
  Objs = {1, 2, 3, 4}
  Scores = {1, 2}
  ZSKIPLIST_MAXLEVEL = 3
  Bounds = {0, 1, 2, 3}
SPECIFICATION EncSpec
INVARIANTS
  TypeOK TablesConsistent
  CountsExact
  LayoutExact SearchExact
PROPERTIES
  ImplementsMap RehashForward
  ImplementsList
  ZipListImplementsList ImplementsSet DeletesExact
VIEW MCView
