SPECIFICATION ReqSpec
CONSTANTS
  Scripts <- MCScripts
  PROTO_IOBUF_LEN = 3
  PROTO_MBULK_BIG_ARG = 3
  PROTO_INLINE_MAX_SIZE = 7
  Client = {c1, c2}
  Db = {0, 1}
  Name = {"a"}
  Obj = {1, 2, 3}
  Arguments <- MCArguments
  MaxWatched = 2
  MaxQueued = 1
  Nobody = Nobody
  Key = {"a", "b"}
  Val = {v1, v2}
  None = None
  LLONG_MAX = 31
  SecondMs = 2
  Times <- MCTimes
  DelLists <- MCDelLists
  MaxTime = 4
SYMMETRY ClientSymmetry
INVARIANTS
  ExecutesWhatWasSent NothingLeftBehind ErrorsAreErrors
  TablesAgree HoldersCounted AbortsRightly
  ExpiresHaveKeys
PROPERTIES ImplementsStore NXNeverOverwrites
