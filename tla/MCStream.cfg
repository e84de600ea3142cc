SPECIFICATION Spec
CONSTANTS
  Client = {c1}
  Fd = {3}
  SetSize = 4
  PROTO_REPLY_CHUNK_BYTES = 2
  NET_MAX_WRITES_PER_EVENT = 2
  NodeSize = 1
  HardLimit = 14
  MultiBulkHeader = 1
  SDS_MAX_PREALLOC = 4
  SdsHeader = 1
  ObjectSize = 1
  LongSize = 2
  PREFIX_SIZE = 0
  Remote = {}
  ProtectedMode = TRUE
  MaxClients = 1
  MaxQueryBuf = 2
  Request <- StreamRequest
  MaxRequests = 3
  SendBuffer = 2
  AddCanFail = TRUE
INVARIANTS StreamIntact ReplyBytesExact OutputScheduled
PROPERTIES ClosingIsFinal AllSentBeforeClose
