SPECIFICATION FairSpec
CONSTANTS
  Client = {c1, c2}
  Fd = {3, 4}
  SetSize = 5
  PROTO_REPLY_CHUNK_BYTES = 1
  NET_MAX_WRITES_PER_EVENT = 1
  NodeSize = 1
  HardLimit = 0
  MultiBulkHeader = 1
  SDS_MAX_PREALLOC = 4
  SdsHeader = 1
  ObjectSize = 1
  LongSize = 2
  PREFIX_SIZE = 0
  Remote = {}
  ProtectedMode = TRUE
  MaxClients = 2
  MaxQueryBuf = 1
  Request <- LifeRequest
  MaxRequests = 1
  SendBuffer = 1
  AddCanFail = FALSE
PROPERTY OutputDelivered
