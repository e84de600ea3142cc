SPECIFICATION Spec
CONSTANTS
  NULL = NULL
  CONFIG_REPL_BACKLOG_MIN_SIZE = 2
  Node <- MCNode
  Conn = {1, 2}
  Diskless = {FALSE, TRUE}
  WithAuth = {"r"}
  WithIp = {"r"}
  CmdLen <- MCCmdLen
  RdbLen = 2
  InitialMaster <- MCInitialMaster
  MayFollow <- MCMayFollow
  Db = {1}
  BacklogSize = 4
  NewSizes = {3}
  Limit <- MCLimit
  MaxEvents = 3
INVARIANTS StreamExact PartialResyncSafe TransferIntact LinkOwned
PROPERTY BacklogSteady
