SPECIFICATION FairSpec
CONSTANTS
  NULL = NULL
  CONFIG_REPL_BACKLOG_MIN_SIZE = 2
  Node <- MCNode
  Conn = {1, 2}
  Diskless = {FALSE, TRUE}
  WithAuth = {}
  WithIp = {}
  CmdLen <- MCCmdLen
  RdbLen = 1
  InitialMaster <- MCInitialMaster
  MayFollow <- MCMayFollow
  Db = {1}
  BacklogSize = 4
  NewSizes = {}
  Limit <- MCLiveLimit
  MaxEvents = 2
PROPERTY EventuallyInSync
