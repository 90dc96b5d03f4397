SPECIFICATION Spec
CONSTANTS
  App <- MCApp
  Callers = {"elAPP"}
  Peer <- MCPeer
  WaitName <- MCWaitName
  CallIop = {"READ"}
  Table <- MCTable
  KeepsIop = {"rhApp"}
  IndexMod = 4
  NWait = 2
  CopyUnits <- WholeCopy
  ShmGetFails = FALSE
  CanCrash = {}
  MaxCalls = 2
  MaxCrash = 0
INVARIANTS RecvIsRequest
CHECK_DEADLOCK FALSE
