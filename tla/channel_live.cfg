SPECIFICATION FairSpec
CONSTANTS
  App <- MCApp
  Callers = {"elAPP", "rhApp"}
  Peer <- MCPeer
  WaitName <- MCWaitName
  CallIop = {"READ"}
  Table <- MCTable
  KeepsIop = {"rhApp"}
  IndexMod = 4
  NWait = 2
  CopyUnits <- WholeCopy
  ShmGetFails = FALSE
  CanCrash = {}
  MaxCalls = 2
  MaxCrash = 0
PROPERTIES CallReturns ServiceResumes SlotIsFreed
CHECK_DEADLOCK FALSE
