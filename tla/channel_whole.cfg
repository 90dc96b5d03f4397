SPECIFICATION Spec
CONSTANTS
  App <- MCApp
  Callers = {"elAPP"}
  Peer <- MCPeer
  WaitName <- MCWaitName
  CallIop = {"READ", "WRITE"}
  Table <- MCTable
  KeepsIop = {"rhApp"}
  IndexMod = 4
  NWait = 2
  CopyUnits <- WholeCopy
  ShmGetFails = TRUE
  CanCrash = {"elAPP", "rhApp"}
  MaxCalls = 3
  MaxCrash = 1
INVARIANTS DeployedInv AnswerMatchesCall
PROPERTIES RpcSpec
CHECK_DEADLOCK FALSE
