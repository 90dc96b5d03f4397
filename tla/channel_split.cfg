SPECIFICATION Spec
CONSTANTS
  App <- MCApp
  Callers = {"elAPP", "rhApp"}
  Peer <- MCPeer
  WaitName <- MCWaitName
  CallIop = {"READ"}
  Table <- MCTable
  KeepsIop = {"rhApp"}
  IndexMod = 4
  NWait = 2
  CopyUnits <- SplitCopy
  ShmGetFails = TRUE
  CanCrash = {"elAPP", "rhApp"}
  MaxCalls = 2
  MaxCrash = 1
INVARIANTS ChannelInv NoSelfAnswer UnsentNeverServed
PROPERTIES StepsBounded
CHECK_DEADLOCK FALSE
