SPECIFICATION Spec
CONSTANTS
  Files <- MCFiles
  Datalen = 2
INVARIANTS MapInv ServiceHasMemory ItemsApart OverrunByOne CrashExplained
CHECK_DEADLOCK FALSE
