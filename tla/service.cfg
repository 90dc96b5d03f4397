SPECIFICATION Spec
CONSTANTS
  Base = 8
  DataBuf = 4
  MsgBuf = 16
  Item <- MCItem
  MemLen = 31
  Calls <- MCCalls
  MainWrites <- MCMainWrites
  Stack = {0, 5}
INVARIANTS ServiceInv ReadIsItem ItemsKept WriteIsKept
PROPERTIES DeathsOfCalls
