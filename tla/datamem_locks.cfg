SPECIFICATION Spec
CONSTANTS
  Thread = {main, dbase}
  IedList <- MCIedList
  IdList <- MCIdList
  PointList <- MCPointList
  MemLen = 8
  Value = {0, 1, 2}
  Ops <- AllOps
INVARIANTS LocksReleased
CHECK_DEADLOCK FALSE
