SPECIFICATION Spec
CONSTANTS
  Addr = {0, 1, 2, 3, 4, 5, 6}
  MaxNum = 6
  Short = 1
INVARIANTS NotMissed
CHECK_DEADLOCK FALSE
