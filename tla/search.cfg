SPECIFICATION FairSpec
CONSTANTS
  Addr = {0, 1, 2, 3, 4, 5, 6}
  MaxNum = 6
  Short = 0
INVARIANTS SearchInv NotMissed
PROPERTIES SearchHalves SearchEnds
CHECK_DEADLOCK FALSE
