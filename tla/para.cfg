SPECIFICATION Spec
CONSTANTS
  MaxMeter = 4
  MaxMet = 2
  Byte = 2
  Missing = Missing
  Files <- MCFiles
INVARIANTS LoadInv EntriesLoaded OneMisplaced 
CHECK_DEADLOCK FALSE
