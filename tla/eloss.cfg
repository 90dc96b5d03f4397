SPECIFICATION FairSpec
CONSTANTS
  MaxMeter = 8
  MaxMet = 3
  Byte = 4
  Missing = Missing
  Files <- MCFiles
  LevMax = 2
  NReg = 1
  NPhase = 1
  Item <- TwoItems
  BeyondUse <- Behind
  NaN = NaN
  StartReg = {0}
  MaxBurn = 2
  MaxUpset = 2
INVARIANTS EnergyInv NeverInvented NothingLost ShownWasUsed ConfirmedIsStored
PROPERTIES LedgerSpec SavedEventually
