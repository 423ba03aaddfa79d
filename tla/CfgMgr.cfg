SPECIFICATION FairSpec
CONSTANTS
  Wlans = {w}
  MaxBase = 0
  AcBands = {"own"}
  NoCfg = NoCfg
  NoFile = NoFile
  NoTime = NoTime
  Bad = Bad
  Old = Old
  MaxClock = 2
  MaxFaults = 2
INVARIANTS TypeOK NoOrphans SaveFindsFile StaleOnlyOnClash
PROPERTIES ImplementsStore Recovers
