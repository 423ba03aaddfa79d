SPECIFICATION Spec
CONSTANTS
  Wlans = {w}
  MaxBase = 1
  AcBands = {"own"}
  NoCfg = NoCfg
  NoFile = NoFile
  NoTime = NoTime
  Bad = Bad
  Old = Old
  MaxClock = 1
  MaxFaults = 1
INVARIANTS DefaultsOnlyIfLost
