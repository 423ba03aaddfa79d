SPECIFICATION FairSpec
CONSTANTS
  APs <- Two
  Addrs <- Two
  None = None
  Given <- OneOrTwo
  MaxFaults = 2
  CfgCost = 2
INVARIANTS TypeOK AddressesWereConnected
PROPERTIES OneBeacon Attached
