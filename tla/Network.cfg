SPECIFICATION FairSpec
CONSTANTS
  s1 = s1
  s2 = s2
  Statics <- Two
  Dhcp = Dhcp
  None = None
  MaxId = 4
  MaxRestarts = 1
INVARIANTS StaticHolds
PROPERTIES OldLoopsEnd
