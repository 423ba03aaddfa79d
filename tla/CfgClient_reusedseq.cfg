SPECIFICATION Spec
CONSTANTS
  None = None
  MaxSeq = 2
  MaxRestarts = 1
  MaxLost = 0
  MaxFlight = 2
INVARIANTS UploadReceived
