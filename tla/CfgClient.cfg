SPECIFICATION Spec
CONSTANTS
  None = None
  MaxSeq = 3
  MaxRestarts = 1
  MaxLost = 1
  MaxFlight = 2
INVARIANTS TypeOK AnswersMatch SentInOrder
