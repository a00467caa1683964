SPECIFICATION Spec
CONSTANTS
  None = None
  MaxDeals = 3
  MaxQueue = 3
INVARIANTS EndedNeverReturns PausedIsVisible GameOverTrue
PROPERTY DialogAbandonsCounted
CHECK_DEADLOCK FALSE
