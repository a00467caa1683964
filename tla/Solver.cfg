CONSTANTS
  Suits <- MCSuits
  RedSuits <- MCRed
  King = 3
  NumColumns = 2
  NumSlots = 2
  SolverDecks <- MCDecks
  DrawCounts = {1, 3}
  MoveBudgets = {4, 2000}
  StateBudgets = {6, 2000}
  Live <- MCLive
  Distance <- MCDistance
SPECIFICATION SolverSpec
INVARIANTS StackIsPlay VerdictRight StuckIsLost
PROPERTY SearchEnds
CHECK_DEADLOCK FALSE
