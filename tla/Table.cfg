CONSTANTS
  Suits <- MCSuits
  RedSuits <- MCRed
  King = 2
  NumColumns = 1
  NumSlots = 2
  Deck <- MCDeck
  Saved <- MCSaved
  CardsPerDraw = 1
  Doings = {"restore", "new game", "resize", "settings", "pause"}
  MaxDoings = 2
SPECIFICATION TableSpec
CHECK_DEADLOCK FALSE
INVARIANTS TableTrue StillCardsSettle CascadeEnds
