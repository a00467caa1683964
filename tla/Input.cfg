CONSTANTS
  Suits <- MCSuits
  RedSuits <- MCRed
  King = 3
  NumColumns = 2
  NumSlots = 2
  Deck <- MCDeck
  MaxPast = 3
SPECIFICATION InputSpec
INVARIANTS DragsOwned LiftFresh
PROPERTY PausedAsksNothing
