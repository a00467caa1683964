\* Both draw modes in the three kinds of mode, auto-complete against a player who plays
\* on, undoes, pauses, deals anew, changes the setting or quits.
CONSTANTS
  Suits <- MCSuits
  RedSuits <- MCRed
  King = 3
  NumColumns = 2
  NumSlots = 2
  Decks <- MCDecks
  DrawModes = {"DrawOne", "DrawThree"}
  Modes = {"Classic", "Zen", "Challenge"}
  MaxUndo = 2
  MaxMoves = 8
  MaxUndos = 1
SPECIFICATION AutoSpec
PROPERTY AutoCompleteFinishes
INVARIANTS TypeOK CardsConserved BoardsKept FlagsExact InstructionsExact UndoIsPast ScoreEarned
