\* Two moves, interchangeable; a win takes both.
SPECIFICATION ReplaySpec
CONSTANTS
  Moves = {a, b}
  WinAt = 2
  UndoCap = 1
  HistoryCap = 1
  MaxRecorded = 2
  MaxInbox = 1
INVARIANTS
  NothingMissing
PROPERTY PlaybackEnds
