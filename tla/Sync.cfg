\* Clients that stamp their payloads with the player's id.
CONSTANTS
  d1 = d1
  d2 = d2
  Devices <- MCDevices
  Player = "player"
  Stamp = "player"
  Achievements <- MCAchievements
  Goals <- MCGoals
  Never = 100000
  HistoryCap = 3
  Wins <- MCWins
  FirstDay = 7
  LastDay = 8
  MaxGames = 2
  MaxStarts = 3
SPECIFICATION Spec
SYMMETRY Symmetry
INVARIANTS TypeOK CopiesSound NothingCountedTwice
PROPERTIES DevicesAbsorb AdditiveUnlessOverlapping BoardNeverRegresses
CHECK_DEADLOCK FALSE
