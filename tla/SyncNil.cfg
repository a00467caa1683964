\* The payloads build_payload makes: a nil user id.
CONSTANTS
  d1 = d1
  d2 = d2
  Devices <- MCDevices
  Player = "player"
  Stamp = "nil"
  Achievements <- MCAchievements
  Goals <- MCGoals
  Never = 100000
  HistoryCap = 3
  Wins <- MCWins
  FirstDay = 7
  LastDay = 7
  MaxGames = 2
  MaxStarts = 3
SPECIFICATION Spec
SYMMETRY Symmetry
INVARIANT PushNeverRefused
