\* Wins, merges, midnight and kills over two launches; payloads carry one id.
CONSTANTS
  Player = "player"
  Stamp = "player"
  Achievements <- MCAchievements
  Goals <- MCGoals
  Never = 100000
  HistoryCap = 6
  Saved <- AllSaved
  Wins <- AllWins
  Answers <- AllAnswers
  FirstDay = 7
  LastDay = 8
  MaxGames = 2
  MaxStarts = 2
  MayCrash = TRUE
SPECIFICATION Spec
INVARIANTS TypeOK ProfilesSound FrameCreditsOneWin SavedAtRest
PROPERTY DiskNeverLoses
CHECK_DEADLOCK FALSE
