SPECIFICATION Spec
CONSTANTS
  FirstKeys = 3
  PageSize = 2
  Wheres <- MCWheres
  None = None
  MaxEdits = 2
  MaxNews = 2
  MaxMoves = 2
  MaxActions = 2
  MaxSaves = 2
  MaxFails = 1
INVARIANTS TypeOK RightRow CalmEditsLand InsertOnce FreshView SpinnersHonest
CHECK_DEADLOCK FALSE
