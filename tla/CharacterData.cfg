SPECIFICATION FairSpec
CONSTANTS
  Tracked <- AllMembers
  Keys = {1, 2}
  Versions = {26, 27, 28, 29, 30}
  MaxRows = 2
  MaxChanges = 2
  MaxKills = 1
  MaxPosted = 1
  Coarse = 3
INVARIANTS
  TypeOK
  RowFollowsAnswer
  LostOnlyInSave
PROPERTIES
  RestartKeepsRow
  GameReachesRow
CHECK_DEADLOCK FALSE
