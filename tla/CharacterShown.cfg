SPECIFICATION Spec
CONSTANTS
  Tracked <- Clones
  Keys = {1, 2}
  Versions = {30}
  MaxRows = 2
  MaxChanges = 2
  MaxKills = 1
  MaxPosted = 1
  Coarse = 2
INVARIANTS
  ReturnedCopyShown
CHECK_DEADLOCK FALSE
