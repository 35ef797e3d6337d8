SPECIFICATION Spec
CONSTANTS
  Ids = {1}
  Sections <- SkillsOnly
  MaxRows = 1
  MaxTime = 1
  MaxObjects = 3
  MaxEvents = 1
  MaxDepth = 2
  MaxForced = 2
  CanRestart = FALSE
PROPERTIES
  DiscardsOnlyUntouched
