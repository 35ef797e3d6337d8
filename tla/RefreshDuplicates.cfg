SPECIFICATION Spec
CONSTANTS
  Ids = {1}
  Sections <- LocationAndSkills
  MaxRows = 2
  MaxTime = 2
  MaxObjects = 3
  MaxEvents = 1
  MaxDepth = 2
  MaxForced = 2
  CanRestart = TRUE
INVARIANTS
  TableHoldsRoster
  ForceNotForgotten
PROPERTIES
  NoResurrection
