SPECIFICATION Spec
CONSTANTS
  Skills <- TwoSkills
  Plan <- ThreeLevels
  Levels0 <- Untrained
  MaxTime = 4
  MaxLevel = 3
  MaxPosted = 1
INVARIANTS
  TypeOK
  LevelsAsPlanned
PROPERTIES
  TickAnnouncesOnce
