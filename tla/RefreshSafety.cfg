SPECIFICATION FairSpec
CONSTANTS
  Ids = {1, 2}
  Sections <- LocationOnly
  MaxRows = 2
  MaxTime = 1
  MaxObjects = 4
  MaxEvents = 1
  MaxDepth = 2
  MaxForced = 2
  CanRestart = FALSE
INVARIANTS
  TypeOK
  OneOwner
  IndicatorShowsRefresh
PROPERTIES
  RefinesRoster
  RefreshEnds
  StopCompletes
  EveryoneRefreshed
