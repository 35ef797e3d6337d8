SPECIFICATION FairSpec
CONSTANTS
  MaxRetries = 2
  MaxDepth = 2
  MaxRequests = 2
INVARIANTS
  TypeOK
  NoLostWakeup
  EarlyTimeoutNeedsNesting
PROPERTIES
  SlotsReturn
