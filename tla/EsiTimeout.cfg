SPECIFICATION Spec
CONSTANTS
  MaxRetries = 1
  MaxDepth = 2
  MaxRequests = 1
INVARIANTS
  TimeoutMeansTime
