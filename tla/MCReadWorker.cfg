SPECIFICATION FairSpec
CONSTANTS
    MaxRequests = 3
    MaxLatest = 5
INVARIANTS
  SupersededIsStopped
PROPERTIES
  RequestsSettle
  RequestSpec
CHECK_DEADLOCK FALSE
