SPECIFICATION FairSpec
CONSTANTS
    MaxJobs = 3
    Capacity = 2
    Kinds <- MCKinds
    ReadKinds <- MCReadKinds
    k1 = k1
    k2 = k2
    Keys <- MCKeys
    MaxEdits <- MCMaxEdits
INVARIANTS
  SerialInOrder
  NewestRetained
  ScheduledHasJob
PROPERTIES
  AcceptedWorkEnds
  StoreSpec
CHECK_DEADLOCK FALSE
