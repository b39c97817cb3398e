SPECIFICATION PartSpec
CONSTANTS
    Kinds = {"worktree"}
    MaxEvents = 1
    QuietPeriod = 1
    MaxDelay = 2
INVARIANTS
  NothingIsLost
PROPERTIES
  DeliveryEnds
  EventsAreRead
CHECK_DEADLOCK FALSE
