SPECIFICATION Spec
CONSTANTS
  Keys = {"a", "b", "c", "d", "e", "huge"}
  Bytes <- Sizes
  Large = {"c", "d"}
  ByteLimit = 5
  EntryLimit = 3
  Docs = {"before", "after"}
  Count <- PageCounts
  PageSize <- PageSizes
  CachePages = 2
  CacheBytes = 3
  Capacity = 1
  MaxGeneration = 2
  First = "before"
  Second = "after"
  Views = {1, 2}
  Clips <- ClipsOf
  Draggable = {"before"}
  LosesButton = TRUE
  MaxChanges = 3
INVARIANTS
  KeepsMostRecent
  PagesAreRequested
  FramesAreRequested
PROPERTIES
  SidesSettle
CHECK_DEADLOCK FALSE
