SPECIFICATION DiscardSpec
CONSTANTS
  Instances = {"i1", "i2"}
  Files = {"f1", "f2"}
  Contents = {"c1", "c2"}
  Nobody = Nobody
  Git = "git"
  MaxEdits = 1
  MaxKills = 1
  Paths <- ThreePaths
  Texts = {1, 2}
  Ignored <- IgnoredPaths
  MaxSteps = 2
  Histories <- TwoHistories
  MaxCommits = 4
  MaxStash = 2
  MaxReviews = 2
  MaxOutside = 2
  Situations <- FiveSituations
  MaxCommands = 3
  MaxInterventions = 2
  Absent = Absent
  Markers = Markers
  None = None
PROPERTY OtherRowsStay
CHECK_DEADLOCK FALSE
