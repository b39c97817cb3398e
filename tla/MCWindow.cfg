SPECIFICATION Spec
CONSTANTS
  pr1 = pr1
  pr2 = pr2
  pr3 = pr3
  Projects = {pr1, pr2, pr3}
  MaxGroups = 2
  MaxProjects = 2
  MaxDepth = 2
  MaxId = 3
  MaxRecent = 2
  Initial <- SavedList
  UserSaves = 3
  MaxFailures = 1
  Edits = {"forget", "move", "fold", "ungroup", "form", "retry", "dismiss"}
  Tabs = {"t1", "t2", "t3"}
  NoTab = "none"
  Kinds = {"branch", "recovery", "tags", "rebase", "ignore", "discard", "profile",
           "comparing", "checking"}
  MaxDrafts = 2
  Good = {"a", "b"}
  MaxWrites = 2
  MaxUser = 2
  MaxChoices = 1
  BuiltIn = {"day", "night"}
  LightBuiltIn = {"day"}
  Daylight = "day"
  Midnight = "night"
  Edited = {"x"}
  DesktopPalettes = {"o1", "o2"}
  MaxThemes = 2
  MaxSaves = 2
  MaxSwitches = 2
  MaxEdits = 1
  MaxCrashes = 0
INVARIANTS
  MenusAgree
  WindowWearsTheTheme
  WatchIsReal
PROPERTIES
  EditsAreKept
  ReviewedIsShown
  RepliesSettle
CHECK_DEADLOCK FALSE
