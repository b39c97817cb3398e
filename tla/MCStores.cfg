SPECIFICATION StoresSpec
CONSTANTS
  Writers = {"w1", "w2"}
  Paths = {"p1", "p2"}
  Contents = {"a", "b"}
  Tries = 2
  MaxNames = 2
  MaxStops = 1
  Limit = 2
  Clock = {1, 3}
  MaxOps = 3
  MaxKills = 1
  Programs = {"p", "q"}
  Ids = {"home", "work"}
  Identities = {"ann", "bob"}
  MaxEdits = 2
  MaxApplies = 2
  MaxOutside = 1
  Projects = {"p1", "p2", "p3"}
  Texts = {"text"}
  Themes = {"t1", "t2"}
  Settings = {Default, "dark"}
  EarlierFiles <- Earlier
  MaxRecent = 2
  MaxProjectNames = 2
  MaxThemes = 1
  MaxQueue = 2
  MaxSaves = 2
  Default = Default
  NoText = NoText
  a = a
  b = b
INVARIANTS
  SavesAreWhole
  SelectionIsExact
  LogIsTrue
PROPERTIES
  OthersSurvive
  NoUpdateIsLost
CHECK_DEADLOCK FALSE
