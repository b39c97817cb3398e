SPECIFICATION Spec
CONSTANTS
    Repositories = {"one", "two"}
    Aliases = {"inside"}
    MaxTabs = 2
    MaxGroup = 2
    None = None
INVARIANTS
  TabsAgree
  SessionForgetsTabs
