SPECIFICATION Spec
CONSTANTS
    Aspects = {"worktree", "history"}
    Panes = {"blame", "fileHistory"}
    MaxPanes = 2
PROPERTIES
    ReturningResumes
CHECK_DEADLOCK FALSE
