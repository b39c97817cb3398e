SPECIFICATION Spec
CONSTANTS
    Aspects = {"worktree", "history"}
    Panes = {"blame", "fileHistory"}
    MaxPanes = 1
INVARIANTS
    TypeOK
    ReadsAreNewest
    NothingForgotten
PROPERTIES
    NeverGoesBack
CHECK_DEADLOCK FALSE
