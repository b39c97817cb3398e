SPECIFICATION Spec
INVARIANTS
  WindowIsOneTraversal
  SearchIsExact
PROPERTIES
  ReaderUndisturbed
CHECK_DEADLOCK FALSE
