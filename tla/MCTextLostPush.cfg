SPECIFICATION Spec
CONSTANTS
  Values = {"v"}
  Lucks = {"ok", "no_container"}
  MaxTokens = 6
INVARIANTS
  ReturnsTheTree
CHECK_DEADLOCK FALSE
