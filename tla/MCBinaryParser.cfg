SPECIFICATION Spec
CONSTANTS
  Values = {"v"}
  Lucks = {"ok", "no_memory", "refused"}
  MaxTokens = 7
INVARIANTS
  TypeOK
  LockStep
  AcceptsTheGrammar
  ReturnsTheTree
PROPERTY
  StopsOnlyAtDeadEnds
CHECK_DEADLOCK FALSE
