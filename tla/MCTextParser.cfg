SPECIFICATION Spec
CONSTANTS
  Values = {"v"}
  Lucks = {"ok", "no_memory", "refused"}
  MaxTokens = 9
INVARIANTS
  TypeOK
  LockStep
  CountsAreValues
  AcceptsTheGrammar
  ReturnsTheTree
PROPERTY
  StopsOnlyAtDeadEnds
CHECK_DEADLOCK FALSE
