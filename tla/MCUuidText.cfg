SPECIFICATION Spec
CONSTANTS
  Vals <- Texts
  Start <- EmptyHeap
  NewValues <- Uuid
  MaxObjects = 3
  MaxCalls = 2
INVARIANT
  UuidTextsComeBack
CHECK_DEADLOCK FALSE
