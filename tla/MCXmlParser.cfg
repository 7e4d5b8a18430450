SPECIFICATION Spec
CONSTANTS
  Tags = {"llsd", "scalar", "string", "array", "map", "unknown"}
  Texts = {"t"}
  Lucks = {"ok", "no_memory", "refused", "malformed", "no_buffer"}
  MaxElements = 4
  MaxTexts = 1
INVARIANTS
  TypeOK
  ReturnsTheTree
  LockStepUntilWarned
  UnwarnedIsDocument
CHECK_DEADLOCK FALSE
