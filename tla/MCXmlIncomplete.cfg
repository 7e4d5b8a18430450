SPECIFICATION Spec
CONSTANTS
  Tags = {"llsd", "scalar", "array"}
  Texts = {}
  Lucks = {"ok"}
  MaxElements = 4
  MaxTexts = 0
INVARIANTS
  OnlyCompleteParsesReturn
CHECK_DEADLOCK FALSE
