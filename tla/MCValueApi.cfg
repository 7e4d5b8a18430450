SPECIFICATION Spec
CONSTANTS
  Vals <- Texts
  Start <- StartHeaps
  NewValues <- Leaves
  MaxObjects = 3
  MaxCalls = 2
INVARIANTS
  TypeOK
  OwnedOnce
  EqualIsStructural
  ConversionsComeBack
CHECK_DEADLOCK FALSE
