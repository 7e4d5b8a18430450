SPECIFICATION Spec
CONSTANTS
  Documents <- SmallDocuments
  Formats = {"notation", "json", "xml", "binary"}
  MaxFaults = 2
  CStack = 5
INVARIANTS
  TypeOK
  StacksMirrorCalls
  FailureIsReported
  BinaryIsComplete
  AttemptsHaveCauses
PROPERTY
  Terminates
CHECK_DEADLOCK FALSE
