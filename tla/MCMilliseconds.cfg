SPECIFICATION Spec
CONSTANTS
  BufLen = 3
  Sendable <- DatesOnly
  Foreign <- NoTexts
  Undefined = {0}
INVARIANT
  MillisecondsComeBack
CHECK_DEADLOCK FALSE
