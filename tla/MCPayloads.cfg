SPECIFICATION Spec
CONSTANTS
  BufLen = 3
  Sendable <- Values
  Foreign <- HandTexts
  Undefined = {0, 95}
INVARIANTS
  TypeOK
  BinariesComeBack
  StringsComeBack
  UrisComeBack
  DatesComeBack
  EscapesDecode
CHECK_DEADLOCK FALSE
