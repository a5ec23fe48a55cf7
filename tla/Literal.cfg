SPECIFICATION Spec
CONSTANTS
  WordBits = 5
  GroupBits = 2
  Masks = {1, 3, 7}
  MaxOctets = 4
  Letters = {48, 65, 126, 10}
  MaxLetters = 4
INVARIANTS
  IntegerRoundTrip
  FittingIntegerIsRead
  TableFollowsCode
  HuffmanRoundTrip
  FieldRoundTrip
  CutLiteralIsRefused
CHECK_DEADLOCK FALSE
