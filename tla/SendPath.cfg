SPECIFICATION MCSpec
CONSTANTS
  Streams = {1, 3}
  InitialWindow = 3
  MaxFrameSize = 1
  Sizes = {0, 2}
  MaxCalls = 2
  MaxResets = 1
  MayFail = TRUE
INVARIANTS
  InOrder
  WindowAccounts
PROPERTY AllIsRead
CHECK_DEADLOCK FALSE
