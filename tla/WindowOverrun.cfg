SPECIFICATION Spec
CONSTANTS
  Streams = {1, 3}
  InitialWindow = 3
  MaxFrameSize = 1
  Sizes = {1, 2}
  MaxCalls = 3
  MaxResets = 0
  MayFail = FALSE
INVARIANT NeverBeyondWindow
CHECK_DEADLOCK FALSE
