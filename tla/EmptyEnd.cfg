SPECIFICATION Spec
CONSTANTS
  Streams = {1}
  InitialWindow = 1
  MaxFrameSize = 1
  Sizes = {0, 1}
  MaxCalls = 2
  MaxResets = 0
  MayFail = FALSE
PROPERTY EmptyEndArrives
CHECK_DEADLOCK FALSE
