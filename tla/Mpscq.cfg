CONSTANTS
  Nodes = {n1, n2, n3}
  Producers = {p1, p2}
  Consumer = c
  stub = stub
  null = null
  MaxPush = 5
SPECIFICATION Spec
INVARIANTS PoppedIsReleased NoLostWakeup DrainedIsReset
PROPERTIES ImplementsFifo EventuallyPopped
CHECK_DEADLOCK FALSE
