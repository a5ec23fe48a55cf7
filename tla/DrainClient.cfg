SPECIFICATION MCSpec
CONSTANTS
  ClientSide = TRUE
  MaxStreamId = 3
  PeerIds = {0, 1, 2}
  PeerLastIds = {}
  LastIds = {0}
  StreamLimits = {}
  EnablePush = TRUE
PROPERTY DrainCompletes
\* Cooperating sides that have drained have nothing left to do.
CHECK_DEADLOCK FALSE
